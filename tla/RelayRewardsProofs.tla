------------------------- MODULE RelayRewardsProofs -------------------------
(* Theorems about the reward sweep for every number of activations, owners, *)
(* SNSs and commitments, every lease, window and week the assumptions allow. *)
EXTENDS RelayRewards, FiniteSetTheorems, NaturalsInduction, TLAPS

-----------------------------------------------------------------------------
(* The inductive invariant.  Its parts are operators of the state they speak *)
(* of: n is the clock, s the store, lt the late requests, bal the pots, blk   *)
(* the blocks, d and iss the directory and the last id.                      *)

Stores == [plan : Plans \cup {NoPlan}, last : Nat, lock : Nat, uncounted : SUBSET Nat]

\* Plans a and b differ at most in the recipient whose turn it is.
SamePlan(a, b) == /\ a.pay = b.pay /\ a.root = b.root /\ a.fee = b.fee
                  /\ a.batch = b.batch /\ a.born = b.born /\ a.dir = b.dir

\* A plan that was pinned: somebody's turn has come, and all of its owners were
\* known to one directory.
PlanOK(plan, n) ==
  /\ plan.next \in DOMAIN plan.pay /\ plan.born \in 1 .. n
  /\ plan.root = plan.dir.root
  /\ \A i \in DOMAIN plan.pay : plan.pay[i].to \in plan.dir.owners

\* The requests of plan are those of the plan in store s, or they are older
\* than the last sweep, or no sweep was counted for the plan.
Followed(plan, s) ==
  \/ s.plan # NoPlan /\ SamePlan(s.plan, plan)
  \/ plan.born <= s.last
  \/ plan.born \in s.uncounted

FollowedTx(tx, s) ==
  \/ s.plan # NoPlan /\ tx \in Transfers(s.plan)
  \/ tx.born <= s.last
  \/ tx.born \in s.uncounted

LateOK(s, lt) == \A tx \in lt : tx.born >= 1 /\ FollowedTx(tx, s)

StoreOK(s, n) ==
  /\ s.last <= n
  /\ s.plan # NoPlan => PlanOK(s.plan, n) /\ SweepIsDue(s.last, s.plan.born)

\* What the plan may still take from the pot.
Owing(plan, blk) ==
  SumFunctionOnSet([i \in DOMAIN plan.pay |-> plan.pay[i].amt + plan.fee],
                   {i \in DOMAIN plan.pay : Transfer(plan, i) \notin blk})

Covered(s, bal, blk) ==
  s.plan # NoPlan /\ Settled(s, s.plan.born) =>
    Owing(s.plan, blk) <= bal[s.plan.root]

\* An activation that is adjudicating under the lease has the store it began
\* with, and at least the pot it read.
ReadOK(a, s, bal) ==
  /\ SweepIsDue(a.gen, a.start)
  /\ s.lock = a.expiry => s.plan = NoPlan /\ s.last = a.gen
  /\ a.pc # "context" => a.ctx # NoDir
  /\ a.pc \in {"fee", "history", "owners"} /\ s.lock = a.expiry /\ Settled(s, a.start) =>
       a.bal <= bal[a.ctx.root]
  /\ a.pc = "owners" => /\ a.batch \in DOMAIN Batches
                        /\ a.todo # {} /\ a.todo \subseteq Sources(a.batch)
                        /\ a.known \subseteq Sources(a.batch)
                        /\ a.known \subseteq a.ctx.owners

\* An activation that waits for a ledger sent for a plan that was pinned.
SendOK(a, s, n, blk) ==
  /\ a.sent # NoPlan /\ PlanOK(a.sent, n) /\ a.sent.born <= a.start
  /\ s.lock = a.expiry => s.plan = a.sent
  /\ Followed(a.sent, s)
  /\ a.out \in Accepted => Request(a) \in blk
  /\ a.out = "TooOld" => n - a.sent.born > LedgerWindow

\* The directory of an id never changes.
DirOK(ctx, d, iss) ==
  ctx # NoDir => /\ ctx.id <= iss
                 /\ d # NoDir /\ d.id = ctx.id => d = ctx

ActOK(a, s, n, bal, blk, d, iss) ==
  /\ a.pc # "idle" => /\ a.start \in 1 .. n /\ a.expiry > 0
                      /\ s.lock = a.expiry \/ a.expiry <= n
  /\ a.pc \in Reading => ReadOK(a, s, bal)
  /\ a.pc = "send" => SendOK(a, s, n, blk)
  /\ DirOK(a.ctx, d, iss)

\* Two activations never have the same lease.
LeaseInv ==
  \A p, q \in Proc : act[p].pc # "idle" /\ act[q].pc # "idle"
                     /\ act[p].expiry = act[q].expiry => p = q

IInv == /\ TypeOK /\ LeaseInv /\ StoreOK(st, now) /\ LateOK(st, late)
        /\ \A p \in Proc : ActOK(act[p], st, now, balance, blocks, dir, issued)
        /\ DirOK(dir, dir, issued)
        /\ Covered(st, balance, blocks)

-----------------------------------------------------------------------------
(* Least elements, and sums over finite sets.  Induction is by a least or a   *)
(* smallest counterexample.                                                  *)

Pick(s) == CHOOSE x \in s : TRUE

\* g adds up f over every set of D.
Adds(f, D, g) ==
  g = [s \in D |-> IF s = {} THEN 0 ELSE f[Pick(s)] + g[s \ {Pick(s)}]]

UpTo(S, n) == {s \in SUBSET S : Cardinality(s) <= n}

\* The order of the natural numbers, as a relation.
Less == {x \in Nat \X Nat : x[1] < x[2]}

LEMMA LeastExists ==
  ASSUME NEW S \in SUBSET Nat, S # {}
  PROVE  \E x \in S : \A y \in S : x <= y
<1>1. OpToRel(<, Nat) = Less
  BY DEF OpToRel, Less
<1>2. IsWellFoundedOn(Less, Nat)
  BY <1>1, NatLessThanWellFounded
<1>3. PICK x \in S : \A y \in S : ~(<<y, x>> \in Less)
  BY <1>2, WFMin
<1>4. \A y \in S : x <= y
  <2> TAKE y \in S
  <2>1. x \in Nat /\ y \in Nat /\ ~(y < x)
    BY <1>3 DEF Less
  <2> QED
    BY <2>1
<1> QED
  BY <1>4

LEMMA PickIn == \A s : s # {} => Pick(s) \in s
  BY DEF Pick

LEMMA AddsExists ==
  ASSUME NEW f, NEW S, IsFiniteSet(S)
  PROVE  \E g : Adds(f, SUBSET S, g)
<1> DEFINE Good(n) == \E g : Adds(f, UpTo(S, n), g)
           Bad == {n \in Nat : ~Good(n)}
<1>1. \A s \in SUBSET S : /\ IsFiniteSet(s) /\ Cardinality(s) \in Nat
                          /\ Cardinality(s) <= Cardinality(S)
  BY FS_CardinalityType, FS_Subset
<1>2. \A s \in SUBSET S : s # {} => Cardinality(s \ {Pick(s)}) = Cardinality(s) - 1
  BY <1>1, PickIn, FS_RemoveElement
<1>3. \A s \in SUBSET S : Cardinality(s) = 0 <=> s = {}
  BY <1>1, FS_EmptySet
<1>4. Good(0)
  <2> DEFINE g == [s \in UpTo(S, 0) |-> 0]
  <2>1. \A s \in UpTo(S, 0) : s = {}
    BY <1>1, <1>3 DEF UpTo
  <2>2. g = [s \in UpTo(S, 0) |-> IF s = {} THEN 0 ELSE f[Pick(s)] + g[s \ {Pick(s)}]]
    BY <2>1
  <2> QED
    BY <2>2, Zenon DEF Adds
<1>5. ASSUME NEW n \in Nat, Good(n) PROVE Good(n + 1)
  <2>1. PICK g : Adds(f, UpTo(S, n), g)
    BY <1>5
  <2> DEFINE h == [s \in UpTo(S, n + 1) |->
                     IF s = {} THEN 0 ELSE f[Pick(s)] + g[s \ {Pick(s)}]]
  <2>2. \A s \in UpTo(S, n + 1) : s # {} => s \ {Pick(s)} \in UpTo(S, n)
    BY <1>1, <1>2 DEF UpTo
  <2>3. UpTo(S, n) \subseteq UpTo(S, n + 1)
    BY <1>1 DEF UpTo
  <2>4. \A s \in UpTo(S, n) : g[s] = IF s = {} THEN 0 ELSE f[Pick(s)] + g[s \ {Pick(s)}]
    <3>1. g = [s \in UpTo(S, n) |-> IF s = {} THEN 0 ELSE f[Pick(s)] + g[s \ {Pick(s)}]]
      BY <2>1 DEF Adds
    <3> DEFINE k == [s \in UpTo(S, n) |-> IF s = {} THEN 0 ELSE f[Pick(s)] + g[s \ {Pick(s)}]]
    <3>2. g = k
      BY <3>1
    <3>3. \A s \in UpTo(S, n) : k[s] = IF s = {} THEN 0 ELSE f[Pick(s)] + g[s \ {Pick(s)}]
      OBVIOUS
    <3> QED
      BY <3>2, <3>3, Zenon
  <2>5. \A s \in UpTo(S, n) : h[s] = g[s]
    BY <2>3, <2>4
  <2>6. \A s \in UpTo(S, n + 1) : s # {} => h[s \ {Pick(s)}] = g[s \ {Pick(s)}]
    BY <2>2, <2>5
  <2>7. h = [s \in UpTo(S, n + 1) |-> IF s = {} THEN 0 ELSE f[Pick(s)] + h[s \ {Pick(s)}]]
    BY <2>6
  <2> QED
    BY <2>7, Zenon DEF Adds
<1>6. Bad = {}
  <2> SUFFICES ASSUME Bad # {} PROVE FALSE
    OBVIOUS
  <2>1. PICK n \in Bad : \A m \in Bad : n <= m
    BY LeastExists
  <2>2. n \in Nat /\ n # 0 /\ ~Good(n)
    BY <1>4, <2>1
  <2>3. n - 1 \in Nat /\ ~(n <= n - 1)
    BY <2>2
  <2> HIDE DEF Good
  <2>4. Good(n - 1)
    BY <2>1, <2>3
  <2>5. (n - 1) + 1 = n
    BY <2>2
  <2> QED
    BY <1>5, <2>2, <2>3, <2>4, <2>5
<1>7. Cardinality(S) \in Nat /\ UpTo(S, Cardinality(S)) = SUBSET S
  BY <1>1 DEF UpTo
<1>8. Good(Cardinality(S))
  BY <1>6, <1>7
<1> QED
  BY <1>7, <1>8

\* What Adds says of each set.
LEMMA AddsEach ==
  ASSUME NEW f, NEW D, NEW g, Adds(f, D, g)
  PROVE  \A s \in D : g[s] = IF s = {} THEN 0 ELSE f[Pick(s)] + g[s \ {Pick(s)}]
<1> DEFINE k == [t \in D |-> IF t = {} THEN 0 ELSE f[Pick(t)] + g[t \ {Pick(t)}]]
<1>1. g = k
  BY DEF Adds
<1>2. \A s \in D : k[s] = IF s = {} THEN 0 ELSE f[Pick(s)] + g[s \ {Pick(s)}]
  OBVIOUS
<1> QED
  BY <1>1, <1>2, Zenon

LEMMA SumUnfold ==
  ASSUME NEW f, NEW S, IsFiniteSet(S)
  PROVE  \E h : Adds(f, SUBSET S, h) /\ SumFunctionOnSet(f, S) = h[S]
<1> DEFINE iter == CHOOSE h : h = [s \in SUBSET S |-> IF s = {} THEN 0
                      ELSE LET x == CHOOSE x \in s : TRUE IN f[x] + h[s \ {x}]]
<1>1. SumFunctionOnSet(f, S) = iter[S]
  BY Zenon DEF SumFunctionOnSet, FoldFunctionOnSet, MapThenFoldSet
<1>2. \E h : h = [s \in SUBSET S |-> IF s = {} THEN 0
                      ELSE LET x == CHOOSE x \in s : TRUE IN f[x] + h[s \ {x}]]
  <2>1. \E h : Adds(f, SUBSET S, h)
    BY AddsExists
  <2> QED
    BY <2>1, Zenon DEF Adds, Pick
<1>3. iter = [s \in SUBSET S |-> IF s = {} THEN 0
                      ELSE LET x == CHOOSE x \in s : TRUE IN f[x] + iter[s \ {x}]]
  BY <1>2, Zenon
<1>4. Adds(f, SUBSET S, iter)
  BY <1>3, Zenon DEF Adds, Pick
<1> QED
  BY <1>1, <1>4, Zenon

Agree(e, f, T) == \A x \in T : e[x] = f[x]

\* Every function that adds up f over the subsets of S has the sums as values;
\* values of f on S that agree give the same sums.
LEMMA AddsUnique ==
  ASSUME NEW e, NEW f, NEW S, NEW T, NEW g, NEW h, IsFiniteSet(S), T \subseteq S,
         Adds(e, SUBSET S, g), Adds(f, SUBSET T, h), Agree(e, f, T)
  PROVE  \A U \in SUBSET T : g[U] = h[U]
<1> DEFINE Bad == {U \in SUBSET T : g[U] # h[U]}
<1>1. SUFFICES ASSUME Bad # {} PROVE FALSE
  OBVIOUS
<1>0. IsFiniteSet(T)
  BY FS_Subset
<1>2. IsWellFoundedOn(StrictSubsetOrdering(T), SUBSET T)
  BY <1>0, FS_StrictSubsetOrderingWellFounded, FS_FiniteSubsetsOfFinite
<1>3. Bad \subseteq SUBSET T
  OBVIOUS
<1> HIDE DEF Bad
<1>4. PICK U \in Bad : \A V \in Bad : ~(<<V, U>> \in StrictSubsetOrdering(T))
  BY <1>1, <1>2, <1>3, WFMin
<1>5. U \in SUBSET T /\ U \in SUBSET S /\ g[U] # h[U]
  BY <1>4 DEF Bad
<1>6. /\ g[U] = IF U = {} THEN 0 ELSE e[Pick(U)] + g[U \ {Pick(U)}]
      /\ h[U] = IF U = {} THEN 0 ELSE f[Pick(U)] + h[U \ {Pick(U)}]
  <2> DEFINE D == SUBSET S
             E == SUBSET T
  <2>0. Adds(e, D, g) /\ Adds(f, E, h)
    OBVIOUS
  <2> HIDE DEF D, E
  <2>1. \A s \in D : g[s] = IF s = {} THEN 0 ELSE e[Pick(s)] + g[s \ {Pick(s)}]
    BY ONLY <2>0, AddsEach
  <2>2. \A s \in E : h[s] = IF s = {} THEN 0 ELSE f[Pick(s)] + h[s \ {Pick(s)}]
    BY ONLY <2>0, AddsEach
  <2>3. U \in D /\ U \in E
    BY <1>5 DEF D, E
  <2> QED
    BY <2>1, <2>2, <2>3
<1>7. U # {}
  BY <1>5, <1>6
<1> DEFINE V == U \ {Pick(U)}
<1>8. Pick(U) \in U /\ V \in SUBSET T /\ V # U /\ V \subseteq U
  BY <1>5, <1>7, PickIn
<1>9. <<V, U>> \in StrictSubsetOrdering(T)
  BY <1>5, <1>8 DEF StrictSubsetOrdering
<1>10. g[V] = h[V]
  BY <1>4, <1>8, <1>9 DEF Bad
<1>11. e[Pick(U)] = f[Pick(U)]
  BY <1>5, <1>8 DEF Agree
<1> QED
  BY <1>5, <1>6, <1>7, <1>10, <1>11

LEMMA SumEmpty == \A f : SumFunctionOnSet(f, {}) = 0
<1> TAKE f
<1>1. IsFiniteSet({})
  BY FS_EmptySet
<1>2. PICK h : Adds(f, SUBSET {}, h) /\ SumFunctionOnSet(f, {}) = h[{}]
  BY <1>1, SumUnfold
<1> QED
  BY <1>2, AddsEach

LEMMA SumSame ==
  ASSUME NEW e, NEW f, NEW S, IsFiniteSet(S), \A x \in S : e[x] = f[x]
  PROVE  SumFunctionOnSet(e, S) = SumFunctionOnSet(f, S)
<1>1. PICK g : Adds(e, SUBSET S, g) /\ SumFunctionOnSet(e, S) = g[S]
  BY SumUnfold
<1>2. PICK h : Adds(f, SUBSET S, h) /\ SumFunctionOnSet(f, S) = h[S]
  BY SumUnfold
<1>3. S \subseteq S /\ S \in SUBSET S /\ Agree(e, f, S)
  BY DEF Agree
<1> QED
  BY <1>1, <1>2, <1>3, AddsUnique

\* The sums over all subsets of S, and how they go together.
LEMMA SumSteps ==
  ASSUME NEW f, NEW S, IsFiniteSet(S), NEW T \in SUBSET S, T # {}
  PROVE  SumFunctionOnSet(f, T)
           = f[Pick(T)] + SumFunctionOnSet(f, T \ {Pick(T)})
<1>1. IsFiniteSet(T) /\ IsFiniteSet(T \ {Pick(T)})
  BY FS_Subset
<1>2. PICK g : Adds(f, SUBSET T, g) /\ SumFunctionOnSet(f, T) = g[T]
  BY <1>1, SumUnfold
<1> DEFINE V == T \ {Pick(T)}
<1>3. PICK h : Adds(f, SUBSET V, h) /\ SumFunctionOnSet(f, V) = h[V]
  BY <1>1, SumUnfold
<1>4. g[T] = f[Pick(T)] + g[V]
  BY <1>2, AddsEach
<1>5. V \subseteq T /\ V \in SUBSET V
  OBVIOUS
<1>6. g[V] = h[V]
  <2>1. Agree(f, f, V)
    BY DEF Agree
  <2> HIDE DEF V
  <2>2. V \subseteq T /\ IsFiniteSet(T) /\ Adds(f, SUBSET T, g) /\ Adds(f, SUBSET V, h)
    BY <1>1, <1>2, <1>3, <1>5
  <2>3. \A W \in SUBSET V : g[W] = h[W]
    BY <2>1, <2>2, AddsUnique
  <2> QED
    BY <1>5, <2>3
<1> QED
  BY <1>2, <1>3, <1>4, <1>6

\* A sum of integers does not depend on the order of its terms.
LEMMA SumRemove ==
  ASSUME NEW f, NEW S, IsFiniteSet(S), \A x \in S : f[x] \in Int
  PROVE  \A T \in SUBSET S : /\ SumFunctionOnSet(f, T) \in Int
                             /\ \A x \in T : SumFunctionOnSet(f, T)
                                   = f[x] + SumFunctionOnSet(f, T \ {x})
<1> DEFINE Sum(T) == SumFunctionOnSet(f, T)
           Good(T) == Sum(T) \in Int /\ \A x \in T : Sum(T) = f[x] + Sum(T \ {x})
           Bad == {T \in SUBSET S : ~Good(T)}
<1>1. SUFFICES ASSUME Bad # {} PROVE FALSE
  OBVIOUS
<1>2. IsWellFoundedOn(StrictSubsetOrdering(S), SUBSET S)
  BY FS_StrictSubsetOrderingWellFounded, FS_FiniteSubsetsOfFinite
<1>3. Bad \subseteq SUBSET S
  OBVIOUS
<1> HIDE DEF Bad
<1>4. PICK T \in Bad : \A V \in Bad : ~(<<V, T>> \in StrictSubsetOrdering(S))
  BY <1>1, <1>2, <1>3, WFMin
<1>5. T \in SUBSET S /\ ~Good(T)
  BY <1>4 DEF Bad
<1>6. \A V \in SUBSET S : V \subseteq T /\ V # T => Good(V)
  BY <1>4, <1>5 DEF Bad, StrictSubsetOrdering
<1>7. T # {}
  BY <1>5, SumEmpty
<1> DEFINE y == Pick(T)
<1>8. y \in T /\ y \in S /\ f[y] \in Int
  BY <1>5, <1>7, PickIn
<1>9. Sum(T) = f[y] + Sum(T \ {y})
  BY <1>5, <1>7, SumSteps
<1>10. Good(T \ {y})
  BY <1>5, <1>6, <1>8
<1>11. Sum(T) \in Int
  BY <1>8, <1>9, <1>10
<1>12. PICK x \in T : Sum(T) # f[x] + Sum(T \ {x})
  BY <1>5, <1>11
<1>13. x # y /\ f[x] \in Int
  BY <1>5, <1>9, <1>12
<1>14. x \in T \ {y} /\ y \in T \ {x}
  BY <1>8, <1>12, <1>13
<1>15. Good(T \ {x})
  BY <1>5, <1>6, <1>12
<1>16. (T \ {y}) \ {x} = (T \ {x}) \ {y}
  OBVIOUS
<1>17. Good((T \ {x}) \ {y})
  BY <1>5, <1>6, <1>12
<1> DEFINE V == (T \ {x}) \ {y}
<1>18. Sum(T \ {y}) = f[x] + Sum(V)
  BY <1>10, <1>14, <1>16
<1>19. Sum(T \ {x}) = f[y] + Sum(V)
  BY <1>15, <1>14
<1>20. Sum(V) \in Int
  BY <1>17
<1> HIDE DEF Sum, V, y
<1> QED
  BY <1>8, <1>9, <1>12, <1>13, <1>18, <1>19, <1>20

LEMMA SumAdd ==
  ASSUME NEW f, NEW S, IsFiniteSet(S), NEW x, x \notin S,
         \A z \in S \cup {x} : f[z] \in Int
  PROVE  /\ SumFunctionOnSet(f, S) \in Int
         /\ SumFunctionOnSet(f, S \cup {x}) = SumFunctionOnSet(f, S) + f[x]
<1> DEFINE U == S \cup {x}
<1>1. IsFiniteSet(U)
  BY FS_AddElement
<1>2. U \ {x} = S /\ S \in SUBSET U /\ U \in SUBSET U /\ x \in U
  OBVIOUS
<1>3. SumFunctionOnSet(f, U) = f[x] + SumFunctionOnSet(f, U \ {x})
  BY <1>1, <1>2, SumRemove
<1>4. SumFunctionOnSet(f, S) \in Int
  BY <1>1, <1>2, SumRemove
<1>5. f[x] \in Int
  OBVIOUS
<1> HIDE DEF U
<1>6. SumFunctionOnSet(f, U) = f[x] + SumFunctionOnSet(f, S)
  BY <1>2, <1>3
<1>7. SumFunctionOnSet(f, U) = SumFunctionOnSet(f, S) + f[x]
  BY <1>4, <1>5, <1>6
<1> QED
  BY <1>4, <1>7 DEF U
\* A sum of natural numbers is one, and smaller over fewer terms.
LEMMA SumSubset ==
  ASSUME NEW f, NEW S, IsFiniteSet(S), \A x \in S : f[x] \in Nat,
         NEW T \in SUBSET S
  PROVE  SumFunctionOnSet(f, T) <= SumFunctionOnSet(f, S)
<1> DEFINE Bad == {U \in SUBSET S : T \subseteq U /\
                     ~(SumFunctionOnSet(f, T) <= SumFunctionOnSet(f, U))}
<1>1. SUFFICES ASSUME Bad # {} PROVE FALSE
  OBVIOUS
<1>2. IsWellFoundedOn(StrictSubsetOrdering(S), SUBSET S)
  BY FS_StrictSubsetOrderingWellFounded, FS_FiniteSubsetsOfFinite
<1>3. Bad \subseteq SUBSET S
  OBVIOUS
<1> HIDE DEF Bad
<1>4. PICK U \in Bad : \A V \in Bad : ~(<<V, U>> \in StrictSubsetOrdering(S))
  BY <1>1, <1>2, <1>3, WFMin
<1>5. U \in SUBSET S /\ T \subseteq U /\ ~(SumFunctionOnSet(f, T) <= SumFunctionOnSet(f, U))
  BY <1>4 DEF Bad
<1>6. \A x \in S : f[x] \in Int
  OBVIOUS
<1>7. SumFunctionOnSet(f, T) \in Int /\ SumFunctionOnSet(f, U) \in Int
  BY <1>5, <1>6, SumRemove
<1>8. U # T
  BY <1>5, <1>7
<1>9. PICK x \in U : x \notin T
  BY <1>5, <1>8
<1> DEFINE V == U \ {x}
<1>10. V \in SUBSET S /\ T \subseteq V /\ V \subseteq U /\ V # U
  BY <1>5, <1>9
<1>11. SumFunctionOnSet(f, U) = f[x] + SumFunctionOnSet(f, V)
  BY <1>5, <1>6, <1>9, SumRemove
<1>12. SumFunctionOnSet(f, V) \in Int
  BY <1>6, <1>10, SumRemove
<1>13. SumFunctionOnSet(f, T) <= SumFunctionOnSet(f, V)
  BY <1>4, <1>5, <1>10 DEF Bad, StrictSubsetOrdering
<1>14. f[x] \in Nat
  BY <1>5, <1>9
<1> HIDE DEF V
<1> QED
  BY <1>5, <1>7, <1>11, <1>12, <1>13, <1>14

LEMMA SumIsNat ==
  ASSUME NEW f, NEW S, IsFiniteSet(S), \A x \in S : f[x] \in Nat
  PROVE  SumFunctionOnSet(f, S) \in Nat
<1>1. {} \in SUBSET S /\ S \in SUBSET S
  OBVIOUS
<1>2. SumFunctionOnSet(f, {}) <= SumFunctionOnSet(f, S)
  BY <1>1, SumSubset
<1>3. SumFunctionOnSet(f, {}) = 0
  BY SumEmpty
<1>4. \A x \in S : f[x] \in Int
  OBVIOUS
<1>5. SumFunctionOnSet(f, S) \in Int
  BY <1>1, <1>4, SumRemove
<1> QED
  BY <1>2, <1>3, <1>5

LEMMA GreatestExists ==
  ASSUME NEW S \in SUBSET Nat, S # {}, IsFiniteSet(S)
  PROVE  \E x \in S : \A y \in S : y <= x
<1> DEFINE Bad == {T \in SUBSET S : T # {} /\ ~\E x \in T : \A y \in T : y <= x}
<1>1. SUFFICES ASSUME Bad # {} PROVE FALSE
  OBVIOUS
<1>2. IsWellFoundedOn(StrictSubsetOrdering(S), SUBSET S)
  BY FS_StrictSubsetOrderingWellFounded, FS_FiniteSubsetsOfFinite
<1>3. Bad \subseteq SUBSET S
  OBVIOUS
<1> HIDE DEF Bad
<1>4. PICK T \in Bad : \A V \in Bad : ~(<<V, T>> \in StrictSubsetOrdering(S))
  BY <1>1, <1>2, <1>3, WFMin
<1>5. T \in SUBSET S /\ T # {} /\ ~\E x \in T : \A y \in T : y <= x
  BY <1>4 DEF Bad
<1>6. PICK x \in T : TRUE
  BY <1>5
<1> DEFINE V == T \ {x}
<1>7. V \in SUBSET S /\ V \subseteq T /\ V # T
  BY <1>5, <1>6
<1>8. V = {} \/ \E z \in V : \A y \in V : y <= z
  BY <1>4, <1>5, <1>7 DEF Bad, StrictSubsetOrdering
<1>9. \A y \in T : y \in Nat
  BY <1>5
<1>10. CASE V = {}
  BY <1>5, <1>6, <1>9, <1>10
<1>11. CASE \E z \in V : \A y \in V : y <= z
  <2>1. PICK z \in V : \A y \in V : y <= z
    BY <1>11
  <2>2. CASE x <= z
    BY <1>5, <1>9, <2>1, <2>2
  <2>3. CASE z <= x
    BY <1>5, <1>6, <1>9, <2>1, <2>3
  <2> QED
    BY <1>6, <1>9, <2>1, <2>2, <2>3
<1> QED
  BY <1>8, <1>10, <1>11

-----------------------------------------------------------------------------
(* The recipients and what they are due.                                     *)

\* A finite set of numbers can be put in order.
LEMMA AscendingExists ==
  ASSUME NEW S \in SUBSET Nat, IsFiniteSet(S)
  PROVE  \E q \in [1 .. Cardinality(S) -> S] :
           \A i, j \in DOMAIN q : i < j => q[i] < q[j]
<1> DEFINE Good(T) == \E q \in [1 .. Cardinality(T) -> T] :
                        \A i, j \in DOMAIN q : i < j => q[i] < q[j]
           Bad == {T \in SUBSET S : ~Good(T)}
<1>1. SUFFICES ASSUME Bad # {} PROVE FALSE
  OBVIOUS
<1>2. IsWellFoundedOn(StrictSubsetOrdering(S), SUBSET S)
  BY FS_StrictSubsetOrderingWellFounded, FS_FiniteSubsetsOfFinite
<1>3. Bad \subseteq SUBSET S
  OBVIOUS
<1> HIDE DEF Bad
<1>4. PICK T \in Bad : \A V \in Bad : ~(<<V, T>> \in StrictSubsetOrdering(S))
  BY <1>1, <1>2, <1>3, WFMin
<1>5. T \in SUBSET S /\ T \in SUBSET Nat /\ IsFiniteSet(T) /\ ~Good(T)
  BY <1>4, FS_Subset DEF Bad
<1>6. T # {}
  <2>1. SUFFICES ASSUME T = {} PROVE Good(T)
    BY <1>5
  <2>2. Cardinality(T) = 0 /\ 1 .. 0 = {}
    BY <2>1, FS_EmptySet
  <2> DEFINE e == [k \in 1 .. 0 |-> 0]
  <2>3. e \in [1 .. Cardinality(T) -> T]
    BY <2>2
  <2>4. \A i, j \in DOMAIN e : i < j => e[i] < e[j]
    BY <2>2
  <2> QED
    BY <2>3, <2>4
<1>7. PICK x \in T : \A y \in T : y <= x
  BY <1>5, <1>6, GreatestExists
<1> DEFINE V == T \ {x}
           n == Cardinality(T)
<1>8. V \in SUBSET S /\ V \subseteq T /\ V # T
  BY <1>5, <1>7
<1>9. Good(V)
  BY <1>4, <1>5, <1>8 DEF Bad, StrictSubsetOrdering
<1>10. n \in Nat /\ Cardinality(V) = n - 1 /\ n # 0
  BY <1>5, <1>6, <1>7, FS_RemoveElement, FS_CardinalityType, FS_EmptySet
<1>11. PICK q \in [1 .. n - 1 -> V] : \A i, j \in DOMAIN q : i < j => q[i] < q[j]
  BY <1>9, <1>10
<1> HIDE DEF n, Good
<1> DEFINE r == [i \in 1 .. n |-> IF i = n THEN x ELSE q[i]]
<1>12. \A i \in 1 .. n - 1 : q[i] \in T /\ q[i] \in Nat /\ q[i] < x
  <2> TAKE i \in 1 .. n - 1
  <2>1. q[i] \in T /\ q[i] # x
    BY <1>11
  <2>2. q[i] \in Nat /\ x \in Nat /\ q[i] <= x
    BY <1>5, <1>7, <2>1
  <2> QED
    BY <2>1, <2>2
<1>13. r \in [1 .. n -> T]
  BY <1>7, <1>10, <1>12
<1>14. \A i, j \in 1 .. n : i < j => r[i] < r[j]
  BY <1>10, <1>11, <1>12
<1>15. DOMAIN r = 1 .. n
  OBVIOUS
<1>16. Good(T)
  BY <1>13, <1>14, <1>15 DEF Good, n
<1> QED
  BY <1>5, <1>16

LEMMA AscendingIs ==
  ASSUME NEW S \in SUBSET Nat, IsFiniteSet(S)
  PROVE  /\ Ascending(S) \in [1 .. Cardinality(S) -> S]
         /\ \A i, j \in 1 .. Cardinality(S) : i < j => Ascending(S)[i] < Ascending(S)[j]
<1>1. \E q \in [1 .. Cardinality(S) -> S] :
        \A i, j \in DOMAIN q : i < j => q[i] < q[j]
  BY AscendingExists
<1>2. /\ Ascending(S) \in [1 .. Cardinality(S) -> S]
      /\ \A i, j \in DOMAIN Ascending(S) : i < j => Ascending(S)[i] < Ascending(S)[j]
  BY <1>1, Zenon DEF Ascending
<1>3. DOMAIN Ascending(S) = 1 .. Cardinality(S)
  BY <1>2
<1> QED
  BY <1>2, <1>3

LEMMA ProductGrows ==
  ASSUME NEW a \in Nat, NEW b \in Nat, NEW c \in Nat, a <= b
  PROVE  a * c <= b * c
  OBVIOUS

LEMMA QuotientGrows ==
  ASSUME NEW a \in Nat, NEW b \in Nat, NEW d \in Nat \ {0}, a <= b
  PROVE  a \div d \in Nat /\ a \div d <= b \div d
  OBVIOUS

LEMMA QuotientOfProduct ==
  ASSUME NEW a \in Nat, NEW d \in Nat \ {0}
  PROVE  (d * a) \div d = a
<1>1. d * a = a * d /\ d * a \in Nat
  OBVIOUS
<1> QED
  BY <1>1

\* The rounded prefix of the shares up to the principals of T.
Prefix(bal, w, S, T) == (WeightOf(w, T) * bal) \div WeightOf(w, S)

LEMMA PrefixGrows ==
  ASSUME NEW bal \in Nat, NEW w, NEW S, IsFiniteSet(S), S # {},
         \A a \in S : w[a] \in Nat \ {0}
  PROVE  /\ Prefix(bal, w, S, S) = bal
         /\ \A U \in SUBSET S : \A T \in SUBSET U :
              /\ Prefix(bal, w, S, T) \in Nat
              /\ Prefix(bal, w, S, T) <= Prefix(bal, w, S, U)
<1>1. \A T \in SUBSET S : IsFiniteSet(T) /\ WeightOf(w, T) \in Nat
  BY SumIsNat, FS_Subset DEF WeightOf
<1>2. WeightOf(w, S) \in Nat \ {0}
  <2>1. PICK a \in S : TRUE
    OBVIOUS
  <2>2. /\ S \ {a} \in SUBSET S /\ S \in SUBSET S
        /\ \A x \in S : w[x] \in Int
    OBVIOUS
  <2>3. WeightOf(w, S) = w[a] + WeightOf(w, S \ {a})
    BY <2>2, SumRemove DEF WeightOf
  <2>4. w[a] \in Nat \ {0} /\ WeightOf(w, S \ {a}) \in Nat
    BY <1>1, <2>2
  <2> QED
    BY <2>3, <2>4
<1>3. Prefix(bal, w, S, S) = bal
  BY <1>2, QuotientOfProduct DEF Prefix
<1>4. ASSUME NEW U \in SUBSET S, NEW T \in SUBSET U
      PROVE  /\ Prefix(bal, w, S, T) \in Nat
             /\ Prefix(bal, w, S, T) <= Prefix(bal, w, S, U)
  <2>1. T \in SUBSET S /\ IsFiniteSet(U) /\ \A x \in U : w[x] \in Nat
    BY <1>1
  <2>2. WeightOf(w, T) <= WeightOf(w, U)
    BY <2>1, SumSubset DEF WeightOf
  <2>3. WeightOf(w, T) \in Nat /\ WeightOf(w, U) \in Nat
    BY <1>1, <2>1
  <2>4. /\ WeightOf(w, T) * bal \in Nat /\ WeightOf(w, U) * bal \in Nat
        /\ WeightOf(w, T) * bal <= WeightOf(w, U) * bal
    BY <2>2, <2>3, ProductGrows
  <2> QED
    BY <1>2, <2>4, QuotientGrows DEF Prefix
<1> QED
  BY <1>3, <1>4

\* What the recipients are due, one after the other, never exceeds the pot.
LEMMA SharesFit ==
  ASSUME NEW bal \in Nat, NEW w, NEW S \in SUBSET Nat, IsFiniteSet(S), S # {},
         \A a \in S : w[a] \in Nat \ {0},
         NEW n \in Nat, NEW q \in [1 .. n -> S],
         \A i, j \in 1 .. n : i < j => q[i] < q[j],
         NEW f, \A i \in 1 .. n : f[i] = Entitlement(bal, w, S, q[i])
  PROVE  SumFunctionOnSet(f, 1 .. n) <= bal
<1> DEFINE Up(T) == Prefix(bal, w, S, T)
           To(a) == {b \in S : b <= a}
           Below(a) == {b \in S : b < a}
           Top(k) == IF k = 0 THEN 0 ELSE Up(To(q[k]))
           Bad == {k \in 0 .. n : ~(SumFunctionOnSet(f, 1 .. k) <= Top(k))}
<1> HIDE DEF Up
<1>0. \A a, c \in S : /\ To(a) \in SUBSET S /\ Below(a) \in SUBSET To(a)
                      /\ Below(a) \in SUBSET S
                      /\ c < a => To(c) \in SUBSET Below(a)
  <2>1. \A b \in S : b \in Nat
    OBVIOUS
  <2> TAKE a, c \in S
  <2>2. \A b \in Below(a) : b \in To(a)
    BY <2>1
  <2>3. c < a => \A b \in To(c) : b \in Below(a)
    BY <2>1
  <2> QED
    BY <2>2, <2>3
<1>1. \A a \in S : /\ To(a) \in SUBSET S /\ Below(a) \in SUBSET To(a)
                   /\ Up(To(a)) \in Nat /\ Up(Below(a)) \in Nat
                   /\ Up(Below(a)) <= Up(To(a)) /\ Up(To(a)) <= bal
  <2> TAKE a \in S
  <2>1. /\ To(a) \in SUBSET S /\ Below(a) \in SUBSET To(a)
        /\ To(a) \in SUBSET To(a) /\ S \in SUBSET S
    BY <1>0
  <2>2. Up(S) = bal
    BY PrefixGrows DEF Up
  <2> HIDE DEF To, Below
  <2>3. \A U \in SUBSET S : \A T \in SUBSET U : Up(T) \in Nat /\ Up(T) <= Up(U)
    BY PrefixGrows DEF Up
  <2> QED
    BY <2>1, <2>2, <2>3
<1>2. \A i \in 1 .. n : f[i] = Up(To(q[i])) - Up(Below(q[i]))
  BY DEF Entitlement, Prefix, Up
<1> HIDE DEF To, Below
<1>3. \A i \in 1 .. n : q[i] \in S /\ f[i] \in Nat
  <2> TAKE i \in 1 .. n
  <2>1. q[i] \in S
    OBVIOUS
  <2>2. /\ Up(To(q[i])) \in Nat /\ Up(Below(q[i])) \in Nat
        /\ Up(Below(q[i])) <= Up(To(q[i]))
    BY <1>1, <2>1
  <2>3. f[i] = Up(To(q[i])) - Up(Below(q[i]))
    BY <1>2
  <2> QED
    BY <2>1, <2>2, <2>3
<1>4. \A k \in 0 .. n : SumFunctionOnSet(f, 1 .. k) \in Nat
  <2> TAKE k \in 0 .. n
  <2>1. IsFiniteSet(1 .. k)
    BY FS_Interval
  <2>2. \A i \in 1 .. k : f[i] \in Nat
    BY <1>3
  <2> QED
    BY <2>1, <2>2, SumIsNat
<1>5. Bad = {}
  <2> SUFFICES ASSUME Bad # {} PROVE FALSE
    OBVIOUS
  <2>1. PICK k \in Bad : \A m \in Bad : k <= m
    <3>1. Bad \in SUBSET Nat
      OBVIOUS
    <3> HIDE DEF Bad
    <3> QED
      BY <3>1, LeastExists
  <2>2. k \in 0 .. n /\ ~(SumFunctionOnSet(f, 1 .. k) <= Top(k))
    BY <2>1
  <2>3. k # 0
    <3>1. SUFFICES ASSUME k = 0 PROVE FALSE
      OBVIOUS
    <3>2. 1 .. 0 = {}
      OBVIOUS
    <3>3. SumFunctionOnSet(f, 1 .. 0) = 0
      BY <3>2, SumEmpty
    <3> QED
      BY <2>2, <3>1, <3>3
  <2>4. k - 1 \in 0 .. n /\ k \in 1 .. n /\ ~(k <= k - 1)
    BY <2>2, <2>3
  <2>5. SumFunctionOnSet(f, 1 .. k - 1) <= Top(k - 1)
    BY <2>1, <2>4
  <2>6. SumFunctionOnSet(f, 1 .. k) = SumFunctionOnSet(f, 1 .. k - 1) + f[k]
    <3>1. 1 .. k = (1 .. k - 1) \cup {k} /\ k \notin 1 .. k - 1
      BY <2>4
    <3>2. IsFiniteSet(1 .. k - 1)
      BY <2>4, FS_Interval
    <3>3. \A i \in (1 .. k - 1) \cup {k} : f[i] \in Int
      BY <1>3, <2>4
    <3> QED
      BY <3>1, <3>2, <3>3, SumAdd
  <2>7. Top(k - 1) \in Nat /\ Top(k - 1) <= Up(Below(q[k]))
    <3>1. CASE k = 1
      <4>1. Up(Below(q[k])) \in Nat
        BY <1>1, <1>3, <2>4
      <4>2. Top(k - 1) = 0
        BY <3>1
      <4> QED
        BY <4>1, <4>2
    <3>2. CASE k # 1
      <4>1. k - 1 \in 1 .. n /\ q[k - 1] < q[k] /\ q[k - 1] \in S /\ q[k] \in S
        BY <1>3, <2>4, <3>2
      <4>2. To(q[k - 1]) \in SUBSET Below(q[k])
        BY <1>0, <4>1
      <4>3. Below(q[k]) \in SUBSET S
        BY <1>0, <4>1
      <4>4. \A U \in SUBSET S : \A T \in SUBSET U : Up(T) \in Nat /\ Up(T) <= Up(U)
        BY PrefixGrows DEF Up
      <4>5. Up(To(q[k - 1])) \in Nat /\ Up(To(q[k - 1])) <= Up(Below(q[k]))
        BY <4>2, <4>3, <4>4
      <4> QED
        BY <2>4, <3>2, <4>5
    <3> QED
      BY <3>1, <3>2
  <2>8. f[k] = Up(To(q[k])) - Up(Below(q[k])) /\ Up(To(q[k])) \in Nat /\ Up(Below(q[k])) \in Nat
    BY <1>1, <1>2, <1>3, <2>4
  <2>9. Top(k) = Up(To(q[k]))
    BY <2>3
  <2>10. SumFunctionOnSet(f, 1 .. k - 1) \in Nat
    BY <1>4, <2>4
  <2> HIDE DEF Top
  <2> QED
    BY <2>2, <2>5, <2>6, <2>7, <2>8, <2>9, <2>10
<1>6. SumFunctionOnSet(f, 1 .. n) <= Top(n)
  BY <1>5
<1>7. Top(n) \in Nat /\ Top(n) <= bal
  <2>1. CASE n = 0
    BY <2>1
  <2>2. CASE n # 0
    <3>1. q[n] \in S
      BY <2>2, <1>3
    <3> QED
      BY <1>1, <2>2, <3>1
  <2> QED
    BY <2>1, <2>2
<1>8. SumFunctionOnSet(f, 1 .. n) \in Nat
  BY <1>4
<1> HIDE DEF Top
<1> QED
  BY <1>6, <1>7, <1>8

\* What the transfers of al take from the pot, with the fee f.
Total(al, f) ==
  SumFunctionOnSet([i \in DOMAIN al |-> al[i].amt + f], DOMAIN al)

LEMMA SeqElement ==
  ASSUME NEW X, NEW s \in Seq(X), NEW i \in DOMAIN s
  PROVE  s[i] \in X
  OBVIOUS

LEMMA IsSeq ==
  ASSUME NEW X, NEW n \in Nat, NEW s \in [1 .. n -> X]
  PROVE  s \in Seq(X)
  OBVIOUS

\* A new plan pays owners out of S and never more than the pot.
LEMMA AllocationsFit ==
  ASSUME NEW bal \in Nat, NEW f \in Nat, NEW batch \in DOMAIN Batches,
         NEW S \in SUBSET Sources(batch), S # {},
         NEW al, al = Allocations(bal, f, Batches[batch], S)
  PROVE  /\ al \in Seq([to : Owners, amt : Nat])
         /\ \A i \in DOMAIN al : al[i].to \in S
         /\ Total(al, f) <= bal
<1> DEFINE w == Batches[batch]
           ent(a) == Entitlement(bal, w, S, a)
           paid == {a \in S : ent(a) > f /\ EconomyFactor * f <= ent(a) - f}
           n == Cardinality(paid)
           q == Ascending(paid)
<1>1. /\ Sources(batch) \in SUBSET Owners /\ IsFiniteSet(Sources(batch))
      /\ w \in [Owners -> Nat] /\ \A a \in S : w[a] > 0
  BY RewardAssumption DEF Sources
<1>2. /\ S \in SUBSET Nat /\ IsFiniteSet(S) /\ S \in SUBSET Owners
      /\ \A a \in S : w[a] \in Nat \ {0}
  <2>1. S \in SUBSET Owners
    BY <1>1
  <2>2. S \in SUBSET Nat
    BY <2>1, RewardAssumption
  <2>3. IsFiniteSet(S)
    BY <1>1, FS_Subset
  <2>4. \A a \in S : w[a] \in Nat \ {0}
    <3> TAKE a \in S
    <3>1. w[a] \in Nat /\ w[a] > 0
      BY <1>1, <2>1
    <3> HIDE DEF w
    <3> QED
      BY <3>1
  <2> QED
    BY <2>1, <2>2, <2>3, <2>4
<1>3. paid \in SUBSET S /\ paid \in SUBSET Nat /\ IsFiniteSet(paid) /\ n \in Nat
  BY <1>2, FS_Subset, FS_CardinalityType
<1>4. /\ q \in [1 .. n -> paid]
      /\ \A i, j \in 1 .. n : i < j => q[i] < q[j]
  BY <1>3, AscendingIs
<1>5. \A a \in S : ent(a) \in Int
  <2> TAKE a \in S
  <2>1. /\ {b \in S : b <= a} \in SUBSET S /\ {b \in S : b < a} \in SUBSET S
        /\ {b \in S : b <= a} \in SUBSET {b \in S : b <= a}
        /\ {b \in S : b < a} \in SUBSET {b \in S : b < a}
    OBVIOUS
  <2>2. \A U \in SUBSET S : \A T \in SUBSET U : Prefix(bal, w, S, T) \in Nat
    BY <1>2, PrefixGrows
  <2>3. /\ Prefix(bal, w, S, {b \in S : b <= a}) \in Nat
        /\ Prefix(bal, w, S, {b \in S : b < a}) \in Nat
    BY <2>1, <2>2
  <2>4. ent(a) = Prefix(bal, w, S, {b \in S : b <= a}) - Prefix(bal, w, S, {b \in S : b < a})
    BY DEF Entitlement, Prefix
  <2> QED
    BY <2>3, <2>4
<1> HIDE DEF w, ent
<1>6. al = [i \in 1 .. n |-> [to |-> q[i], amt |-> TransferAmount(ent(q[i]), f)]]
  <2>1. DOMAIN q = 1 .. n
    BY <1>4
  <2>2. al = [i \in DOMAIN q |-> [to |-> q[i], amt |-> TransferAmount(ent(q[i]), f)]]
    BY Zenon DEF Allocations, ent, w
  <2> QED
    BY <2>1, <2>2
<1> HIDE DEF n, q
<1>7. \A i \in 1 .. n : /\ q[i] \in S /\ q[i] \in Owners
                        /\ ent(q[i]) \in Int /\ ent(q[i]) - f \in Nat
  <2> TAKE i \in 1 .. n
  <2>1. q[i] \in paid
    BY <1>4
  <2>2. q[i] \in S /\ ent(q[i]) > f
    BY <2>1
  <2>3. ent(q[i]) \in Int
    BY <1>5, <2>2
  <2>4. ent(q[i]) - f \in Nat
    BY <2>2, <2>3
  <2> QED
    BY <1>2, <2>2, <2>3, <2>4
<1>8. /\ DOMAIN al = 1 .. n
      /\ \A i \in 1 .. n : al[i] = [to |-> q[i], amt |-> ent(q[i]) - f]
  BY <1>6 DEF TransferAmount
<1>9. al \in Seq([to : Owners, amt : Nat])
  <2>1. \A i \in 1 .. n : al[i] \in [to : Owners, amt : Nat]
    BY <1>7, <1>8
  <2>2. al \in [1 .. n -> [to : Owners, amt : Nat]]
    BY <1>6, <1>8, <2>1
  <2>3. n \in Nat
    BY <1>3
  <2> QED
    BY <2>2, <2>3, IsSeq
<1>10. \A i \in DOMAIN al : al[i].to \in S
  BY <1>7, <1>8
<1> DEFINE g == [i \in DOMAIN al |-> al[i].amt + f]
<1>11. \A i \in 1 .. n : g[i] = ent(q[i])
  BY <1>7, <1>8
<1>12. q \in [1 .. n -> S]
  BY <1>3, <1>4
<1> HIDE DEF g
<1>13. SumFunctionOnSet(g, 1 .. n) <= bal
  <2>1. \A i \in 1 .. n : g[i] = Entitlement(bal, w, S, q[i])
    BY <1>11 DEF ent
  <2>2. n \in Nat /\ \A i, j \in 1 .. n : i < j => q[i] < q[j]
    BY <1>3, <1>4
  <2>3. S \in SUBSET Nat /\ IsFiniteSet(S) /\ \A a \in S : w[a] \in Nat \ {0}
    BY <1>2
  <2> HIDE DEF paid
  <2> QED
    BY <1>12, <2>1, <2>2, <2>3, SharesFit, SMTT(30)
<1> QED
  BY <1>8, <1>9, <1>10, <1>13 DEF g, Total

-----------------------------------------------------------------------------
(* How the store may move.                                                   *)

\* The store s after a step from st: the plan stays or goes on, or it ends and
\* its sweep is counted after its requests were made or not at all, or a plan is
\* pinned.
Moved(s) ==
  /\ st.uncounted \subseteq s.uncounted
  /\ \/ s.plan = st.plan /\ s.last = st.last
     \/ /\ st.plan # NoPlan /\ s.plan # NoPlan
        /\ SamePlan(s.plan, st.plan) /\ s.last = st.last
     \/ /\ s.plan = NoPlan /\ s.last >= st.last
        /\ st.plan # NoPlan => st.plan.born <= s.last \/ st.plan.born \in s.uncounted
     \/ st.plan = NoPlan /\ s.plan # NoPlan /\ s.last = st.last

LEMMA SameTransfers ==
  ASSUME NEW a, NEW b, SamePlan(a, b)
  PROVE  /\ Transfers(a) = Transfers(b)
         /\ \A blk : Owing(a, blk) = Owing(b, blk)
<1>1. \A i : Transfer(a, i) = Transfer(b, i)
  BY DEF SamePlan, Transfer
<1>2. a.pay = b.pay /\ a.fee = b.fee
  BY DEF SamePlan
<1>3. Transfers(a) = Transfers(b)
  BY <1>1, <1>2 DEF Transfers
<1>4. ASSUME NEW blk
      PROVE  Owing(a, blk) = Owing(b, blk)
  <2>1. {i \in DOMAIN a.pay : Transfer(a, i) \notin blk}
          = {i \in DOMAIN b.pay : Transfer(b, i) \notin blk}
    BY <1>1, <1>2
  <2>2. [i \in DOMAIN a.pay |-> a.pay[i].amt + a.fee]
          = [i \in DOMAIN b.pay |-> b.pay[i].amt + b.fee]
    BY ONLY <1>2
  <2> QED
    BY ONLY <2>1, <2>2 DEF Owing
<1> QED
  BY <1>3, <1>4

LEMMA FollowedOn ==
  ASSUME st \in Stores, NEW s \in Stores, Moved(s),
         NEW plan \in Plans, Followed(plan, st)
  PROVE  Followed(plan, s)
<1>1. st.last \in Nat /\ s.last \in Nat /\ plan.born \in Nat
  BY DEF Stores, Plans
<1>2. CASE st.plan # NoPlan /\ SamePlan(st.plan, plan)
  BY <1>1, <1>2 DEF Moved, Followed, SamePlan
<1>3. CASE plan.born <= st.last \/ plan.born \in st.uncounted
  BY <1>1, <1>3 DEF Moved, Followed
<1> QED
  BY <1>2, <1>3 DEF Followed

LEMMA FollowedTxOn ==
  ASSUME st \in Stores, NEW s \in Stores, Moved(s),
         NEW tx \in Txs, FollowedTx(tx, st)
  PROVE  FollowedTx(tx, s)
<1>1. st.last \in Nat /\ s.last \in Nat /\ tx.born \in Nat
  BY DEF Stores, Txs
<1>2. CASE st.plan # NoPlan /\ tx \in Transfers(st.plan)
  <2>1. tx.born = st.plan.born
    BY <1>2 DEF Transfers, Transfer
  <2>2. s.plan # NoPlan /\ SamePlan(s.plan, st.plan) => Transfers(s.plan) = Transfers(st.plan)
    BY SameTransfers
  <2> QED
    BY <1>1, <1>2, <2>1, <2>2 DEF Moved, FollowedTx
<1>3. CASE tx.born <= st.last \/ tx.born \in st.uncounted
  BY <1>1, <1>3 DEF Moved, FollowedTx
<1> QED
  BY <1>2, <1>3 DEF FollowedTx

\* An activation that lost its lease is not disturbed by what the store does.
LEMMA OtherKeeps ==
  ASSUME st \in Stores, NEW s \in Stores, Moved(s), NEW a \in Activations,
         NEW n, NEW bal, NEW blk, NEW d, NEW iss,
         ActOK(a, st, n, bal, blk, d, iss),
         a.pc # "idle" => a.expiry <= n /\ s.lock # a.expiry
  PROVE  ActOK(a, s, n, bal, blk, d, iss)
<1>1. CASE a.pc = "send"
  <2>1. a.sent \in Plans /\ Followed(a.sent, st)
    BY <1>1 DEF ActOK, SendOK, Activations
  <2>2. Followed(a.sent, s)
    BY <2>1, FollowedOn
  <2> QED
    BY <1>1, <2>2 DEF ActOK, SendOK, Reading
<1>2. CASE a.pc \in Reading
  BY <1>2 DEF ActOK, ReadOK, Reading
<1>3. CASE a.pc \notin Reading \cup {"send"}
  BY <1>3 DEF ActOK
<1> QED
  BY <1>1, <1>2, <1>3

\* While p takes its step with the store going to s and p to b, no other
\* activation has the lease before or after, or the store is left alone.
Others(p, s, b) ==
  \A q \in Proc \ {p} : act[q].pc # "idle" =>
    /\ s = st \/ (act[q].expiry <= now /\ s.lock # act[q].expiry)
    /\ b.pc # "idle" => b.expiry # act[q].expiry

\* A step of activation p.
LEMMA ProcStep ==
  ASSUME IInv, NEW p \in Proc, NEW s \in Stores, NEW b \in Activations,
         st' = s, act' = [act EXCEPT ![p] = b],
         now' = now, balance' = balance, fee' = fee, blocks' = blocks,
         dir' = dir, issued' = issued, late' \in SUBSET Txs,
         LateOK(st, late'), StoreOK(s, now), Moved(s), Covered(s, balance, blocks),
         ActOK(b, s, now, balance, blocks, dir, issued), Others(p, s, b)
  PROVE  IInv'
<1>1. TypeOK'
  BY DEF IInv, TypeOK, Stores
<1>2. act \in [Proc -> Activations] /\ st \in Stores
  BY DEF IInv, TypeOK, Stores
<1>3. LeaseInv'
  BY <1>2 DEF IInv, LeaseInv, Others
<1>4. ASSUME NEW q \in Proc
      PROVE  ActOK(act'[q], s, now, balance, blocks, dir, issued)
  <2>1. CASE q = p
    BY <1>2, <2>1
  <2>2. CASE q # p
    <3>1. act'[q] = act[q] /\ act[q] \in Activations
      BY <1>2, <2>2
    <3>2. ActOK(act[q], st, now, balance, blocks, dir, issued)
      BY DEF IInv
    <3>3. CASE s = st
      BY <3>1, <3>2, <3>3
    <3>4. CASE s # st
      <4>1. act[q].pc # "idle" => act[q].expiry <= now /\ s.lock # act[q].expiry
        BY <2>2, <3>4 DEF Others
      <4>2. ActOK(act[q], s, now, balance, blocks, dir, issued)
        BY <1>2, <3>1, <3>2, <4>1, OtherKeeps
      <4> QED
        BY <3>1, <4>2
    <3> QED
      BY <3>3, <3>4
  <2> QED
    BY <2>1, <2>2
<1>5. DirOK(dir, dir, issued)
  BY DEF IInv
<1>6. LateOK(s, late')
  BY <1>2, FollowedTxOn DEF LateOK
<1> QED
  BY <1>1, <1>3, <1>4, <1>5, <1>6 DEF IInv

\* The one that has the lease gives it back or keeps it.
LEMMA HolderAlone ==
  ASSUME IInv, NEW p \in Proc, Current(p), act[p].pc # "idle",
         NEW s \in Stores, s.lock \in {st.lock, 0}, NEW b,
         b.pc # "idle" => b.expiry = act[p].expiry
  PROVE  Others(p, s, b)
<1> SUFFICES ASSUME NEW q \in Proc \ {p}, act[q].pc # "idle"
             PROVE  /\ act[q].expiry <= now /\ s.lock # act[q].expiry
                    /\ b.pc # "idle" => b.expiry # act[q].expiry
  BY DEF Others
<1>1. act[q].expiry # act[p].expiry
  BY DEF IInv, LeaseInv
<1>2. act[q].start \in Nat /\ act[q].expiry \in Nat
  BY DEF IInv, TypeOK, Activations
<1>3. st.lock = act[q].expiry \/ act[q].expiry <= now
  BY DEF IInv, ActOK
<1>4. act[q].expiry > 0
  BY DEF IInv, ActOK
<1> QED
  BY <1>1, <1>2, <1>3, <1>4 DEF Current

-----------------------------------------------------------------------------
(* The ends of an activation's steps: End, Hold, Send and Drive.             *)

\* What a step of an activation leaves alone; late requests may join.
Frame == /\ now' = now /\ balance' = balance /\ fee' = fee /\ blocks' = blocks
         /\ dir' = dir /\ issued' = issued
         /\ late' \in SUBSET Txs /\ LateOK(st, late')

\* The store that p goes on with; without the lease it is the store as it is.
StoreStep(p, s) ==
  /\ s \in Stores /\ StoreOK(s, now) /\ Moved(s) /\ Covered(s, balance, blocks)
  /\ s.lock = st.lock /\ (Current(p) \/ s = st)

\* A budget of activation p.
Budget(p, a) == /\ a \in Activations /\ a.start \in 1 .. now
                /\ a.expiry = act[p].expiry /\ a.expiry > 0

LEMMA MaxOfTwo ==
  ASSUME NEW x \in Nat, NEW y \in Nat
  PROVE  /\ Max({x, y}) \in {x, y}
         /\ Max({x, y}) >= x /\ Max({x, y}) >= y
<1>1. \E m \in {x, y} : \A z \in {x, y} : m >= z
  <2>1. CASE x >= y
    BY <2>1
  <2>2. CASE y >= x
    BY <2>2
  <2> QED
    BY <2>1, <2>2
<1>2. Max({x, y}) \in {x, y} /\ \A z \in {x, y} : Max({x, y}) >= z
  BY <1>1, Zenon DEF Max
<1> QED
  BY <1>2

LEMMA CadenceIs ==
  ASSUME NEW s \in Stores, NEW t \in Nat
  PROVE  /\ CadenceUsed(s, t) \in Stores
         /\ CadenceUsed(s, t).plan = s.plan /\ CadenceUsed(s, t).lock = s.lock
         /\ CadenceUsed(s, t).uncounted = s.uncounted
         /\ CadenceUsed(s, t).last >= s.last /\ CadenceUsed(s, t).last >= t
         /\ CadenceUsed(s, t).last \in {s.last, t}
<1> DEFINE m == Max({s.last, t})
<1>1. s.last \in Nat
  BY DEF Stores
<1>2. m \in {s.last, t} /\ m >= s.last /\ m >= t
  BY <1>1, MaxOfTwo
<1>3. CadenceUsed(s, t) = [s EXCEPT !.last = m]
  BY DEF CadenceUsed
<1> HIDE DEF m
<1> QED
  BY <1>1, <1>2, <1>3 DEF Stores

\* An idle activation owes nothing.
LEMMA IdleFine ==
  /\ Idle \in Activations /\ Idle.pc = "idle"
  /\ \A s, n, bal, blk, d, iss : ActOK(Idle, s, n, bal, blk, d, iss)
<1>1. Idle \in Activations
  BY DEF Idle, Activations, Accepted, PlanRejected, RecipientRejected
<1>2. Idle.pc = "idle" /\ Idle.ctx = NoDir
  BY DEF Idle
<1>3. \A s, n, bal, blk, d, iss : ActOK(Idle, s, n, bal, blk, d, iss)
  BY <1>2 DEF ActOK, DirOK, Reading
<1> QED
  BY <1>1, <1>2, <1>3

LEMMA OwnStore ==
  ASSUME IInv, NEW p \in Proc
  PROVE  StoreStep(p, st)
  BY DEF IInv, TypeOK, StoreStep, Stores, Moved

LEMMA EndStep ==
  ASSUME IInv, NEW p \in Proc, act[p].pc # "idle", NEW s, StoreStep(p, s),
         End(p, s), Frame
  PROVE  IInv'
<1> DEFINE e == [s EXCEPT !.lock = Released(s.lock, act[p].expiry)]
<1>1. s \in Stores /\ st \in Stores
  BY DEF StoreStep, IInv, TypeOK, Stores
<1>2. /\ e \in Stores /\ e.plan = s.plan /\ e.last = s.last
      /\ e.uncounted = s.uncounted /\ e.lock \in {st.lock, 0}
  BY <1>1 DEF Stores, Released, Unlocked, StoreStep
<1>3. st' = e /\ act' = [act EXCEPT ![p] = Idle]
  BY DEF End
<1>4. ASSUME ~Current(p)
      PROVE  e = st
  BY <1>1, <1>4 DEF StoreStep, Current, Released, Stores
<1> HIDE DEF e
<1>5. StoreOK(e, now) /\ Moved(e) /\ Covered(e, balance, blocks)
  BY <1>2 DEF StoreStep, StoreOK, Moved, Covered, Settled
<1>6. Others(p, e, Idle)
  <2>1. CASE Current(p)
    BY <1>2, <2>1, HolderAlone, IdleFine
  <2>2. CASE ~Current(p)
    BY <1>4, <2>2, IdleFine DEF Others
  <2> QED
    BY <2>1, <2>2
<1> QED
  BY <1>2, <1>3, <1>5, <1>6, IdleFine, ProcStep DEF Frame

\* An activation goes on to b with the store s.
LEMMA GoesOn ==
  ASSUME IInv, NEW p \in Proc, act[p].pc # "idle", Current(p),
         NEW s, StoreStep(p, s), Frame, NEW b \in Activations,
         b.expiry = act[p].expiry, st' = s, act' = [act EXCEPT ![p] = b],
         ActOK(b, s, now, balance, blocks, dir, issued)
  PROVE  IInv'
<1>1. Others(p, s, b)
  BY HolderAlone DEF StoreStep
<1> QED
  BY <1>1, ProcStep DEF StoreStep, Frame

LEMMA HoldStep ==
  ASSUME IInv, NEW p \in Proc, act[p].pc # "idle", NEW s, StoreStep(p, s),
         NEW a, Budget(p, a), Hold(p, a, s), Frame
  PROVE  IInv'
<1> DEFINE b == [[Idle EXCEPT !.start = a.start, !.expiry = a.expiry] EXCEPT !.pc = "slice"]
<1>1. CASE End(p, s)
  BY <1>1, EndStep
<1>2. CASE Current(p) /\ Await(p, s, [Idle EXCEPT !.start = a.start, !.expiry = a.expiry], "slice")
  <2>1. st' = s /\ act' = [act EXCEPT ![p] = b]
    BY <1>2 DEF Await
  <2>2. a.start \in Nat /\ a.expiry \in Nat
    BY DEF Budget, Activations
  <2>3. /\ b \in Activations /\ b.pc = "slice" /\ b.ctx = NoDir
        /\ b.start = a.start /\ b.expiry = a.expiry
    BY <2>2, IdleFine DEF Idle, Activations
  <2> HIDE DEF b
  <2>4. ActOK(b, s, now, balance, blocks, dir, issued)
    BY <1>2, <2>3 DEF ActOK, DirOK, Reading, Budget, Current, StoreStep
  <2> QED
    BY <1>2, <2>1, <2>3, <2>4, GoesOn DEF Budget
<1> QED
  BY <1>1, <1>2 DEF Hold

\* The activation after Send, and at the start of a slice.
Asked(a, plan, second) ==
  [[Idle EXCEPT !.start = a.start, !.expiry = a.expiry, !.first = a.first,
      !.before = a.before, !.sent = plan, !.second = second] EXCEPT !.pc = "send"]

Sliced(c, t, first, k) == [c EXCEPT !.start = t, !.first = first, !.before = k]

No == FALSE

LEMMA AskedIs ==
  ASSUME NEW a, a.start \in Nat, a.expiry \in Nat, a.first \in BOOLEAN, a.before \in Nat,
         NEW plan, plan \in Plans, NEW second, second \in BOOLEAN
  PROVE  /\ Asked(a, plan, second) \in Activations
         /\ Asked(a, plan, second).pc = "send" /\ Asked(a, plan, second).ctx = NoDir
         /\ Asked(a, plan, second).sent = plan /\ Asked(a, plan, second).start = a.start
         /\ Asked(a, plan, second).expiry = a.expiry /\ Asked(a, plan, second).out = "none"
  BY IdleFine, ZenonT(60) DEF Idle, Activations, Asked

LEMMA SlicedIs ==
  \A c \in Activations, t \in Nat, k \in Nat, first \in BOOLEAN :
    /\ Sliced(c, t, first, k) \in Activations
    /\ Sliced(c, t, first, k).start = t /\ Sliced(c, t, first, k).expiry = c.expiry
<1> TAKE c \in Activations, t \in Nat, k \in Nat, first \in BOOLEAN
<1> QED
  BY DEF Activations, Sliced

LEMMA SendStep ==
  ASSUME IInv, NEW p \in Proc, act[p].pc # "idle", Current(p), NEW s, StoreStep(p, s),
         NEW a, Budget(p, a), NEW second \in BOOLEAN, Send(p, a, s, second), Frame,
         s.plan # NoPlan, s.plan.born <= a.start
  PROVE  IInv'
<1> DEFINE b == Asked(a, s.plan, second)
<1>1. st' = s /\ act' = [act EXCEPT ![p] = b]
  BY DEF Await, Send, Asked
<1>2. /\ a.start \in Nat /\ a.expiry \in Nat /\ a.first \in BOOLEAN
      /\ a.before \in Nat /\ s.plan \in Plans
  BY DEF Budget, Activations, StoreStep, Stores
<1>3. /\ b \in Activations /\ b.pc = "send" /\ b.ctx = NoDir /\ b.sent = s.plan
      /\ b.start = a.start /\ b.expiry = a.expiry /\ b.out = "none"
  BY <1>2, AskedIs
<1> HIDE DEF b
<1>4. SendOK(b, s, now, blocks)
  BY <1>3 DEF SendOK, StoreStep, StoreOK, Followed, SamePlan, Accepted
<1>5. ActOK(b, s, now, balance, blocks, dir, issued)
  BY <1>3, <1>4 DEF ActOK, DirOK, Reading, Budget, Current, StoreStep
<1> QED
  BY <1>1, <1>3, <1>5, GoesOn DEF Budget

\* The store without a plan.
LEMMA WithoutPlan ==
  ASSUME NEW s \in Stores
  PROVE  /\ [s EXCEPT !.plan = NoPlan] \in Stores
         /\ [s EXCEPT !.plan = NoPlan].plan = NoPlan
         /\ [s EXCEPT !.plan = NoPlan].last = s.last
         /\ [s EXCEPT !.plan = NoPlan].lock = s.lock
         /\ [s EXCEPT !.plan = NoPlan].uncounted = s.uncounted
  BY DEF Stores

\* The plan is done with or given up, and the sweep counts.
LEMMA PlanEnds ==
  ASSUME IInv, NEW p \in Proc, act[p].pc # "idle", Current(p),
         NEW a, Budget(p, a), NEW d \in Stores, d.plan = NoPlan,
         d.lock = st.lock, d.last = st.last, d.uncounted = st.uncounted,
         st.plan # NoPlan => st.plan.born <= a.start,
         End(p, CadenceUsed(d, a.start)), Frame
  PROVE  IInv'
<1> DEFINE e == CadenceUsed(d, a.start)
<1>1. st \in Stores /\ StoreOK(st, now) /\ a.start \in Nat /\ now \in Nat /\ st.last \in Nat
  BY DEF IInv, TypeOK, Stores, Budget
<1>2. /\ e \in Stores /\ e.plan = NoPlan /\ e.lock = st.lock /\ e.uncounted = st.uncounted
      /\ e.last >= st.last /\ e.last >= a.start /\ e.last \in {st.last, a.start}
  BY <1>1, CadenceIs
<1> HIDE DEF e
<1>3. StoreOK(e, now)
  BY <1>1, <1>2 DEF StoreOK, Budget
<1>4. st.plan # NoPlan => st.plan.born \in Nat /\ st.plan.born <= e.last
  BY <1>1, <1>2 DEF StoreOK, PlanOK, Stores, Plans
<1>5. StoreStep(p, e)
  BY <1>2, <1>3, <1>4 DEF StoreStep, Covered, Moved
<1> QED
  BY <1>5, EndStep DEF e

LEMMA UncountedIs ==
  ASSUME NEW s \in Stores, NEW b \in Nat
  PROVE  /\ Uncounted(s, b) \in Stores
         /\ Uncounted(s, b).plan = NoPlan /\ Uncounted(s, b).lock = s.lock
         /\ Uncounted(s, b).last = s.last
         /\ Uncounted(s, b).uncounted = s.uncounted \cup {b}
<1> DEFINE u == s.uncounted \cup {b}
<1>1. u \in SUBSET Nat
  BY DEF Stores
<1>2. Uncounted(s, b) = [s EXCEPT !.plan = NoPlan, !.uncounted = u]
  BY DEF Uncounted
<1> HIDE DEF u
<1>3. /\ Uncounted(s, b) \in Stores
      /\ Uncounted(s, b).plan = NoPlan /\ Uncounted(s, b).lock = s.lock
      /\ Uncounted(s, b).last = s.last /\ Uncounted(s, b).uncounted = u
  BY <1>1, <1>2 DEF Stores
<1> QED
  BY <1>3 DEF u

\* The plan is done with, and the sweep does not count.
LEMMA PlanEndsUncounted ==
  ASSUME IInv, NEW p \in Proc, act[p].pc # "idle", Current(p), NEW s \in Stores,
         s.lock = st.lock, s.last = st.last, s.uncounted = st.uncounted,
         NEW b \in Nat, st.plan # NoPlan => st.plan.born = b,
         End(p, Uncounted(s, b)), Frame
  PROVE  IInv'
<1> DEFINE e == Uncounted(s, b)
<1>1. st \in Stores /\ StoreOK(st, now) /\ st.last \in Nat
  BY DEF IInv, TypeOK, Stores
<1>2. /\ e \in Stores /\ e.plan = NoPlan /\ e.lock = st.lock /\ e.last = st.last
      /\ e.uncounted = st.uncounted \cup {b}
  BY UncountedIs
<1> HIDE DEF e
<1>3. StoreOK(e, now)
  BY <1>1, <1>2 DEF StoreOK
<1>4. StoreStep(p, e)
  BY <1>1, <1>2, <1>3 DEF StoreStep, Covered, Moved
<1> QED
  BY <1>4, EndStep DEF e

\* The turn of another recipient of the plan of s.
LEMMA TurnIs ==
  ASSUME NEW s \in Stores, s.plan # NoPlan, StoreOK(s, now), Covered(s, balance, blocks),
         NEW k \in DOMAIN s.plan.pay
  PROVE  LET u == [s EXCEPT !.plan.next = k]
         IN  /\ u \in Stores /\ u.plan # NoPlan
             /\ u.plan = [s.plan EXCEPT !.next = k] /\ SamePlan(u.plan, s.plan)
             /\ u.last = s.last /\ u.lock = s.lock /\ u.uncounted = s.uncounted
             /\ StoreOK(u, now) /\ Covered(u, balance, blocks)
<1> DEFINE n == [s.plan EXCEPT !.next = k]
           u == [s EXCEPT !.plan = n]
<1>1. s.plan \in Plans /\ PlanOK(s.plan, now)
  BY DEF StoreOK, Stores
<1>2. k \in Nat
  <2>1. s.plan.pay \in Seq([to : Owners, amt : Nat])
    BY <1>1 DEF Plans
  <2> QED
    BY <2>1
<1>3. n \in Plans /\ n.next = k /\ SamePlan(n, s.plan)
  BY <1>1, <1>2 DEF Plans, SamePlan
<1>4. n # NoPlan
  BY <1>3, NoneAssumption
<1>5. [s EXCEPT !.plan.next = k] = u
  OBVIOUS
<1>6. n = [s.plan EXCEPT !.next = k]
  OBVIOUS
<1> HIDE DEF n
<1>7. /\ u \in Stores /\ u.plan = n /\ u.last = s.last /\ u.lock = s.lock
      /\ u.uncounted = s.uncounted
  BY <1>3 DEF Stores
<1> HIDE DEF u
<1>8. PlanOK(n, now) /\ n.born = s.plan.born /\ n.root = s.plan.root
  BY <1>1, <1>3 DEF PlanOK, SamePlan
<1>9. StoreOK(u, now)
  BY <1>7, <1>8 DEF StoreOK
<1>10. Owing(n, blocks) = Owing(s.plan, blocks)
  BY <1>3, SameTransfers
<1>11. Covered(u, balance, blocks)
  BY <1>4, <1>7, <1>8, <1>10 DEF Covered, Settled
<1> QED
  BY <1>3, <1>4, <1>5, <1>6, <1>7, <1>9, <1>11

LEMMA TurnStep ==
  ASSUME IInv, NEW p \in Proc, Current(p), NEW s, StoreStep(p, s), s.plan # NoPlan,
         NEW k \in DOMAIN s.plan.pay
  PROVE  StoreStep(p, [s EXCEPT !.plan.next = k])
<1> DEFINE u == [s EXCEPT !.plan.next = k]
<1>1. s \in Stores /\ StoreOK(s, now) /\ Covered(s, balance, blocks) /\ Moved(s)
  BY DEF StoreStep
<1>2. /\ u \in Stores /\ u.plan # NoPlan /\ SamePlan(u.plan, s.plan)
      /\ u.last = s.last /\ u.lock = s.lock /\ u.uncounted = s.uncounted
      /\ StoreOK(u, now) /\ Covered(u, balance, blocks)
  BY <1>1, TurnIs
<1> HIDE DEF u
<1>3. Moved(u)
  BY <1>1, <1>2 DEF Moved, SamePlan
<1> QED
  BY <1>2, <1>3 DEF StoreStep, u

\* p drives the plan of s, which it installed, found or advanced.
LEMMA DriveStep ==
  ASSUME IInv, NEW p \in Proc, act[p].pc # "idle", Current(p),
         NEW a, Budget(p, a), NEW s \in Stores,
         s.lock = st.lock, s.last = st.last, s.uncounted = st.uncounted,
         s.plan # NoPlan => StoreStep(p, s) /\ s.plan.born <= a.start,
         st.plan # NoPlan => st.plan.born <= a.start,
         Drive(p, a, s), Frame
  PROVE  IInv'
<1> DEFINE d == [s EXCEPT !.plan = NoPlan]
<1>0. st \in Stores
  BY DEF IInv, TypeOK, Stores
<1>1. CASE s.plan = NoPlan /\ End(p, CadenceUsed(s, a.start))
  BY <1>1, PlanEnds
<1>2. CASE s.plan = NoPlan /\ st.plan # NoPlan /\ End(p, Uncounted(s, st.plan.born))
  <2>1. st.plan.born \in Nat
    BY <1>0, <1>2 DEF Stores, Plans
  <2> QED
    BY <1>2, <2>1, PlanEndsUncounted
<1>3. CASE End(p, CadenceUsed(d, a.start))
  <2>1. /\ d \in Stores /\ d.plan = NoPlan /\ d.last = s.last /\ d.lock = s.lock
        /\ d.uncounted = s.uncounted
    BY WithoutPlan
  <2> HIDE DEF d
  <2> QED
    BY <1>3, <2>1, PlanEnds
<1>4. CASE s.plan # NoPlan /\ End(p, Uncounted(s, s.plan.born))
  <2>1. s.plan.born \in Nat
    BY <1>4 DEF Stores, Plans
  <2>2. st.plan # NoPlan => st.plan.born = s.plan.born
    BY <1>4 DEF StoreStep, Moved, SamePlan
  <2> QED
    BY <1>4, <2>1, <2>2, PlanEndsUncounted
<1>5. ASSUME s.plan # NoPlan, NEW i \in s.plan.next .. Len(s.plan.pay),
             Hold(p, a, [s EXCEPT !.plan.next = i])
      PROVE  IInv'
  <2>1. s.plan \in Plans /\ PlanOK(s.plan, now)
    BY <1>5 DEF Stores, StoreStep, StoreOK
  <2>2. s.plan.pay \in Seq([to : Owners, amt : Nat]) /\ s.plan.next \in Nat
    BY <2>1 DEF Plans
  <2>3. i \in DOMAIN s.plan.pay
    BY <2>1, <2>2, <1>5 DEF PlanOK
  <2>4. StoreStep(p, [s EXCEPT !.plan.next = i])
    BY <1>5, <2>3, TurnStep
  <2> QED
    BY <1>5, <2>4, HoldStep
<1>6. CASE s.plan # NoPlan /\ Send(p, a, s, FALSE)
  BY <1>6, SendStep
<1>7. CASE s.plan # NoPlan /\ Hold(p, a, s)
  BY <1>7, HoldStep
<1> QED
  BY <1>1, <1>2, <1>3, <1>4, <1>5, <1>6, <1>7, Zenon DEF Drive, d

-----------------------------------------------------------------------------
(* The steps of an activation.                                               *)

LEMMA SameLate ==
  ASSUME IInv, late' = late
  PROVE  late' \in SUBSET Txs /\ LateOK(st, late')
  BY DEF IInv, TypeOK

\* What the invariant says of activation p that is under way.
LEMMA Running ==
  ASSUME IInv, NEW p \in Proc, act[p].pc # "idle"
  PROVE  Budget(p, act[p]) /\ now \in Nat \ {0}
  BY DEF IInv, TypeOK, ActOK, Budget

\* A new lease, which nobody ever had while under way.
LEMMA Acquires ==
  ASSUME IInv, NEW p \in Proc, NEW b, NEW s \in Stores,
         CanAcquire(st.lock, now), b.expiry = LeaseExpiry(now, Lease),
         s.lock \in {0, b.expiry}
  PROVE  Others(p, s, b)
<1> SUFFICES ASSUME NEW q \in Proc \ {p}, act[q].pc # "idle"
             PROVE  /\ act[q].expiry <= now /\ s.lock # act[q].expiry
                    /\ b.expiry # act[q].expiry
  BY DEF Others
<1>1. /\ act[q].start \in Nat /\ act[q].expiry \in Nat
      /\ now \in Nat /\ st.lock \in Nat
  BY DEF IInv, TypeOK, Activations, Stores
<1>2. st.lock = act[q].expiry \/ act[q].expiry <= now
  BY DEF IInv, ActOK
<1>3. act[q].expiry > 0
  BY DEF IInv, ActOK
<1>4. b.expiry > now /\ b.expiry \in Nat
  BY <1>1, RewardAssumption DEF LeaseExpiry
<1> QED
  BY <1>1, <1>2, <1>3, <1>4 DEF CanAcquire

LEMMA TickBeginsStep ==
  ASSUME IInv, NEW p \in Proc, TickBegins(p)
  PROVE  IInv'
<1> DEFINE e == LeaseExpiry(now, Lease)
           b == [[Idle EXCEPT !.start = now, !.expiry = e] EXCEPT !.pc = "funding"]
           s == [st EXCEPT !.lock = e]
<1>1. Frame /\ act[p] = Idle /\ CanAcquire(st.lock, now) /\ st' = s
      /\ act' = [act EXCEPT ![p] = b]
  BY SameLate DEF TickBegins, Await, ledgers, dvars, Frame
<1>2. /\ st \in Stores /\ StoreOK(st, now) /\ Covered(st, balance, blocks)
      /\ now \in Nat \ {0}
  BY DEF IInv, TypeOK, Stores
<1>3. e \in Nat /\ now < e /\ e = LeaseExpiry(now, Lease)
  BY <1>2, RewardAssumption DEF LeaseExpiry
<1> HIDE DEF e
<1>4. /\ b \in Activations /\ b.pc = "funding" /\ b.start = now /\ b.expiry = e
      /\ b.ctx = NoDir
  BY <1>2, <1>3 DEF Idle, Activations, Accepted, PlanRejected, RecipientRejected
<1> HIDE DEF b
<1>5. /\ s \in Stores /\ s.plan = st.plan /\ s.last = st.last /\ s.lock = e
      /\ s.uncounted = st.uncounted
  BY <1>2, <1>3 DEF Stores
<1> HIDE DEF s
<1>6. StoreOK(s, now) /\ Moved(s) /\ Covered(s, balance, blocks)
  BY <1>2, <1>5 DEF StoreOK, Moved, Covered, Settled
<1>7. ActOK(b, s, now, balance, blocks, dir, issued)
  BY <1>2, <1>3, <1>4, <1>5 DEF ActOK, DirOK, Reading
<1>8. Others(p, s, b)
  BY <1>1, <1>3, <1>4, <1>5, Acquires
<1> QED
  BY <1>1, <1>4, <1>5, <1>6, <1>7, <1>8, ProcStep DEF Frame

LEMMA TickEndsStep ==
  ASSUME IInv, NEW p \in Proc, TickEnds(p)
  PROVE  IInv'
<1>1. Frame /\ act[p].pc # "idle" /\ End(p, st)
  BY SameLate DEF TickEnds, ledgers, dvars, Frame
<1> QED
  BY <1>1, OwnStore, EndStep

\* The activation when its sweep begins.
Begun(c, t) == [c EXCEPT !.start = t]

LEMMA BegunIs ==
  ASSUME NEW c \in Activations, NEW t \in Nat
  PROVE  /\ Begun(c, t) \in Activations
         /\ Begun(c, t).start = t /\ Begun(c, t).expiry = c.expiry
         /\ Begun(c, t).ctx = c.ctx
  BY DEF Activations, Begun

LEMMA ProcessStep ==
  ASSUME IInv, NEW p \in Proc, Process(p)
  PROVE  IInv'
<1> DEFINE a == Begun(act[p], now)
<1>1. Frame /\ act[p].pc = "funding" /\ Current(p)
  BY SameLate DEF Process, ledgers, dvars, Frame
<1>2. /\ st \in Stores /\ StoreOK(st, now) /\ now \in Nat \ {0} /\ st.last \in Nat
      /\ act[p] \in Activations
      /\ ActOK(act[p], st, now, balance, blocks, dir, issued)
  BY DEF IInv, TypeOK, Stores
<1>3. /\ a \in Activations /\ a.start = now /\ a.expiry = act[p].expiry
      /\ a.ctx = act[p].ctx
  BY <1>2, BegunIs
<1> HIDE DEF a
<1>4. CASE st.plan # NoPlan /\ Drive(p, a, st)
  <2>1. Budget(p, a)
    BY <1>1, <1>2, <1>3 DEF Budget, ActOK
  <2>2. st.plan.born <= a.start
    BY <1>2, <1>3, <1>4 DEF StoreOK, PlanOK
  <2> QED
    BY <1>1, <1>2, <1>4, <2>1, <2>2, OwnStore, DriveStep
<1>5. CASE /\ st.plan = NoPlan /\ SweepIsDue(st.last, now)
           /\ Await(p, st, [a EXCEPT !.gen = st.last], "context")
  <2> DEFINE b == [[a EXCEPT !.gen = st.last] EXCEPT !.pc = "context"]
  <2>1. st' = st /\ act' = [act EXCEPT ![p] = b]
    BY <1>5 DEF Await
  <2>2. /\ b \in Activations /\ b.pc = "context" /\ b.ctx = a.ctx /\ b.gen = st.last
        /\ b.start = now /\ b.expiry = act[p].expiry
    BY <1>2, <1>3 DEF Activations, Reading
  <2> HIDE DEF b
  <2>3. ReadOK(b, st, balance)
    BY <1>5, <2>2 DEF ReadOK
  <2>4. ActOK(b, st, now, balance, blocks, dir, issued)
    BY <1>1, <1>2, <1>3, <2>2, <2>3 DEF ActOK, DirOK, Reading, Current
  <2> QED
    BY <1>1, <2>1, <2>2, <2>4, OwnStore, GoesOn
<1> QED
  BY <1>4, <1>5, Zenon DEF Process, Begun, a

LEMMA NextSliceStep ==
  ASSUME IInv, NEW p \in Proc, NextSlice(p)
  PROVE  IInv'
<1> DEFINE k == IF st.plan = NoPlan THEN 0 ELSE st.plan.next
           a == Sliced(act[p], now, No, k)
<1>1. Frame /\ act[p].pc # "idle"
  BY SameLate DEF NextSlice, ledgers, dvars, Frame
<1>2. StoreStep(p, st)
  BY OwnStore
<1>3. CASE End(p, st)
  BY <1>1, <1>2, <1>3, EndStep
<1>4. CASE Current(p) /\ now < act[p].expiry /\ Drive(p, a, st)
  <2>1. /\ st \in Stores /\ StoreOK(st, now) /\ now \in Nat \ {0}
        /\ act[p] \in Activations
    BY DEF IInv, TypeOK, Stores
  <2>2. k \in Nat /\ now \in Nat /\ No \in BOOLEAN
    BY <2>1 DEF Stores, Plans, No
  <2> HIDE DEF k
  <2>3. a \in Activations /\ a.start = now /\ a.expiry = act[p].expiry
    <3>1. act[p] \in Activations
      BY <2>1
    <3>2. \A t \in Nat, m \in Nat, first \in BOOLEAN :
            /\ Sliced(act[p], t, first, m) \in Activations
            /\ Sliced(act[p], t, first, m).start = t
            /\ Sliced(act[p], t, first, m).expiry = act[p].expiry
      BY <3>1, SlicedIs
    <3>3. \A m \in Nat : Sliced(act[p], now, No, m) \in Activations
      BY <2>2, <3>2
    <3>4. \A m \in Nat : Sliced(act[p], now, No, m).start = now
      BY <2>2, <3>2
    <3>5. \A m \in Nat : Sliced(act[p], now, No, m).expiry = act[p].expiry
      BY <2>2, <3>2
    <3> QED
      BY <2>2, <3>3, <3>4, <3>5
  <2> HIDE DEF a
  <2>4. Budget(p, a)
    BY <1>1, <2>1, <2>3, Running DEF Budget
  <2>5. st.plan # NoPlan => st.plan.born <= a.start
    BY <2>1, <2>3 DEF StoreOK, PlanOK
  <2> QED
    BY <1>1, <1>2, <1>4, <2>1, <2>4, <2>5, DriveStep
<1> QED
  BY <1>3, <1>4, Zenon DEF NextSlice, Sliced, No, a, k

LEMMA AdjudicationFailsStep ==
  ASSUME IInv, NEW p \in Proc, AdjudicationFails(p)
  PROVE  IInv'
<1>1. Frame /\ act[p].pc # "idle" /\ End(p, st)
  BY SameLate DEF AdjudicationFails, ledgers, dvars, Frame, Reading
<1> QED
  BY <1>1, OwnStore, EndStep

LEMMA ContextStep ==
  ASSUME IInv, NEW p \in Proc, ContextReply(p)
  PROVE  IInv'
<1> DEFINE b == [[act[p] EXCEPT !.ctx = dir] EXCEPT !.pc = "balance"]
<1>1. Frame /\ act[p].pc = "context" /\ Current(p) /\ dir # NoDir
  BY SameLate DEF ContextReply, ledgers, dvars, Frame, Live, Context
<1>2. st' = st /\ act' = [act EXCEPT ![p] = b]
  BY DEF ContextReply, Await, Context
<1>3. act[p] \in Activations /\ dir \in Dirs
  BY <1>1 DEF IInv, TypeOK
<1>4. /\ b \in Activations /\ b.pc = "balance" /\ b.ctx = dir /\ b.gen = act[p].gen
      /\ b.start = act[p].start /\ b.expiry = act[p].expiry
  BY <1>3 DEF Activations, Reading
<1>5. ActOK(act[p], st, now, balance, blocks, dir, issued) /\ DirOK(dir, dir, issued)
  BY DEF IInv
<1> HIDE DEF b
<1>6. ReadOK(b, st, balance)
  BY <1>1, <1>4, <1>5 DEF ActOK, ReadOK, Reading
<1>7. ActOK(b, st, now, balance, blocks, dir, issued)
  BY <1>1, <1>4, <1>5, <1>6 DEF ActOK, DirOK, Reading
<1> QED
  BY <1>1, <1>2, <1>4, <1>7, OwnStore, GoesOn

LEMMA BalanceStep ==
  ASSUME IInv, NEW p \in Proc, BalanceReply(p)
  PROVE  IInv'
<1> DEFINE x == balance[act[p].ctx.root]
           b == [[act[p] EXCEPT !.bal = x] EXCEPT !.pc = "fee"]
<1>1. Frame /\ act[p].pc = "balance" /\ Current(p)
  BY SameLate DEF BalanceReply, ledgers, dvars, Frame, Live
<1>2. st' = st /\ act' = [act EXCEPT ![p] = b]
  BY DEF BalanceReply, Await
<1>3. act[p] \in Activations
  BY DEF IInv, TypeOK
<1>4. ActOK(act[p], st, now, balance, blocks, dir, issued)
  BY DEF IInv
<1>5. act[p].ctx \in Dirs
  BY <1>1, <1>3, <1>4 DEF ActOK, ReadOK, Reading, Activations
<1>6. x \in Nat
  BY <1>5 DEF IInv, TypeOK, Dirs
<1>7. x <= balance[act[p].ctx.root]
  BY <1>6
<1> HIDE DEF x
<1>8. /\ b \in Activations /\ b.pc = "fee" /\ b.ctx = act[p].ctx /\ b.gen = act[p].gen
      /\ b.start = act[p].start /\ b.expiry = act[p].expiry /\ b.bal = x
  BY <1>3, <1>6 DEF Activations, Reading
<1> HIDE DEF b
<1>9. ReadOK(b, st, balance)
  BY <1>1, <1>4, <1>7, <1>8 DEF ActOK, ReadOK, Reading
<1>10. ActOK(b, st, now, balance, blocks, dir, issued)
  BY <1>1, <1>4, <1>8, <1>9 DEF ActOK, DirOK, Reading
<1> QED
  BY <1>1, <1>2, <1>8, <1>10, OwnStore, GoesOn

\* A sweep that ends without a plan.
LEMMA SweepEnds ==
  ASSUME IInv, NEW p \in Proc, act[p].pc \in Reading, Current(p), Frame,
         End(p, CadenceUsed(st, act[p].start))
  PROVE  IInv'
<1> DEFINE e == CadenceUsed(st, act[p].start)
<1>1. /\ st \in Stores /\ act[p].start \in 1 .. now /\ now \in Nat /\ st.plan = NoPlan
      /\ StoreOK(st, now)
  BY DEF IInv, TypeOK, Stores, ActOK, ReadOK, Current, Reading
<1>2. /\ e \in Stores /\ e.plan = NoPlan /\ e.lock = st.lock /\ e.uncounted = st.uncounted
      /\ e.last >= st.last /\ e.last \in {st.last, act[p].start}
  BY <1>1, CadenceIs
<1> HIDE DEF e
<1>3. StoreStep(p, e)
  BY <1>1, <1>2 DEF StoreStep, StoreOK, Moved, Covered
<1> QED
  BY <1>3, EndStep DEF e, Reading

LEMMA FeeStep ==
  ASSUME IInv, NEW p \in Proc, FeeReply(p)
  PROVE  IInv'
<1> DEFINE b == [[act[p] EXCEPT !.fee = fee] EXCEPT !.pc = "history"]
<1>1. Frame /\ act[p].pc = "fee" /\ Current(p) /\ act[p].pc \in Reading
  BY SameLate DEF FeeReply, ledgers, dvars, Frame, Live, Reading
<1>2. CASE End(p, CadenceUsed(st, act[p].start))
  BY <1>1, <1>2, SweepEnds
<1>3. CASE Await(p, st, [act[p] EXCEPT !.fee = fee], "history")
  <2>1. st' = st /\ act' = [act EXCEPT ![p] = b]
    BY <1>3 DEF Await
  <2>2. act[p] \in Activations /\ fee \in Nat
    BY RewardAssumption DEF IInv, TypeOK
  <2>3. ActOK(act[p], st, now, balance, blocks, dir, issued)
    BY DEF IInv
  <2>4. /\ b \in Activations /\ b.pc = "history" /\ b.ctx = act[p].ctx /\ b.gen = act[p].gen
        /\ b.start = act[p].start /\ b.expiry = act[p].expiry /\ b.bal = act[p].bal
    BY <2>2 DEF Activations, Reading
  <2> HIDE DEF b
  <2>5. ReadOK(b, st, balance)
    BY <1>1, <2>3, <2>4 DEF ActOK, ReadOK, Reading
  <2>6. ActOK(b, st, now, balance, blocks, dir, issued)
    BY <1>1, <2>3, <2>4, <2>5 DEF ActOK, DirOK, Reading
  <2> QED
    BY <1>1, <2>1, <2>4, <2>6, OwnStore, GoesOn
<1> QED
  BY <1>2, <1>3 DEF FeeReply

\* The owners of batch i are asked for, or the sweep ends.
LEMMA AskStep ==
  ASSUME IInv, NEW p \in Proc, act[p].pc \in {"history", "owners"}, Current(p), Frame,
         NEW i \in Nat \ {0}, NEW a \in Activations, AskOwners(p, a, i),
         a.ctx = act[p].ctx, a.start = act[p].start, a.expiry = act[p].expiry,
         a.gen = act[p].gen, a.bal = act[p].bal
  PROVE  IInv'
<1> DEFINE S == Sources(i)
           b == [[a EXCEPT !.batch = i, !.todo = S, !.known = {}] EXCEPT !.pc = "owners"]
<1>1. CASE End(p, CadenceUsed(st, a.start))
  BY <1>1, SweepEnds DEF Reading
<1>2. CASE ~(i > Len(Batches)) /\ st' = st /\ act' = [act EXCEPT ![p] = b]
  <2>1. i \in DOMAIN Batches
    BY <1>2, RewardAssumption
  <2>2. S \in SUBSET Owners /\ S # {}
    BY <2>1, RewardAssumption DEF Sources
  <2>3. S = Sources(i)
    OBVIOUS
  <2>4. ActOK(act[p], st, now, balance, blocks, dir, issued)
    BY DEF IInv
  <2> HIDE DEF S
  <2>5. /\ b \in Activations /\ b.pc = "owners" /\ b.ctx = a.ctx /\ b.gen = a.gen
        /\ b.start = a.start /\ b.expiry = a.expiry /\ b.bal = a.bal
        /\ b.batch = i /\ b.todo = S /\ b.known = {}
    BY <2>2 DEF Activations, Reading
  <2> HIDE DEF b
  <2>6. ReadOK(b, st, balance)
    BY <2>1, <2>2, <2>3, <2>4, <2>5 DEF ActOK, ReadOK, Reading
  <2>7. ActOK(b, st, now, balance, blocks, dir, issued)
    BY <2>4, <2>5, <2>6 DEF ActOK, DirOK, Reading
  <2> QED
    BY <1>2, <2>5, <2>7, OwnStore, GoesOn
<1> QED
  BY <1>1, <1>2, Zenon DEF AskOwners, Await, S, b

LEMMA HistoryStep ==
  ASSUME IInv, NEW p \in Proc, HistoryReply(p)
  PROVE  IInv'
<1>1. /\ Frame /\ act[p].pc = "history" /\ Current(p) /\ AskOwners(p, act[p], 1)
      /\ act[p] \in Activations
  BY SameLate DEF HistoryReply, ledgers, dvars, Frame, Live, IInv, TypeOK
<1> QED
  BY <1>1, AskStep

LEMMA OwingFits ==
  ASSUME NEW plan, plan.pay \in Seq([to : Owners, amt : Nat]), plan.fee \in Nat, NEW blk
  PROVE  /\ Owing(plan, blk) \in Nat
         /\ Total(plan.pay, plan.fee) \in Nat
         /\ Owing(plan, blk) <= Total(plan.pay, plan.fee)
<1> DEFINE f == [i \in DOMAIN plan.pay |-> plan.pay[i].amt + plan.fee]
           S == DOMAIN plan.pay
           T == {i \in DOMAIN plan.pay : Transfer(plan, i) \notin blk}
<1>1. IsFiniteSet(S)
  <2>1. S = 1 .. Len(plan.pay) /\ Len(plan.pay) \in Nat
    OBVIOUS
  <2> QED
    BY <2>1, FS_Interval
<1>2. \A x \in S : f[x] \in Nat
  <2> TAKE x \in S
  <2>1. plan.pay[x] \in [to : Owners, amt : Nat]
    BY SeqElement
  <2> QED
    BY <2>1
<1>3. T \in SUBSET S /\ IsFiniteSet(T) /\ \A x \in T : f[x] \in Nat
  BY <1>1, <1>2, FS_Subset
<1> HIDE DEF f, S, T
<1>4. SumFunctionOnSet(f, T) \in Nat /\ SumFunctionOnSet(f, S) \in Nat
  BY <1>1, <1>2, <1>3, SumIsNat
<1>5. SumFunctionOnSet(f, T) <= SumFunctionOnSet(f, S)
  BY <1>1, <1>2, <1>3, SumSubset
<1> QED
  BY <1>4, <1>5, Zenon DEF Owing, Total, f, S, T

LEMMA MinIn ==
  ASSUME NEW S \in SUBSET Nat, S # {}
  PROVE  Min(S) \in S
<1>1. \E x \in S : \A y \in S : x =< y
  BY LeastExists
<1> QED
  BY <1>1, Zenon DEF Min

\* The plan that is pinned can be paid from the pot that was read.
LEMMA PinStep ==
  ASSUME IInv, NEW p \in Proc, act[p].pc = "owners", Current(p), Frame,
         NEW a \in Activations, Pin(p, a),
         a.ctx = act[p].ctx, a.start = act[p].start, a.expiry = act[p].expiry,
         a.gen = act[p].gen, a.bal = act[p].bal, a.batch = act[p].batch,
         a.known # {}, a.known \subseteq Sources(a.batch), a.known \subseteq a.ctx.owners
  PROVE  IInv'
<1> DEFINE allocs == Allocations(a.bal, a.fee, Batches[a.batch], a.known)
           plan == Plan(a.ctx, a.batch, a.fee, allocs, a.start)
           s == [st EXCEPT !.plan = plan]
<1>1. /\ ActOK(act[p], st, now, balance, blocks, dir, issued)
      /\ st \in Stores /\ StoreOK(st, now) /\ now \in Nat
  BY DEF IInv, TypeOK, Stores
<1>2. /\ a.batch \in DOMAIN Batches /\ a.ctx \in Dirs
      /\ st.plan = NoPlan /\ st.last = a.gen /\ SweepIsDue(a.gen, a.start)
      /\ Settled(st, a.start) => a.bal <= balance[a.ctx.root]
  BY <1>1 DEF ActOK, ReadOK, Reading, Activations, Current
<1>3. a.bal \in Nat /\ a.fee \in Nat /\ a.start \in Nat /\ a.known \in SUBSET Sources(a.batch)
  BY DEF Activations
<1>4. /\ allocs \in Seq([to : Owners, amt : Nat])
      /\ \A i \in DOMAIN allocs : allocs[i].to \in a.known
      /\ Total(allocs, a.fee) <= a.bal
  <2> HIDE DEF allocs
  <2>1. allocs = Allocations(a.bal, a.fee, Batches[a.batch], a.known)
    BY DEF allocs
  <2>2. ASSUME NEW S \in SUBSET Sources(a.batch), S # {}, NEW al,
               al = Allocations(a.bal, a.fee, Batches[a.batch], S)
        PROVE  /\ al \in Seq([to : Owners, amt : Nat])
               /\ \A i \in DOMAIN al : al[i].to \in S
               /\ Total(al, a.fee) <= a.bal
    <3>1. a.bal \in Nat /\ a.fee \in Nat /\ a.batch \in DOMAIN Batches
      BY <1>2, <1>3
    <3> QED
      BY ONLY <2>2, <3>1, AllocationsFit
  <2>3. a.known \in SUBSET Sources(a.batch) /\ a.known # {}
    BY <1>3
  <2> QED
    BY ONLY <2>1, <2>2, <2>3
<1>5. CASE End(p, CadenceUsed(st, a.start))
  BY <1>5, SweepEnds DEF Reading
<1>6. CASE End(p, st)
  BY <1>6, OwnStore, EndStep
<1>7. ASSUME allocs # <<>>, Drive(p, a, s)
      PROVE  IInv'
  <2> HIDE DEF allocs
  <2>1. /\ plan.root = a.ctx.root /\ plan.batch = a.batch /\ plan.fee = a.fee
        /\ plan.pay = allocs /\ plan.born = a.start /\ plan.next = 1 /\ plan.dir = a.ctx
    BY DEF Plan
  <2>2. plan \in Plans
    <3>1. a.ctx.root \in Roots
      BY <1>2 DEF Dirs
    <3> QED
      BY <1>2, <1>3, <1>4, <3>1 DEF Plan, Plans
  <2>3. plan # NoPlan
    BY <2>2, NoneAssumption
  <2> HIDE DEF plan
  <2>4. /\ s \in Stores /\ s.plan = plan /\ s.last = st.last /\ s.lock = st.lock
        /\ s.uncounted = st.uncounted
    BY <1>1, <2>2 DEF Stores
  <2> HIDE DEF s
  <2>5. a.start \in 1 .. now /\ Budget(p, a)
    BY <1>1 DEF ActOK, Reading, Budget
  <2>6. 1 \in DOMAIN allocs
    BY <1>4, <1>7
  <2>7. PlanOK(plan, now)
    BY <1>4, <2>1, <2>5, <2>6 DEF PlanOK
  <2>8. StoreOK(s, now)
    BY <1>1, <1>2, <2>1, <2>4, <2>7 DEF StoreOK
  <2>9. Moved(s)
    BY <1>2, <2>3, <2>4 DEF Moved
  <2>10. Covered(s, balance, blocks)
    <3>1. plan.pay \in Seq([to : Owners, amt : Nat]) /\ plan.fee \in Nat
      BY <1>3, <1>4, <2>1
    <3>2. /\ Owing(plan, blocks) \in Nat /\ Total(allocs, a.fee) \in Nat
          /\ Owing(plan, blocks) <= Total(allocs, a.fee)
      BY <2>1, <3>1, OwingFits
    <3>5. Total(allocs, a.fee) <= a.bal
      BY <1>4
    <3>6. balance[a.ctx.root] \in Nat
      BY <1>2 DEF Dirs, IInv, TypeOK
    <3>7. Settled(st, a.start) => Owing(plan, blocks) <= balance[a.ctx.root]
      BY <1>2, <1>3, <3>2, <3>5, <3>6
    <3> QED
      BY <2>1, <2>4, <3>7 DEF Covered, Settled
  <2>11. StoreStep(p, s) /\ s.plan.born <= a.start
    BY <1>3, <2>1, <2>4, <2>8, <2>9, <2>10 DEF StoreStep
  <2> QED
    BY <1>2, <1>7, <2>4, <2>5, <2>11, DriveStep DEF s
<1> QED
  BY <1>5, <1>6, <1>7, Zenon DEF Pin, allocs, plan, s

LEMMA OwnerStep ==
  ASSUME IInv, NEW p \in Proc, OwnerReply(p)
  PROVE  IInv'
<1> DEFINE a == act[p]
           x == Min(a.todo)
           T == a.todo \ {x}
           K == IF Knows(x) THEN a.known \cup {x} ELSE a.known
           b == [a EXCEPT !.todo = T, !.known = K]
<1>1. Frame /\ a.pc = "owners" /\ Current(p) /\ Resolvable(a.ctx.id) /\ a \in Activations
  BY SameLate DEF OwnerReply, ledgers, dvars, Frame, Live, IInv, TypeOK
<1>2. ActOK(a, st, now, balance, blocks, dir, issued)
  BY DEF IInv
<1>3. /\ a.batch \in DOMAIN Batches /\ a.batch \in Nat /\ a.todo \in SUBSET Owners /\ a.todo # {}
      /\ a.todo \subseteq Sources(a.batch) /\ a.known \subseteq Sources(a.batch)
      /\ a.known \subseteq a.ctx.owners /\ a.ctx # NoDir
  BY <1>1, <1>2 DEF ActOK, ReadOK, Reading, Activations
<1>4. x \in a.todo
  BY <1>3, MinIn, RewardAssumption
<1>5. dir = a.ctx
  BY <1>1, <1>2, <1>3 DEF ActOK, DirOK, Resolvable
<1>6. /\ T \subseteq Sources(a.batch) /\ K \subseteq Sources(a.batch)
      /\ K \subseteq a.ctx.owners
  BY <1>3, <1>4, <1>5 DEF Knows
<1>7. T \in SUBSET Owners /\ K \in SUBSET Owners
  BY <1>6 DEF Sources
<1> HIDE DEF T, K
<1>8. /\ b \in Activations /\ b.pc = "owners" /\ b.ctx = a.ctx /\ b.gen = a.gen
      /\ b.start = a.start /\ b.expiry = a.expiry /\ b.bal = a.bal /\ b.batch = a.batch
      /\ b.todo = T /\ b.known = K /\ [b EXCEPT !.pc = "owners"] = b
  BY <1>1, <1>7 DEF Activations
<1>9. \/ b.todo # {} /\ Await(p, st, b, "owners")
      \/ b.todo = {} /\ b.known = {} /\ AskOwners(p, b, b.batch + 1)
      \/ b.todo = {} /\ b.known # {} /\ Pin(p, b)
  BY Zenon DEF OwnerReply, T, K
<1> HIDE DEF b
<1>10. CASE b.todo # {} /\ Await(p, st, b, "owners")
  <2>1. st' = st /\ act' = [act EXCEPT ![p] = b]
    BY <1>8, <1>10 DEF Await
  <2>2. ReadOK(b, st, balance)
    BY <1>1, <1>2, <1>3, <1>6, <1>8, <1>10 DEF ActOK, ReadOK, Reading
  <2>3. ActOK(b, st, now, balance, blocks, dir, issued)
    BY <1>1, <1>2, <1>8, <2>2 DEF ActOK, DirOK, Reading
  <2> QED
    BY <1>1, <1>8, <2>1, <2>3, OwnStore, GoesOn
<1>11. CASE AskOwners(p, b, b.batch + 1)
  <2>1. b.batch + 1 \in Nat \ {0}
    BY <1>3, <1>8
  <2> QED
    BY <1>1, <1>8, <1>11, <2>1, AskStep
<1>12. CASE b.known # {} /\ Pin(p, b)
  BY <1>1, <1>6, <1>8, <1>12, PinStep
<1> QED
  BY <1>9, <1>10, <1>11, <1>12

-----------------------------------------------------------------------------
(* Transfers.                                                                *)

LEMMA TransferIn ==
  ASSUME NEW plan \in Plans, NEW i \in DOMAIN plan.pay
  PROVE  Transfer(plan, i) \in Txs
<1>1. /\ plan.root \in Roots /\ plan.fee \in Nat /\ plan.born \in Nat
      /\ plan.batch \in DOMAIN Batches /\ plan.pay \in Seq([to : Owners, amt : Nat])
  BY DEF Plans
<1>2. plan.pay[i] \in [to : Owners, amt : Nat]
  BY <1>1, SeqElement
<1>3. plan.pay[i].to \in Owners /\ plan.pay[i].amt \in Nat
  BY <1>2
<1>4. plan.batch \in Nat /\ i \in Nat
  BY <1>1, RewardAssumption, SMTT(30)
<1> QED
  BY <1>1, <1>3, <1>4 DEF Transfer, Txs

LEMMA RequestIs ==
  ASSUME IInv, NEW p \in Proc, act[p].pc = "send"
  PROVE  /\ Request(act[p]) \in Txs /\ Request(act[p]).born >= 1
         /\ Request(act[p]).born = act[p].sent.born
         /\ FollowedTx(Request(act[p]), st)
<1> DEFINE a == act[p]
<1>1. /\ a \in Activations /\ SendOK(a, st, now, blocks) /\ now \in Nat
  BY DEF IInv, TypeOK, ActOK
<1>2. a.sent \in Plans /\ PlanOK(a.sent, now) /\ Followed(a.sent, st)
  BY <1>1 DEF SendOK, Activations
<1>3. /\ a.sent.next \in DOMAIN a.sent.pay /\ a.sent.born >= 1
  BY <1>1, <1>2 DEF PlanOK
<1>4. Request(a) \in Txs
  BY <1>2, <1>3, TransferIn DEF Request
<1>5. Request(a).born = a.sent.born
  BY DEF Request, Transfer
<1>6. Request(a) \in Transfers(a.sent)
  BY <1>3 DEF Request, Transfers
<1>7. FollowedTx(Request(a), st)
  <2>1. CASE st.plan # NoPlan /\ SamePlan(st.plan, a.sent)
    BY <1>6, <2>1, SameTransfers DEF FollowedTx
  <2>2. CASE a.sent.born <= st.last \/ a.sent.born \in st.uncounted
    BY <1>5, <2>2 DEF FollowedTx
  <2> QED
    BY <1>2, <2>1, <2>2 DEF Followed
<1> QED
  BY <1>3, <1>4, <1>5, <1>7

LEMMA AbandonFrame ==
  ASSUME IInv, NEW p \in Proc, act[p].pc = "send", Abandon(act[p]),
         UNCHANGED <<now, balance, fee, blocks, events, dvars>>
  PROVE  Frame
<1>1. late' = late \/ late' = late \cup {Request(act[p])}
  BY DEF Abandon
<1>2. late \in SUBSET Txs /\ LateOK(st, late)
  BY DEF IInv, TypeOK
<1>3. late' \in SUBSET Txs /\ LateOK(st, late')
  BY <1>1, <1>2, RequestIs DEF LateOK
<1> QED
  BY <1>3 DEF Frame, dvars

\* The next recipient, or the end of the plan.
LEMMA AdvancedStep ==
  ASSUME IInv, NEW p \in Proc, Current(p), st.plan # NoPlan
  PROVE  /\ Advanced(st) \in Stores
         /\ Advanced(st).lock = st.lock /\ Advanced(st).last = st.last
         /\ Advanced(st).uncounted = st.uncounted
         /\ Advanced(st).plan # NoPlan =>
              StoreStep(p, Advanced(st)) /\ Advanced(st).plan.born = st.plan.born
<1> DEFINE k == st.plan.next + 1
           s == [st EXCEPT !.plan.next = k]
<1>1. st \in Stores /\ StoreOK(st, now) /\ Covered(st, balance, blocks)
  BY DEF IInv, TypeOK, Stores
<1>2. st.plan \in Plans /\ PlanOK(st.plan, now)
  BY <1>1 DEF StoreOK, Stores
<1>3. CASE st.plan.next = Len(st.plan.pay)
  <2>1. Advanced(st) = [st EXCEPT !.plan = NoPlan]
    BY <1>3 DEF Advanced
  <2> QED
    BY <1>1, <2>1, WithoutPlan
<1>4. CASE st.plan.next # Len(st.plan.pay)
  <2>1. Advanced(st) = s
    BY <1>1, <1>4 DEF Advanced, Stores
  <2>2. /\ st.plan.pay \in Seq([to : Owners, amt : Nat]) /\ st.plan.next \in Nat
    BY <1>2 DEF Plans
  <2>3. k \in DOMAIN st.plan.pay
    BY <1>2, <1>4, <2>2 DEF PlanOK
  <2> HIDE DEF k
  <2>4. /\ s \in Stores /\ SamePlan(s.plan, st.plan)
        /\ s.last = st.last /\ s.lock = st.lock /\ s.uncounted = st.uncounted
    BY <1>1, <2>3, TurnIs
  <2>5. StoreStep(p, s)
    BY <2>3, OwnStore, TurnStep
  <2> QED
    BY <2>1, <2>4, <2>5 DEF SamePlan
<1> QED
  BY <1>3, <1>4

LEMMA SendReplyStep ==
  ASSUME IInv, NEW p \in Proc, SendReply(p)
  PROVE  IInv'
<1> DEFINE a == act[p]
<1>1. Frame /\ a.pc = "send" /\ Current(p) /\ st.plan = a.sent
  BY SameLate DEF SendReply, ledgers, dvars, Frame, Live
<1>2. st.plan # NoPlan /\ st.plan.born <= a.start /\ a.pc # "idle"
  BY <1>1 DEF IInv, ActOK, SendOK
<1>3. Budget(p, a) /\ st \in Stores
  BY <1>2, Running DEF IInv, TypeOK, Stores
<1> HIDE DEF a
<1>4. CASE Drive(p, a, Advanced(st))
  BY <1>1, <1>2, <1>3, <1>4, AdvancedStep, DriveStep DEF a
<1>5. CASE End(p, CadenceUsed([st EXCEPT !.plan = NoPlan], a.start))
  <2> DEFINE d == [st EXCEPT !.plan = NoPlan]
  <2>1. /\ d \in Stores /\ d.plan = NoPlan /\ d.last = st.last /\ d.lock = st.lock
        /\ d.uncounted = st.uncounted
    BY <1>3, WithoutPlan
  <2> HIDE DEF d
  <2> QED
    BY <1>1, <1>2, <1>3, <1>5, <2>1, PlanEnds DEF a, d
<1> QED
  BY <1>4, <1>5, Zenon DEF SendReply, a

LEMMA SendUnknownStep ==
  ASSUME IInv, NEW p \in Proc, SendUnknown(p)
  PROVE  IInv'
<1> DEFINE a == act[p]
<1>1. /\ a.pc = "send" /\ Current(p) /\ st.plan = a.sent /\ Abandon(a)
      /\ UNCHANGED <<now, balance, fee, blocks, events, dvars>>
  BY DEF SendUnknown, Live
<1>2. st.plan # NoPlan /\ st.plan.born <= a.start /\ a.pc # "idle"
  BY <1>1 DEF IInv, ActOK, SendOK
<1>3. Budget(p, a) /\ StoreStep(p, st)
  BY <1>2, Running, OwnStore
<1>4. Frame
  BY <1>1, AbandonFrame
<1> HIDE DEF a
<1>5. CASE Send(p, a, st, TRUE)
  BY <1>1, <1>2, <1>3, <1>4, <1>5, SendStep DEF a
<1>6. CASE Hold(p, a, st)
  BY <1>1, <1>2, <1>3, <1>4, <1>6, HoldStep DEF a
<1>7. CASE Drive(p, a, Advanced(st))
  BY <1>1, <1>2, <1>3, <1>4, <1>7, AdvancedStep, DriveStep DEF a
<1> QED
  BY <1>5, <1>6, <1>7, Zenon DEF SendUnknown, a

LEMMA SendFencedStep ==
  ASSUME IInv, NEW p \in Proc, SendFenced(p)
  PROVE  IInv'
<1>1. /\ act[p].pc = "send" /\ Abandon(act[p]) /\ Hold(p, act[p], st)
      /\ UNCHANGED <<now, balance, fee, blocks, events, dvars>>
  BY DEF SendFenced
<1>2. Frame
  BY <1>1, AbandonFrame
<1> QED
  BY <1>1, <1>2, Running, OwnStore, HoldStep

-----------------------------------------------------------------------------
(* The ledgers.                                                              *)

\* A request older than a sweep that is due no longer finds a ledger that takes
\* it: a week is longer than a ledger's window.
LEMMA OldIsDead ==
  ASSUME NEW n \in Nat, NEW last \in Nat, NEW born \in Nat, NEW b \in Nat,
         b >= 1, b <= last, SweepIsDue(last, born), born <= n
  PROVE  n - b > LedgerWindow
  BY RewardAssumption DEF SweepIsDue

\* What one executed transfer takes off what is owed.
LEMMA OwingDrops ==
  ASSUME NEW plan \in Plans, NEW i \in DOMAIN plan.pay, NEW blk, Transfer(plan, i) \notin blk
  PROVE  Owing(plan, blk \cup {Transfer(plan, i)})
           = Owing(plan, blk) - (plan.pay[i].amt + plan.fee)
<1> DEFINE f == [j \in DOMAIN plan.pay |-> plan.pay[j].amt + plan.fee]
           S == DOMAIN plan.pay
           T == {j \in DOMAIN plan.pay : Transfer(plan, j) \notin blk}
           U == {j \in DOMAIN plan.pay : Transfer(plan, j) \notin blk \cup {Transfer(plan, i)}}
<1>1. plan.pay \in Seq([to : Owners, amt : Nat]) /\ plan.fee \in Nat
  BY DEF Plans
<1>2. IsFiniteSet(S)
  <2>1. S = 1 .. Len(plan.pay) /\ Len(plan.pay) \in Nat
    BY <1>1
  <2> QED
    BY <2>1, FS_Interval
<1>3. \A x \in S : f[x] \in Int /\ f[x] = plan.pay[x].amt + plan.fee
  <2> TAKE x \in S
  <2>1. plan.pay[x] \in [to : Owners, amt : Nat]
    BY <1>1, SeqElement
  <2> QED
    BY <1>1, <2>1
<1>4. \A j \in S : Transfer(plan, j) = Transfer(plan, i) <=> j = i
  <2> TAKE j \in S
  <2>1. Transfer(plan, j).memo[2] = j /\ Transfer(plan, i).memo[2] = i
    BY DEF Transfer
  <2> QED
    BY <2>1
<1>5. T \in SUBSET S /\ i \in T /\ i \in S
  OBVIOUS
<1>6. U = T \ {i}
  BY <1>4
<1> HIDE DEF f, S, T, U
<1>7. /\ SumFunctionOnSet(f, T) \in Int
      /\ SumFunctionOnSet(f, T) = f[i] + SumFunctionOnSet(f, T \ {i})
  BY <1>2, <1>3, <1>5, SumRemove
<1>8. T \ {i} \in SUBSET S
  BY <1>5
<1>9. SumFunctionOnSet(f, T \ {i}) \in Int
  BY <1>2, <1>3, <1>8, SumRemove
<1>10. SumFunctionOnSet(f, U) = SumFunctionOnSet(f, T) - (plan.pay[i].amt + plan.fee)
  <2>1. f[i] \in Int /\ f[i] = plan.pay[i].amt + plan.fee
    BY <1>3, <1>5
  <2> QED
    BY <1>6, <1>7, <1>9, <2>1
<1>11. Owing(plan, blk) = SumFunctionOnSet(f, T)
  BY Zenon DEF Owing, f, T
<1>12. Owing(plan, blk \cup {Transfer(plan, i)}) = SumFunctionOnSet(f, U)
  BY Zenon DEF Owing, f, U
<1> QED
  BY <1>10, <1>11, <1>12

\* A ledger answers one of these.
LEMMA VerdictIs ==
  ASSUME NEW tx
  PROVE  /\ Verdict(tx) \in Accepted \cup PlanRejected \cup RecipientRejected
         /\ Verdict(tx) = "Duplicate" => tx \in blocks
         /\ Verdict(tx) = "TooOld" => now - tx.born > LedgerWindow
         /\ Verdict(tx) = "Ok" => /\ tx \notin blocks /\ ~(now - tx.born > LedgerWindow)
                                  /\ tx.fee = fee /\ ~(tx.amt + tx.fee > balance[tx.root])
<1>1. CASE tx \in blocks
  BY <1>1 DEF Verdict, Accepted, PlanRejected, RecipientRejected
<1>2. CASE tx \notin blocks /\ now - tx.born > LedgerWindow
  BY <1>2 DEF Verdict, Accepted, PlanRejected, RecipientRejected
<1>3. CASE tx \notin blocks /\ ~(now - tx.born > LedgerWindow)
  BY <1>3 DEF Verdict, Accepted, PlanRejected, RecipientRejected
<1> QED
  BY <1>1, <1>2, <1>3

\* An executed transfer is one of the pinned plan, or nobody counts on the pot.
LEMMA ExecuteStep ==
  ASSUME IInv, NEW tx \in Txs, tx.born >= 1, FollowedTx(tx, st), Execute(tx)
  PROVE  /\ balance' \in [Roots -> Nat] /\ blocks' \in SUBSET Txs
         /\ blocks \subseteq blocks'
         /\ Verdict(tx) \in Accepted => tx \in blocks'
         /\ Covered(st, balance', blocks')
         /\ \A q \in Proc : ActOK(act[q], st, now, balance', blocks', dir, issued)
<1>1. /\ balance \in [Roots -> Nat] /\ blocks \in SUBSET Txs /\ st \in Stores
      /\ now \in Nat /\ act \in [Proc -> Activations]
      /\ StoreOK(st, now) /\ Covered(st, balance, blocks)
      /\ \A q \in Proc : ActOK(act[q], st, now, balance, blocks, dir, issued)
  BY DEF IInv, TypeOK, Stores
<1>2. CASE Verdict(tx) # "Ok"
  <2>1. balance' = balance /\ blocks' = blocks
    BY <1>2 DEF Execute
  <2>2. Verdict(tx) \in Accepted => tx \in blocks
    BY <1>2, VerdictIs DEF Accepted
  <2> QED
    BY <1>1, <2>1, <2>2
<1>3. CASE Verdict(tx) = "Ok"
  <2> DEFINE r == tx.root
             x == balance[r] - tx.amt - tx.fee
  <2>1. /\ blocks' = blocks \cup {tx} /\ balance' = [balance EXCEPT ![r] = x]
    BY <1>3 DEF Execute
  <2>2. /\ tx.root \in Roots /\ tx.amt \in Nat /\ tx.fee \in Nat /\ tx.born \in Nat
    BY DEF Txs
  <2>3. balance[r] \in Nat
    BY <1>1, <2>2
  <2>4. /\ tx \notin blocks /\ ~(now - tx.born > LedgerWindow)
        /\ ~(tx.amt + tx.fee > balance[tx.root])
    BY <1>3, VerdictIs
  <2>5. x \in Nat
    BY <2>2, <2>3, <2>4
  <2>6. balance' \in [Roots -> Nat] /\ blocks' \in SUBSET Txs /\ tx \in blocks'
    BY <1>1, <2>1, <2>2, <2>5
  <2>7. ASSUME tx.born <= st.last
        PROVE  /\ st.plan = NoPlan
               /\ \A q \in Proc : act[q].pc \in Reading => st.lock # act[q].expiry
    <3>1. st.last \in Nat
      BY <1>1 DEF Stores
    <3>2. ASSUME st.plan # NoPlan PROVE FALSE
      <4>1. SweepIsDue(st.last, st.plan.born) /\ st.plan.born \in Nat /\ st.plan.born <= now
        BY <1>1, <3>2 DEF StoreOK, PlanOK
      <4> QED
        BY <1>1, <2>2, <2>4, <2>7, <3>1, <4>1, OldIsDead
    <3>3. ASSUME NEW q \in Proc, act[q].pc \in Reading, st.lock = act[q].expiry PROVE FALSE
      <4>1. ActOK(act[q], st, now, balance, blocks, dir, issued)
        BY <1>1
      <4>2. /\ st.last = act[q].gen /\ SweepIsDue(act[q].gen, act[q].start)
            /\ act[q].start \in Nat /\ act[q].start <= now
        BY <3>3, <4>1 DEF ActOK, ReadOK, Reading
      <4> QED
        BY <1>1, <2>2, <2>4, <2>7, <3>1, <4>2, OldIsDead
    <3> QED
      BY <3>2, <3>3
  <2>8. ASSUME tx.born \in st.uncounted, NEW t \in Nat, t <= now
         PROVE  ~Settled(st, t)
    <3>1. LedgerWindow \in Nat
      BY RewardAssumption
    <3> QED
      BY <1>1, <2>2, <2>4, <2>8, <3>1 DEF Settled
  <2>9. \A q \in Proc : act[q].pc \in Reading =>
          st.lock # act[q].expiry \/ ~Settled(st, act[q].start)
    <3>1. CASE st.plan # NoPlan
      BY <1>1, <3>1 DEF ActOK, ReadOK
    <3>2. CASE tx.born <= st.last
      BY <2>7, <3>2
    <3>3. CASE tx.born \in st.uncounted
      BY <1>1, <2>8, <3>3 DEF ActOK, Reading
    <3> QED
      BY <3>1, <3>2, <3>3 DEF FollowedTx
  <2>10. ASSUME NEW q \in Proc
        PROVE  ActOK(act[q], st, now, balance', blocks', dir, issued)
    <3>1. ActOK(act[q], st, now, balance, blocks, dir, issued)
      BY <1>1
    <3>2. act[q].pc = "send" => SendOK(act[q], st, now, blocks')
      BY <2>1, <3>1 DEF ActOK, SendOK
    <3>3. act[q].pc \in Reading => ReadOK(act[q], st, balance')
      BY <2>9, <3>1 DEF ActOK, ReadOK
    <3> QED
      BY <3>1, <3>2, <3>3 DEF ActOK
  <2>11. Covered(st, balance', blocks')
    <3>1. CASE tx.born <= st.last
      BY <2>7, <3>1 DEF Covered
    <3>2. CASE tx.born \in st.uncounted
      <4>1. st.plan # NoPlan => st.plan.born \in Nat /\ st.plan.born <= now
        BY <1>1 DEF StoreOK, PlanOK
      <4> QED
        BY <2>8, <3>2, <4>1 DEF Covered
    <3>3. CASE st.plan # NoPlan /\ tx \in Transfers(st.plan) /\ Settled(st, st.plan.born)
      <4>1. PICK i \in DOMAIN st.plan.pay : tx = Transfer(st.plan, i)
        BY <3>3 DEF Transfers
      <4>2. st.plan \in Plans
        BY <1>1, <3>3 DEF Stores
      <4>3. Owing(st.plan, blocks') = Owing(st.plan, blocks) - (st.plan.pay[i].amt + st.plan.fee)
        BY <2>1, <2>4, <4>1, <4>2, OwingDrops
      <4>4. /\ tx.amt = st.plan.pay[i].amt /\ tx.fee = st.plan.fee /\ r = st.plan.root
        BY <4>1 DEF Transfer
      <4>5. Owing(st.plan, blocks) \in Nat
        BY <4>2, OwingFits DEF Plans
      <4>6. Owing(st.plan, blocks) <= balance[r]
        BY <1>1, <3>3, <4>4 DEF Covered
      <4>7. balance'[r] = x
        BY <1>1, <2>1, <2>2
      <4>8. Owing(st.plan, blocks) - (tx.amt + tx.fee) <= x
        BY <2>2, <2>3, <4>5, <4>6
      <4> HIDE DEF x, r
      <4> QED
        BY <4>3, <4>4, <4>7, <4>8 DEF Covered
    <3> QED
      BY <3>1, <3>3, <3>2 DEF FollowedTx, Covered
  <2> QED
    BY <2>1, <2>6, <2>10, <2>11
<1> QED
  BY <1>2, <1>3

\* The answer v to the request of p, whatever was executed for it.
LEMMA AnswerStep ==
  ASSUME IInv, NEW p \in Proc, act[p].pc = "send",
         NEW v \in Accepted \cup PlanRejected \cup RecipientRejected,
         act' = [act EXCEPT ![p].out = v],
         UNCHANGED <<now, st, fee, late, events, dvars>>,
         v = "TooOld" => now - act[p].sent.born > LedgerWindow,
         balance' \in [Roots -> Nat], blocks' \in SUBSET Txs,
         v \in Accepted => Request(act[p]) \in blocks',
         Covered(st, balance', blocks'),
         \A q \in Proc : ActOK(act[q], st, now, balance', blocks', dir, issued)
  PROVE  IInv'
<1> DEFINE b == [act[p] EXCEPT !.out = v]
<1>1. act' = [act EXCEPT ![p] = b]
  OBVIOUS
<1>2. act \in [Proc -> Activations]
  BY DEF IInv, TypeOK
<1>3. /\ b \in Activations /\ b.pc = "send" /\ b.sent = act[p].sent /\ b.ctx = act[p].ctx
      /\ b.start = act[p].start /\ b.expiry = act[p].expiry /\ b.out = v
  BY <1>2 DEF Activations
<1> HIDE DEF b
<1>4. Request(b) = Request(act[p])
  BY <1>3 DEF Request
<1>5. ActOK(b, st, now, balance', blocks', dir, issued)
  <2>1. ActOK(act[p], st, now, balance', blocks', dir, issued)
    OBVIOUS
  <2>2. SendOK(b, st, now, blocks')
    BY <1>3, <1>4, <2>1 DEF ActOK, SendOK
  <2> QED
    BY <1>3, <2>1, <2>2 DEF ActOK, Reading
<1>6. act' \in [Proc -> Activations]
  BY <1>1, <1>2, <1>3
<1>7. TypeOK'
  BY <1>6 DEF IInv, TypeOK, dvars
<1>8. LeaseInv'
  BY <1>1, <1>2, <1>3 DEF IInv, LeaseInv
<1>9. \A q \in Proc : ActOK(act'[q], st, now, balance', blocks', dir, issued)
  BY <1>1, <1>2, <1>5
<1> QED
  BY <1>7, <1>8, <1>9 DEF IInv, dvars

LEMMA LedgerTakesStep ==
  ASSUME IInv, NEW p \in Proc, LedgerTakes(p)
  PROVE  IInv'
<1> DEFINE tx == Request(act[p])
<1>1. act[p].pc = "send" /\ UNCHANGED <<now, st, fee, late, events, dvars>>
  BY DEF LedgerTakes
<1>2. CASE Execute(tx) /\ act' = [act EXCEPT ![p].out = Verdict(tx)]
  <2>1. Verdict(tx) \in Accepted \cup PlanRejected \cup RecipientRejected
    BY VerdictIs
  <2>2. Verdict(tx) = "TooOld" => now - act[p].sent.born > LedgerWindow
    BY <1>1, RequestIs, VerdictIs
  <2>3. /\ balance' \in [Roots -> Nat] /\ blocks' \in SUBSET Txs
        /\ Verdict(tx) \in Accepted => tx \in blocks'
        /\ Covered(st, balance', blocks')
        /\ \A q \in Proc : ActOK(act[q], st, now, balance', blocks', dir, issued)
    BY <1>1, <1>2, RequestIs, ExecuteStep
  <2> QED
    BY <1>1, <1>2, <2>1, <2>2, <2>3, AnswerStep
<1>3. CASE act' = [act EXCEPT ![p].out = "BadBurn"] /\ UNCHANGED <<blocks, balance>>
  <2>1. /\ balance \in [Roots -> Nat] /\ blocks \in SUBSET Txs
        /\ Covered(st, balance, blocks)
        /\ \A q \in Proc : ActOK(act[q], st, now, balance, blocks, dir, issued)
    BY DEF IInv, TypeOK
  <2>2. "BadBurn" \in RecipientRejected /\ "BadBurn" \notin Accepted
    BY DEF Accepted, RecipientRejected
  <2> QED
    BY <1>1, <1>3, <2>1, <2>2, AnswerStep
<1> QED
  BY <1>2, <1>3 DEF LedgerTakes

LEMMA LateRequestStep ==
  ASSUME IInv, NEW tx \in late, LateRequest(tx)
  PROVE  IInv'
<1>1. tx \in Txs /\ tx.born >= 1 /\ FollowedTx(tx, st)
  BY DEF IInv, TypeOK, LateOK
<1>2. Execute(tx) /\ late' = late \ {tx} /\ UNCHANGED <<now, st, act, fee, events, dvars>>
  BY DEF LateRequest
<1>3. /\ balance' \in [Roots -> Nat] /\ blocks' \in SUBSET Txs
      /\ Covered(st, balance', blocks')
      /\ \A q \in Proc : ActOK(act[q], st, now, balance', blocks', dir, issued)
  BY <1>1, <1>2, ExecuteStep
<1>4. TypeOK'
  BY <1>2, <1>3 DEF IInv, TypeOK, dvars
<1>5. LateOK(st, late')
  BY <1>2 DEF IInv, LateOK
<1> QED
  BY <1>2, <1>3, <1>4, <1>5 DEF IInv, LeaseInv, dvars

-----------------------------------------------------------------------------
(* Upgrades and the world.                                                   *)

LEMMA UpgradeStep ==
  ASSUME IInv, Upgrade
  PROVE  IInv'
<1> DEFINE s == [st EXCEPT !.lock = Unlocked]
           sent == {q \in Proc : act[q].pc = "send" /\ act[q].out = "none"}
<1>1. /\ st' = s /\ act' = [p \in Proc |-> Idle]
      /\ late' = late \cup {Request(act[p]) : p \in sent}
      /\ UNCHANGED <<now, balance, fee, blocks, dvars>>
  BY DEF Upgrade
<1>2. st \in Stores /\ StoreOK(st, now) /\ Covered(st, balance, blocks)
  BY DEF IInv, TypeOK, Stores
<1>3. s \in Stores /\ s.plan = st.plan /\ s.last = st.last /\ s.uncounted = st.uncounted
  BY <1>2 DEF Stores, Unlocked
<1> HIDE DEF s
<1>4. StoreOK(s, now) /\ Covered(s, balance, blocks) /\ Moved(s)
  BY <1>2, <1>3 DEF StoreOK, Covered, Moved, Settled
<1>5. late' \in SUBSET Txs /\ LateOK(st, late')
  <2>1. late \in SUBSET Txs /\ LateOK(st, late)
    BY DEF IInv, TypeOK
  <2>2. \A tx \in late' : tx \in late \/ \E p \in Proc : act[p].pc = "send" /\ tx = Request(act[p])
    BY <1>1
  <2>3. \A tx \in late' : tx \in Txs /\ tx.born >= 1 /\ FollowedTx(tx, st)
    BY <2>1, <2>2, RequestIs DEF LateOK
  <2> QED
    BY <2>3 DEF LateOK
<1>6. LateOK(s, late')
  BY <1>2, <1>3, <1>4, <1>5, FollowedTxOn DEF LateOK
<1>7. act' \in [Proc -> Activations] /\ \A p \in Proc : act'[p] = Idle
  BY <1>1, IdleFine
<1>8. TypeOK'
  BY <1>1, <1>3, <1>5, <1>7 DEF IInv, TypeOK, dvars, Stores
<1>9. LeaseInv'
  BY <1>7, IdleFine DEF LeaseInv
<1>10. \A p \in Proc : ActOK(act'[p], s, now, balance, blocks, dir, issued)
  BY <1>7, IdleFine
<1> QED
  BY <1>1, <1>4, <1>6, <1>8, <1>9, <1>10 DEF IInv, dvars

LEMMA RewardsArriveStep ==
  ASSUME IInv, RewardsArrive
  PROVE  IInv'
<1>1. /\ balance' = [r \in Roots |-> balance[r] + Amount]
      /\ UNCHANGED <<now, st, act, fee, blocks, late, dvars>>
  BY DEF RewardsArrive
<1>2. balance \in [Roots -> Nat] /\ Amount \in Nat /\ st \in Stores /\ act \in [Proc -> Activations]
  BY RewardAssumption DEF IInv, TypeOK, Stores
<1>3. balance' \in [Roots -> Nat] /\ \A r \in Roots : balance'[r] >= balance[r]
  BY <1>1, <1>2
<1>4. Covered(st, balance', blocks)
  <2> SUFFICES ASSUME st.plan # NoPlan, Settled(st, st.plan.born)
               PROVE  Owing(st.plan, blocks) <= balance'[st.plan.root]
    BY DEF Covered
  <2>1. st.plan \in Plans
    BY <1>2 DEF Stores
  <2>2. Owing(st.plan, blocks) \in Nat /\ st.plan.root \in Roots
    BY <2>1, OwingFits DEF Plans
  <2>3. Owing(st.plan, blocks) <= balance[st.plan.root]
    BY DEF IInv, Covered
  <2> QED
    BY <1>2, <1>3, <2>2, <2>3
<1>5. ASSUME NEW p \in Proc
      PROVE  ActOK(act[p], st, now, balance', blocks, dir, issued)
  <2>1. ActOK(act[p], st, now, balance, blocks, dir, issued) /\ act[p] \in Activations
    BY <1>2 DEF IInv
  <2>2. ASSUME act[p].pc \in Reading PROVE ReadOK(act[p], st, balance')
    <3>1. ReadOK(act[p], st, balance)
      BY <2>1, <2>2 DEF ActOK
    <3>2. act[p].ctx # NoDir => act[p].ctx.root \in Roots
      BY <2>1 DEF Activations, Dirs
    <3>3. act[p].bal \in Nat
      BY <2>1 DEF Activations
    <3>4. act[p].ctx # NoDir /\ act[p].bal <= balance[act[p].ctx.root] =>
            act[p].bal <= balance'[act[p].ctx.root]
      BY <1>2, <1>3, <3>2, <3>3
    <3> QED
      BY <3>1, <3>4 DEF ReadOK
  <2> QED
    BY <2>1, <2>2 DEF ActOK
<1>6. TypeOK'
  BY <1>1, <1>3 DEF IInv, TypeOK, dvars
<1> QED
  BY <1>1, <1>4, <1>5, <1>6 DEF IInv, LeaseInv, dvars

LEMMA FeeChangesStep ==
  ASSUME IInv, NEW f \in Fees, FeeChanges(f)
  PROVE  IInv'
<1>1. fee' = f /\ UNCHANGED <<now, st, act, balance, blocks, late, dvars>>
  BY DEF FeeChanges
<1> QED
  BY <1>1 DEF IInv, TypeOK, LeaseInv, dvars

LEMMA PublishedStep ==
  ASSUME IInv, NEW d \in Directories, DirectoryPublished(d[1], d[2])
  PROVE  IInv'
<1>1. /\ dir' = [id |-> issued + 1, root |-> d[1], owners |-> d[2],
                 started |-> now, completed |-> now]
      /\ issued' = issued + 1 /\ UNCHANGED <<now, st, act, ledgers>>
  BY DEF DirectoryPublished, Publish
<1>2. d[1] \in Roots /\ d[2] \in SUBSET Owners /\ now \in Nat /\ issued \in Nat
  BY RewardAssumption DEF IInv, TypeOK
<1>3. dir' \in Dirs /\ dir'.id = issued + 1 /\ issued' \in Nat
  BY <1>1, <1>2 DEF Dirs
<1>4. ASSUME NEW ctx \in Dirs \cup {NoDir}, NEW e, DirOK(ctx, e, issued)
      PROVE  DirOK(ctx, dir', issued')
  <2>1. ctx # NoDir => ctx.id \in Nat
    BY DEF Dirs
  <2> QED
    BY <1>1, <1>2, <1>3, <1>4, <2>1 DEF DirOK
<1>5. DirOK(dir', dir', issued')
  BY <1>1, <1>2, <1>3 DEF DirOK
<1>6. ASSUME NEW p \in Proc
      PROVE  ActOK(act[p], st, now, balance, blocks, dir', issued')
  <2>1. ActOK(act[p], st, now, balance, blocks, dir, issued) /\ act[p].ctx \in Dirs \cup {NoDir}
    BY DEF IInv, TypeOK, Activations
  <2> QED
    BY <1>4, <2>1 DEF ActOK
<1>7. TypeOK'
  BY <1>1, <1>3 DEF IInv, TypeOK, ledgers
<1> QED
  BY <1>1, <1>5, <1>6, <1>7 DEF IInv, LeaseInv, ledgers

LEMMA WithdrawnStep ==
  ASSUME IInv, DirectoryWithdrawn
  PROVE  IInv'
<1>1. dir' = NoDir /\ issued' = issued /\ UNCHANGED <<now, st, act, ledgers>>
  BY DEF DirectoryWithdrawn, Withdraw
<1>2. \A ctx, e : DirOK(ctx, e, issued) => DirOK(ctx, dir', issued)
  BY <1>1 DEF DirOK
<1>3. \A p \in Proc : ActOK(act[p], st, now, balance, blocks, dir', issued)
  BY <1>2 DEF IInv, ActOK
<1>4. DirOK(dir', dir', issued)
  BY <1>1 DEF DirOK
<1>5. TypeOK'
  BY <1>1 DEF IInv, TypeOK, ledgers
<1> QED
  BY <1>1, <1>3, <1>4, <1>5 DEF IInv, LeaseInv, ledgers

LEMMA PlanLater ==
  ASSUME NEW plan, NEW n \in Nat, PlanOK(plan, n)
  PROVE  PlanOK(plan, n + 1)
  BY DEF PlanOK

LEMMA AdvanceStep ==
  ASSUME IInv, Advance
  PROVE  IInv'
<1>1. now' = now + 1 /\ UNCHANGED <<st, act, ledgers, events, dvars>>
  BY DEF Advance
<1>2. now \in Nat \ {0} /\ st \in Stores
  BY DEF IInv, TypeOK, Stores
<1>3. StoreOK(st, now')
  <2>1. st.last \in Nat
    BY <1>2 DEF Stores
  <2> QED
    BY <1>1, <1>2, <2>1, PlanLater DEF IInv, StoreOK
<1>4. ASSUME NEW p \in Proc
      PROVE  ActOK(act[p], st, now', balance, blocks, dir, issued)
  <2>1. ActOK(act[p], st, now, balance, blocks, dir, issued) /\ act[p] \in Activations
    BY DEF IInv, TypeOK
  <2>2. act[p].start \in Nat /\ act[p].expiry \in Nat
    BY <2>1 DEF Activations
  <2>3. ASSUME act[p].pc = "send" PROVE SendOK(act[p], st, now', blocks)
    <3>1. SendOK(act[p], st, now, blocks)
      BY <2>1, <2>3 DEF ActOK
    <3>2. PlanOK(act[p].sent, now') /\ act[p].sent.born \in Nat
      BY <1>1, <1>2, <3>1, PlanLater DEF SendOK, PlanOK
    <3>3. now - act[p].sent.born > LedgerWindow => now' - act[p].sent.born > LedgerWindow
      BY <1>1, <1>2, <3>2, RewardAssumption, SMTT(30)
    <3> QED
      BY <3>1, <3>2, <3>3 DEF SendOK
  <2>4. act[p].pc # "idle" => /\ act[p].start \in 1 .. now' /\ act[p].expiry > 0
                              /\ st.lock = act[p].expiry \/ act[p].expiry <= now'
    BY <1>1, <1>2, <2>1, <2>2 DEF ActOK
  <2> QED
    BY <2>1, <2>3, <2>4 DEF ActOK
<1>5. TypeOK'
  BY <1>1, <1>2 DEF IInv, TypeOK, ledgers, dvars
<1> QED
  BY <1>1, <1>3, <1>4, <1>5 DEF IInv, LeaseInv, ledgers, dvars

-----------------------------------------------------------------------------
(* The theorems.                                                             *)

LEMMA InitEstablishes == Init => IInv
<1> SUFFICES ASSUME Init PROVE IInv
  OBVIOUS
<1>1. /\ now = 1 /\ st = [plan |-> NoPlan, last |-> 0, lock |-> Unlocked, uncounted |-> {}]
      /\ act = [p \in Proc |-> Idle] /\ balance = [r \in Roots |-> Amount]
      /\ fee = Min(Fees) /\ blocks = {} /\ late = {} /\ issued = 1
  BY DEF Init
<1>2. PICK d \in Directories :
        dir = [id |-> 1, root |-> d[1], owners |-> d[2], started |-> 1, completed |-> 1]
  BY DEF Init
<1>3. d[1] \in Roots /\ d[2] \in SUBSET Owners
  BY RewardAssumption
<1>4. dir \in Dirs /\ dir.id = 1
  BY <1>2, <1>3 DEF Dirs
<1>5. fee \in Fees
  BY <1>1, MinIn, RewardAssumption
<1>6. balance \in [Roots -> Nat]
  BY <1>1, RewardAssumption
<1>7. st \in Stores /\ st.plan = NoPlan /\ st.last = 0
  BY <1>1 DEF Stores, Unlocked
<1>8. act \in [Proc -> Activations] /\ \A p \in Proc : act[p] = Idle
  BY <1>1, IdleFine
<1>9. TypeOK
  BY <1>1, <1>4, <1>5, <1>6, <1>7, <1>8 DEF TypeOK, Stores
<1>10. LeaseInv /\ \A p \in Proc : ActOK(act[p], st, now, balance, blocks, dir, issued)
  BY <1>8, IdleFine DEF LeaseInv
<1>11. StoreOK(st, now) /\ LateOK(st, late) /\ Covered(st, balance, blocks)
  BY <1>1, <1>7 DEF StoreOK, LateOK, Covered
<1>12. DirOK(dir, dir, issued)
  BY <1>1, <1>4 DEF DirOK
<1> QED
  BY <1>9, <1>10, <1>11, <1>12 DEF IInv

LEMMA StutterKeeps == IInv /\ UNCHANGED vars => IInv'
  BY DEF IInv, TypeOK, LeaseInv, vars, ledgers, dvars

LEMMA NextKeeps == IInv /\ [Next]_vars => IInv'
<1> SUFFICES ASSUME IInv, [Next]_vars PROVE IInv'
  OBVIOUS
<1>1. CASE UNCHANGED vars
  BY <1>1, StutterKeeps
<1>2. ASSUME NEW p \in Proc,
             \/ TickBegins(p) \/ TickEnds(p) \/ Process(p) \/ NextSlice(p)
             \/ AdjudicationFails(p)
             \/ ContextReply(p) \/ BalanceReply(p) \/ FeeReply(p) \/ HistoryReply(p)
             \/ OwnerReply(p) \/ LedgerTakes(p) \/ SendReply(p) \/ SendUnknown(p)
             \/ SendFenced(p)
      PROVE  IInv'
  BY <1>2, TickBeginsStep, TickEndsStep, ProcessStep, NextSliceStep,
     AdjudicationFailsStep, ContextStep, BalanceStep, FeeStep,
     HistoryStep, OwnerStep, LedgerTakesStep, SendReplyStep, SendUnknownStep,
     SendFencedStep
<1>3. ASSUME NEW tx \in late, LateRequest(tx) PROVE IInv'
  BY <1>3, LateRequestStep
<1>4. CASE Upgrade
  BY <1>4, UpgradeStep
<1>5. CASE RewardsArrive
  BY <1>5, RewardsArriveStep
<1>6. ASSUME NEW f \in Fees, FeeChanges(f) PROVE IInv'
  BY <1>6, FeeChangesStep
<1>7. ASSUME NEW d \in Directories, DirectoryPublished(d[1], d[2]) PROVE IInv'
  BY <1>7, PublishedStep
<1>8. CASE DirectoryWithdrawn
  BY <1>8, WithdrawnStep
<1>9. CASE Advance
  BY <1>9, AdvanceStep
<1> QED
  BY <1>1, <1>2, <1>3, <1>4, <1>5, <1>6, <1>7, <1>8, <1>9 DEF Next

\* The inductive invariant holds throughout: a sweep that is adjudicated or a
\* plan that is driven under the lease finds the store as it left it, whatever
\* upgrades, superseded activations and late requests do in between.
THEOREM SweepIsSafe == Spec => []IInv
<1>1. Init => IInv
  BY InitEstablishes
<1>2. IInv /\ [Next]_vars => IInv'
  BY NextKeeps
<1> QED
  BY <1>1, <1>2, PTL DEF Spec

\* Types: no amount is negative and no pot is overdrawn.
THEOREM TypesHold == Spec => []TypeOK
<1>1. IInv => TypeOK
  BY DEF IInv
<1> QED
  BY <1>1, SweepIsSafe, PTL

\* The pot covers what is left of the pinned plan, for every commitment,
\* directory, fee and interleaving: rounding never promises more than the pot
\* that was read, and nothing else takes from the pot while the plan is driven,
\* except a plan completed uncounted whose requests may still be on their way.
THEOREM PotIsCovered == Spec => []PotCovers
<1>1. IInv => PotCovers
  BY DEF IInv, Covered, Owing, PotCovers, Settled
<1> QED
  BY <1>1, SweepIsSafe, PTL

\* No request of an older plan can still be executed while a plan is pinned,
\* unless the older plan was completed uncounted.
THEOREM OldRequestsAreDead == Spec => []OldRequestsDead
<1>1. IInv => OldRequestsDead
  <2> SUFFICES ASSUME IInv, st.plan # NoPlan,
                      NEW tx \in late \cup {Request(act[p]) : p \in {q \in Proc :
                                              act[q].pc = "send" /\ act[q].out = "none"}}
               PROVE  \/ tx \in Transfers(st.plan) \/ now - tx.born > LedgerWindow
                      \/ tx.born \in st.uncounted
    BY DEF OldRequestsDead
  <2>1. tx \in Txs /\ tx.born >= 1 /\ FollowedTx(tx, st)
    <3>1. CASE tx \in late
      BY <3>1 DEF IInv, TypeOK, LateOK
    <3>2. ASSUME NEW p \in Proc, act[p].pc = "send", tx = Request(act[p])
          PROVE  tx \in Txs /\ tx.born >= 1 /\ FollowedTx(tx, st)
      BY <3>2, RequestIs
    <3> QED
      BY <3>1, <3>2
  <2>2. CASE tx.born <= st.last
    <3>1. /\ now \in Nat /\ st.last \in Nat /\ tx.born \in Nat
      BY <2>1 DEF IInv, TypeOK, Txs
    <3>2. SweepIsDue(st.last, st.plan.born) /\ st.plan.born \in Nat /\ st.plan.born <= now
      BY DEF IInv, StoreOK, PlanOK
    <3> QED
      BY <2>1, <2>2, <3>1, <3>2, OldIsDead
  <2> QED
    BY <2>1, <2>2 DEF FollowedTx
<1> QED
  BY <1>1, SweepIsSafe, PTL

\* Every recipient of a pinned plan was an owner in one directory, that of the
\* SNS it pays in.
THEOREM PlanIsFromOneDirectory == Spec => []PlanFromOneDirectory
<1>1. IInv => PlanFromOneDirectory
  BY DEF IInv, StoreOK, PlanOK, PlanFromOneDirectory
<1> QED
  BY <1>1, SweepIsSafe, PTL

-----------------------------------------------------------------------------
(* Nobody is skipped.                                                        *)

LEMMA KeptPlan ==
  ASSUME st'.plan = st.plan
  PROVE  SkipsNobody
  BY DEF SkipsNobody

LEMMA OldPlan ==
  ASSUME st'.plan = NoPlan \/ st'.plan = [st.plan EXCEPT !.next = st'.plan.next],
         now - st.plan.born > Window
  PROVE  SkipsNobody
  BY DEF SkipsNobody

\* Where a step leaves the plan of the store it goes on with.
LEMMA EndPlan ==
  ASSUME NEW p, NEW s \in Stores, End(p, s)
  PROVE  st'.plan = s.plan
  BY DEF End, Stores

LEMMA HoldPlan ==
  ASSUME NEW p, NEW a, NEW s \in Stores, Hold(p, a, s)
  PROVE  st'.plan = s.plan
  BY EndPlan DEF Hold, Await

LEMMA DrivePlan ==
  ASSUME IInv, NEW p, NEW a, a.start \in Nat, NEW s \in Stores, Drive(p, a, s)
  PROVE  \/ st'.plan = s.plan
         \/ /\ s.plan # NoPlan /\ Expired(s.plan, a.start)
            /\ st'.plan = NoPlan \/ st'.plan = [s.plan EXCEPT !.next = st'.plan.next]
<1> DEFINE d == [s EXCEPT !.plan = NoPlan]
<1>0. st.plan # NoPlan => st.plan.born \in Nat
  BY DEF IInv, TypeOK, Plans
<1>1. CASE s.plan = NoPlan /\ End(p, CadenceUsed(s, a.start))
  <2>1. CadenceUsed(s, a.start) \in Stores /\ CadenceUsed(s, a.start).plan = s.plan
    BY CadenceIs
  <2> QED
    BY <1>1, <2>1, EndPlan
<1>2. CASE s.plan = NoPlan /\ st.plan # NoPlan /\ End(p, Uncounted(s, st.plan.born))
  <2>1. Uncounted(s, st.plan.born) \in Stores /\ Uncounted(s, st.plan.born).plan = NoPlan
    BY <1>0, <1>2, UncountedIs
  <2> QED
    BY <1>2, <2>1, EndPlan
<1>3. CASE s.plan # NoPlan /\ Expired(s.plan, a.start) /\ End(p, CadenceUsed(d, a.start))
  <2>1. d \in Stores /\ d.plan = NoPlan
    BY WithoutPlan
  <2> HIDE DEF d
  <2>2. CadenceUsed(d, a.start) \in Stores /\ CadenceUsed(d, a.start).plan = NoPlan
    BY <2>1, CadenceIs
  <2> QED
    BY <1>3, <2>2, EndPlan
<1>4. CASE s.plan # NoPlan /\ Expired(s.plan, a.start) /\ End(p, Uncounted(s, s.plan.born))
  <2>1. s.plan.born \in Nat
    BY <1>4 DEF Stores, Plans
  <2>2. Uncounted(s, s.plan.born) \in Stores /\ Uncounted(s, s.plan.born).plan = NoPlan
    BY <2>1, UncountedIs
  <2> QED
    BY <1>4, <2>2, EndPlan
<1>5. ASSUME s.plan # NoPlan, Expired(s.plan, a.start),
             NEW i \in s.plan.next .. Len(s.plan.pay),
             Hold(p, a, [s EXCEPT !.plan.next = i])
      PROVE  st'.plan = [s.plan EXCEPT !.next = st'.plan.next]
  <2> DEFINE n == [s.plan EXCEPT !.next = i]
             u == [s EXCEPT !.plan = n]
  <2>1. s.plan \in Plans /\ i \in Nat
    BY <1>5 DEF Stores, Plans
  <2>2. n \in Plans /\ n.next = i /\ n = [s.plan EXCEPT !.next = i]
    BY <2>1 DEF Plans
  <2> HIDE DEF n
  <2>3. u \in Stores /\ u.plan = n
    BY <2>2 DEF Stores
  <2>4. Hold(p, a, u)
    BY <1>5 DEF n
  <2> HIDE DEF u
  <2>5. st'.plan = n
    BY <2>3, <2>4, HoldPlan
  <2> QED
    BY <2>2, <2>5
<1>6. CASE Send(p, a, s, FALSE)
  BY <1>6 DEF Send, Await
<1>7. CASE Hold(p, a, s)
  BY <1>7, HoldPlan
<1> QED
  BY <1>1, <1>2, <1>3, <1>4, <1>5, <1>6, <1>7, Zenon DEF Drive, d

\* A plan that is too old at the start of a slice is too old now.
LEMMA ExpiredNow ==
  ASSUME NEW born \in Nat, NEW start \in Nat, now \in Nat, start <= now,
         start - born > Window
  PROVE  now - born > Window
  BY RewardAssumption

\* p advanced the plan after an answer or after its second attempt.
LEMMA AdvanceSkipsNobody ==
  ASSUME IInv, NEW p \in Proc, act[p].pc = "send", Current(p), st.plan = act[p].sent,
         Drive(p, act[p], Advanced(st)),
         \/ Transfer(st.plan, st.plan.next) \in blocks
         \/ now - st.plan.born > Window
         \/ act[p].second \/ act[p].out = "BadBurn"
  PROVE  SkipsNobody
<1> DEFINE a == act[p]
           s == Advanced(st)
<1>1. /\ st.plan \in Plans /\ st.plan # NoPlan /\ st.plan.born \in Nat
      /\ st.plan.next \in Nat /\ Len(st.plan.pay) \in Nat
      /\ a.start \in Nat /\ a.start <= now /\ now \in Nat
  <2>1. st.plan \in Plans /\ st.plan # NoPlan
    BY DEF IInv, TypeOK, Activations, ActOK, SendOK
  <2>2. a.start \in Nat /\ a.start <= now /\ now \in Nat
    BY DEF IInv, TypeOK, Activations, ActOK
  <2> QED
    BY <2>1, <2>2 DEF Plans
<1>2. s \in Stores
  BY <1>1, AdvancedStep
<1>3. \/ st.plan.next = Len(st.plan.pay) /\ s.plan = NoPlan
      \/ st.plan.next # Len(st.plan.pay)
         /\ s.plan = [st.plan EXCEPT !.next = st.plan.next + 1]
  BY DEF Advanced, IInv, TypeOK
<1>4. \/ st'.plan = s.plan
      \/ /\ s.plan # NoPlan /\ Expired(s.plan, a.start)
         /\ st'.plan = NoPlan \/ st'.plan = [s.plan EXCEPT !.next = st'.plan.next]
  BY <1>1, <1>2, DrivePlan
<1>5. CASE /\ s.plan # NoPlan /\ Expired(s.plan, a.start)
           /\ st'.plan = NoPlan \/ st'.plan = [s.plan EXCEPT !.next = st'.plan.next]
  <2>1. s.plan.born = st.plan.born /\ s.plan = [st.plan EXCEPT !.next = st.plan.next + 1]
    BY <1>1, <1>3, <1>5 DEF Plans
  <2>2. \A m : [s.plan EXCEPT !.next = m] = [st.plan EXCEPT !.next = m]
    BY <1>1, <2>1 DEF Plans
  <2>3. now - st.plan.born > Window
    BY <1>1, <1>5, <2>1, ExpiredNow DEF Expired
  <2> QED
    BY <1>5, <2>3, <2>2, OldPlan
<1>6. CASE st'.plan = s.plan
  <2> DEFINE n == st.plan.next
             m == IF st'.plan = NoPlan THEN Len(st.plan.pay) + 1 ELSE st'.plan.next
  <2>1. m = n + 1 /\ (st'.plan # NoPlan => st'.plan = [st.plan EXCEPT !.next = m])
    <3>1. CASE st.plan.next = Len(st.plan.pay) /\ s.plan = NoPlan
      BY <1>1, <1>6, <3>1
    <3>2. CASE s.plan = [st.plan EXCEPT !.next = n + 1]
      <4> DEFINE k == st.plan.next + 1
      <4>3. k \in Nat
        BY <1>1
      <4> HIDE DEF k
      <4>4. [st.plan EXCEPT !.next = k] \in Plans /\ [st.plan EXCEPT !.next = k].next = k
        BY <1>1, <4>3 DEF Plans
      <4>1. s.plan \in Plans /\ s.plan.next = n + 1
        BY <3>2, <4>4 DEF k
      <4>2. s.plan # NoPlan
        BY <4>1, NoneAssumption
      <4> QED
        BY <1>6, <3>2, <4>1, <4>2
    <3> QED
      BY <1>3, <3>1, <3>2
  <2> HIDE DEF m
  <2>2. \A i \in n .. m - 1 : i = n
    BY <1>1, <2>1
  <2>3. p \in {q \in Proc : act[q].pc = "send" /\ act[q].sent = st.plan}
    OBVIOUS
  <2> QED
    BY <2>1, <2>2, <2>3, Zenon DEF SkipsNobody, m
<1> QED
  BY <1>4, <1>5, <1>6

LEMMA NextSkipsNobody == IInv /\ [Next]_vars => SkipsNobody
<1> SUFFICES ASSUME IInv, [Next]_vars, st.plan # NoPlan PROVE SkipsNobody
  BY DEF SkipsNobody
<1>1. /\ st \in Stores /\ now \in Nat /\ act \in [Proc -> Activations]
      /\ st.plan.born \in Nat
  BY DEF IInv, TypeOK, Stores, Plans
<1>2. CASE UNCHANGED st
  BY <1>2, KeptPlan
<1>3. ASSUME NEW p \in Proc, TickBegins(p) PROVE SkipsNobody
  <2> DEFINE e == LeaseExpiry(now, Lease)
  <2>1. st' = [st EXCEPT !.lock = e]
    BY <1>3 DEF TickBegins, Await
  <2> HIDE DEF e
  <2> QED
    BY <1>1, <2>1, KeptPlan DEF Stores
<1>4. ASSUME NEW p \in Proc, TickEnds(p) PROVE SkipsNobody
  BY <1>1, <1>4, EndPlan, KeptPlan DEF TickEnds
<1>5. ASSUME NEW p \in Proc, NEW a, a.start = now, Drive(p, a, st) PROVE SkipsNobody
  <2>1. \/ st'.plan = st.plan
        \/ /\ Expired(st.plan, now)
           /\ st'.plan = NoPlan \/ st'.plan = [st.plan EXCEPT !.next = st'.plan.next]
    BY <1>1, <1>5, DrivePlan
  <2> QED
    BY <2>1, KeptPlan, OldPlan DEF Expired
<1>6. ASSUME NEW p \in Proc, Process(p) PROVE SkipsNobody
  <2> DEFINE a == Begun(act[p], now)
  <2>1. Drive(p, a, st)
    BY <1>6, Zenon DEF Process, Begun
  <2>2. a.start = now
    BY <1>1, BegunIs
  <2> HIDE DEF a
  <2> QED
    BY <1>5, <2>1, <2>2
<1>7. ASSUME NEW p \in Proc, NextSlice(p) PROVE SkipsNobody
  <2> DEFINE k == IF st.plan = NoPlan THEN 0 ELSE st.plan.next
             a == Sliced(act[p], now, No, k)
  <2>1. End(p, st) \/ Drive(p, a, st)
    BY <1>7, Zenon DEF NextSlice, Sliced, No
  <2>2. a.start = now
    BY <1>1 DEF Sliced, Activations
  <2> HIDE DEF a
  <2>3. CASE End(p, st)
    BY <1>1, <2>3, EndPlan, KeptPlan
  <2>4. CASE Drive(p, a, st)
    BY <1>5, <2>2, <2>4
  <2> QED
    BY <2>1, <2>3, <2>4
<1>8. ASSUME NEW p \in Proc, AdjudicationFails(p) PROVE SkipsNobody
  BY <1>1, <1>8, EndPlan, KeptPlan DEF AdjudicationFails
<1>9. ASSUME NEW p \in Proc, act[p].pc \in Reading, Current(p) PROVE FALSE
  BY <1>9 DEF IInv, ActOK, ReadOK, Current
<1>10. ASSUME NEW p \in Proc,
             \/ ContextReply(p) \/ BalanceReply(p) \/ FeeReply(p) \/ HistoryReply(p)
             \/ OwnerReply(p)
      PROVE  SkipsNobody
  <2>1. act[p].pc \in Reading /\ Current(p)
    BY <1>10 DEF ContextReply, BalanceReply, FeeReply, HistoryReply, OwnerReply, Live, Reading
  <2> QED
    BY <1>9, <2>1
<1>11. ASSUME NEW p \in Proc, LedgerTakes(p) PROVE SkipsNobody
  BY <1>11, KeptPlan DEF LedgerTakes
<1>12. ASSUME NEW p \in Proc, SendReply(p) PROVE SkipsNobody
  <2>1. act[p].pc = "send" /\ Current(p) /\ st.plan = act[p].sent
    BY <1>12 DEF SendReply, Live
  <2>2. SendOK(act[p], st, now, blocks)
    BY <2>1 DEF IInv, ActOK
  <2>3. CASE act[p].out \in Accepted \cup RecipientRejected /\ Drive(p, act[p], Advanced(st))
    <3>1. act[p].out \in Accepted => Transfer(st.plan, st.plan.next) \in blocks
      BY <2>1, <2>2 DEF SendOK, Request
    <3>2. act[p].out = "TooOld" => now - st.plan.born > Window
      BY <1>1, <2>1, <2>2, RewardAssumption DEF SendOK
    <3> QED
      BY <2>1, <2>3, <3>1, <3>2, AdvanceSkipsNobody DEF RecipientRejected
  <2>4. CASE /\ act[p].out \in PlanRejected
             /\ End(p, CadenceUsed([st EXCEPT !.plan = NoPlan], act[p].start))
    <3> DEFINE d == [st EXCEPT !.plan = NoPlan]
    <3>1. d \in Stores /\ d.plan = NoPlan /\ act[p].start \in Nat
      BY <1>1 DEF Stores, Activations
    <3> HIDE DEF d
    <3>2. CadenceUsed(d, act[p].start) \in Stores /\ CadenceUsed(d, act[p].start).plan = NoPlan
      BY <3>1, CadenceIs
    <3>3. st'.plan = NoPlan
      BY <2>4, <3>2, EndPlan DEF d
    <3> QED
      BY <2>1, <2>4, <3>3 DEF SkipsNobody
  <2> QED
    BY <1>12, <2>3, <2>4, Zenon DEF SendReply
<1>13. ASSUME NEW p \in Proc, SendUnknown(p) PROVE SkipsNobody
  <2>1. act[p].pc = "send" /\ Current(p) /\ st.plan = act[p].sent
    BY <1>13 DEF SendUnknown, Live
  <2>2. CASE Send(p, act[p], st, TRUE)
    BY <2>2, KeptPlan DEF Send, Await
  <2>3. CASE Hold(p, act[p], st)
    BY <1>1, <2>3, HoldPlan, KeptPlan
  <2>4. CASE act[p].second /\ Drive(p, act[p], Advanced(st))
    BY <2>1, <2>4, AdvanceSkipsNobody
  <2> QED
    BY <1>13, <2>2, <2>3, <2>4, Zenon DEF SendUnknown
<1>14. ASSUME NEW p \in Proc, SendFenced(p) PROVE SkipsNobody
  BY <1>1, <1>14, HoldPlan, KeptPlan DEF SendFenced
<1>15. CASE Upgrade
  BY <1>1, <1>15, KeptPlan DEF Upgrade, Stores
<1> QED
  BY <1>2, <1>3, <1>4, <1>6, <1>7, <1>8, <1>10, <1>11, <1>12, <1>13, <1>14, <1>15
     DEF Next, vars, LateRequest, RewardsArrive, FeeChanges, DirectoryPublished,
         DirectoryWithdrawn, Advance

\* A recipient is left behind only for a reason, and a plan is never replaced:
\* for every lease, window and number of activations.
THEOREM NobodyIsSkipped == Spec => NobodySkipped
<1>1. IInv /\ [Next]_vars => [SkipsNobody]_vars
  BY NextSkipsNobody
<1> QED
  BY <1>1, SweepIsSafe, PTL DEF Spec, NobodySkipped
=============================================================================

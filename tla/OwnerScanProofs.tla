-------------------------- MODULE OwnerScanProofs --------------------------
(* Theorems about the owner scan for every number of ticks, neurons, roots   *)
(* and owners, every page size, lease length and interval.                   *)
EXTENDS OwnerScan, FiniteSetTheorems, NaturalsInduction, TLAPS

(* Least and greatest elements.                                              *)

\* The order of the natural numbers, as a relation.
Less == {x \in Nat \X Nat : x[1] < x[2]}

LEMMA LeastExists ==
  ASSUME NEW S \in SUBSET Nat, S # {}
  PROVE  \E x \in S : \A y \in S : x <= y
<1>1. OpToRel(<, Nat) = Less
  BY DEF OpToRel, Less
<1>2. IsWellFoundedOn(Less, Nat)
  BY <1>1, NatLessThanWellFounded
<1>3. S \subseteq Nat
  OBVIOUS
<1>4. PICK x \in S : \A y \in S : ~(<<y, x>> \in Less)
  BY <1>2, <1>3, WFMin
<1>5. \A y \in S : ~(y < x)
  BY <1>3, <1>4 DEF Less
<1>6. \A y \in S : x <= y
  <2> TAKE y \in S
  <2>1. x \in Nat /\ y \in Nat /\ ~(y < x)
    BY <1>3, <1>5
  <2> QED
    BY <2>1
<1> QED
  BY <1>6

LEMMA GreatestExists ==
  ASSUME NEW S \in SUBSET Nat, S # {}, IsFiniteSet(S)
  PROVE  \E x \in S : \A y \in S : x >= y
<1> DEFINE HasMax(T) == \E x \in T : \A y \in T : x >= y
<1> DEFINE Bad == {T \in SUBSET S : T # {} /\ ~HasMax(T)}
<1>1. SUFFICES ASSUME Bad # {} PROVE FALSE
  OBVIOUS
<1>2. IsWellFoundedOn(StrictSubsetOrdering(S), SUBSET S)
  BY FS_StrictSubsetOrderingWellFounded, FS_FiniteSubsetsOfFinite
<1>3. Bad \subseteq SUBSET S
  OBVIOUS
<1> HIDE DEF Bad
<1>4. PICK T \in Bad : \A U \in Bad : ~(<<U, T>> \in StrictSubsetOrdering(S))
  BY <1>1, <1>2, <1>3, WFMin
<1>5. T \subseteq S /\ T # {} /\ ~HasMax(T)
  BY <1>4 DEF Bad
<1>6. PICK x \in T : TRUE
  BY <1>5
<1> DEFINE U == T \ {x}
<1>7. U \subseteq S /\ <<U, T>> \in StrictSubsetOrdering(S)
  BY <1>5, <1>6 DEF StrictSubsetOrdering
<1>8. U \notin Bad
  BY <1>4, <1>7
<1>9. CASE U = {}
  <2>1. T = {x}
    BY <1>9, <1>6
  <2> QED
    BY <2>1, <1>5
<1>10. CASE U # {}
  <2>1. HasMax(U)
    BY <1>8, <1>7, <1>10 DEF Bad
  <2>2. PICK m \in U : \A y \in U : m >= y
    BY <2>1
  <2>3. x \in Nat /\ m \in Nat /\ m \in T /\ \A y \in T : y \in U \/ y = x
    BY <1>5, <1>6, <2>2
  <2>4. CASE m >= x
    BY <2>2, <2>3, <2>4, <1>5
  <2>5. CASE ~(m >= x)
    <3>1. \A y \in T : x >= y
      <4> TAKE y \in T
      <4>1. y \in Nat
        BY <1>5
      <4> QED
        BY <4>1, <2>2, <2>3, <2>5
    <3> QED
      BY <3>1, <1>5, <1>6
  <2> QED
    BY <2>4, <2>5
<1> QED
  BY <1>9, <1>10

\* Max of the last page's ids is one of them, and no id is greater.
LEMMA MaxIsGreatest ==
  ASSUME NEW S \in SUBSET Nat, S # {}, IsFiniteSet(S)
  PROVE  Max(S) \in S /\ \A y \in S : Max(S) >= y
  BY GreatestExists DEF Max

LEMMA MinIsMember ==
  ASSUME NEW S \in SUBSET Nat, S # {}
  PROVE  Min(S) \in S
  BY LeastExists DEF Min

(* Owners.                                                                   *)

\* The image of a finite set of pairs under the choice of one component.
LEMMA ComponentsFinite ==
  ASSUME NEW S, IsFiniteSet(S)
  PROVE  IsFiniteSet({e[1] : e \in S}) /\ IsFiniteSet({e[2] : e \in S})
<1>1. [e \in S |-> e[1]] \in Surjection(S, {e[1] : e \in S})
  BY DEF Surjection
<1>2. [e \in S |-> e[2]] \in Surjection(S, {e[2] : e \in S})
  BY DEF Surjection
<1> QED
  BY <1>1, <1>2, FS_Surjection

\* select_owner returns one of the principals that have a permission.
LEMMA SelectOwnerTyped ==
  ASSUME NEW k \in Kinds
  PROVE  SelectOwner(k.perms) \in {e[1] : e \in k.perms} \cup {NoOwner}
<1> DEFINE perms == k.perms
           ps == {e[1] : e \in perms}
           size(p) == Cardinality(TypesOf(perms, p))
           best == {p \in ps : \A q \in ps : size(q) <= size(p)}
           sizes == {size(p) : p \in ps}
<1>1. /\ perms \subseteq Nat \X SUBSET Nat /\ IsFiniteSet(perms)
      /\ \A e \in perms : IsFiniteSet(e[2])
  BY KindAssumption
<1>2. ps \subseteq Nat /\ IsFiniteSet(ps)
  <2>1. IsFiniteSet(ps)
    BY <1>1, ComponentsFinite
  <2>2. ps \subseteq Nat
    BY <1>1
  <2> QED
    BY <2>1, <2>2
<1>3. \A p \in ps : size(p) \in Nat
  <2> TAKE p \in ps
  <2> DEFINE own == {x \in perms : x[1] = p}
  <2>1. IsFiniteSet(own)
    BY <1>1, FS_Subset
  <2>2. IsFiniteSet({e[2] : e \in own})
    BY <2>1, ComponentsFinite
  <2>3. \A T \in {e[2] : e \in own} : IsFiniteSet(T)
    BY <1>1
  <2>4. IsFiniteSet(TypesOf(perms, p))
    BY <2>2, <2>3, FS_UNION DEF TypesOf
  <2> QED
    BY <2>4, FS_CardinalityType
<1>4. CASE ps = {}
  BY <1>4 DEF SelectOwner
<1>5. CASE ps # {}
  <2>1. sizes \in SUBSET Nat /\ sizes # {}
    BY <1>3, <1>5
  <2>2. IsFiniteSet(sizes)
    <3>1. [p \in ps |-> size(p)] \in Surjection(ps, sizes)
      BY DEF Surjection
    <3> QED
      BY <3>1, <1>2, FS_Surjection
  <2>3. PICK m \in sizes : \A y \in sizes : m >= y
    BY <2>1, <2>2, GreatestExists
  <2>4. PICK p \in ps : m = size(p)
    BY <2>3
  <2>5. \A q \in ps : size(q) <= size(p)
    <3> TAKE q \in ps
    <3>1. size(q) \in sizes
      OBVIOUS
    <3>2. size(p) >= size(q)
      BY <2>3, <2>4, <3>1
    <3> QED
      BY <3>2, <1>3
  <2>6. best # {}
    BY <2>4, <2>5
  <2>7. Min(best) \in best
    BY <2>6, <1>2, MinIsMember
  <2> QED
    BY <2>7, <1>5 DEF SelectOwner
<1> QED
  BY <1>4, <1>5

LEMMA OwnerTyped ==
  ASSUME NEW k \in Kinds
  PROVE  OwnerForNeuron(k) \in Owners \cup {NoOwner}
  BY SelectOwnerTyped DEF OwnerForNeuron, Owners

-----------------------------------------------------------------------------
(* The inductive invariant.                                                  *)

\* Leases of ticks in flight differ, and all but the newest have expired.
LeaseInv ==
  \A t \in Ticks : act[t] # Idle =>
    /\ act[t].expiry > 0
    /\ act[t].expiry = lock \/ act[t].expiry <= now
    /\ \A u \in Ticks : u # t /\ act[u] # Idle => act[u].expiry # act[t].expiry

\* What a tick that still holds the lease read before its call is unchanged.
HolderInv ==
  \A t \in Ticks : act[t] # Idle /\ act[t].expiry = lock =>
    /\ act[t].pc = "list" => root = act[t].root /\ scan = NoScan
    /\ act[t].pc \in {"page", "answered"} => scan = act[t].scan

\* Ticks in flight work for a configured root and on a scan.
TickInv ==
  \A t \in Ticks : act[t] # Idle =>
    /\ act[t].pc # "idle"
    /\ act[t].pc = "list" => act[t].root \in Roots
    /\ act[t].pc \in {"page", "answered"} =>
         act[t].scan \in Scans /\ act[t].scan.started <= act[t].asked
    /\ IsFiniteSet(act[t].ids)

\* A scan is of the configured root and stages the slot that is not active.
ScanInv ==
  scan # NoScan =>
    /\ scan.root = root /\ scan.started <= now
    /\ snap # NoSnap => scan.slot # snap.slot

\* The history of the scan: what was kept is what still holds, and every
\* owner there is was seen.
KeptInv ==
  scan # NoScan =>
    /\ seen.kept \subseteq Holdings(scan.root, Neurons)
    /\ HeldBy(Holdings(scan.root, Neurons)) \subseteq seen.held

\* The staging slot has the owners of the pages below the cursor, and no
\* principal that owned nothing.
StageInv ==
  scan # NoScan =>
    /\ slots[scan.slot] \subseteq seen.held
    /\ \A h \in seen.kept : h[1] <= scan.cursor => h[2] \in slots[scan.slot]

\* The neurons a page with these ids, read above this cursor, stands for.
Spans(n, cursor, ids) ==
  n > cursor /\ (Cardinality(ids) < PageSize \/ \E m \in ids : n <= m)

\* A page that will be stored has every kept neuron it stands for, and no
\* principal that owned nothing.
PageInv ==
  \A t \in Ticks : act[t].pc = "answered" /\ act[t].expiry = lock =>
    /\ HeldBy(act[t].page) \subseteq seen.held
    /\ \A h \in seen.kept :
         Spans(h[1], act[t].scan.cursor, act[t].ids) => h \in act[t].page

IInv ==
  /\ TypeOK /\ LeaseInv /\ HolderInv /\ TickInv
  /\ ScanInv /\ KeptInv /\ StageInv /\ PageInv
  /\ SnapshotFaithful /\ ScanMovesOn

-----------------------------------------------------------------------------
(* Types.                                                                    *)

LEMMA HoldingsTyped ==
  ASSUME TypeOK, NEW r \in Roots, NEW ns \in SUBSET Neurons
  PROVE  Holdings(r, ns) \subseteq Neurons \X Owners
<1>1. \A n \in ns : OwnerOf(r, n) \in Owners \cup {NoOwner}
  BY OwnerTyped DEF TypeOK, OwnerOf
<1> QED
  BY <1>1 DEF Holdings

LEMMA IdleTyped == Idle \in Activities /\ Idle.pc = "idle"
  BY DEF Idle, Activities

\* What a tick leaves behind is well typed.
LEMMA TickTyped ==
  ASSUME TypeOK, NEW t \in Ticks, NEW rest \in Nat \cup {NoTimer}, Tick(t, rest)
  PROVE  /\ lock' \in Nat /\ timer' \in Nat \cup {NoTimer}
         /\ act' \in [Ticks -> Activities]
<1>1. now + Lease \in Nat /\ Unlocked \in Nat
  BY ScanAssumption DEF TypeOK, Unlocked
<1> DEFINE a == [Idle EXCEPT !.expiry = now + Lease]
<1>2. lock' \in Nat
  BY <1>1 DEF TypeOK, Tick, LeaseExpiry, Idle
<1>3. timer' \in Nat \cup {NoTimer}
  BY ScanAssumption DEF TypeOK, Tick, CheckAt
<1>4. root # NoRoot => [a EXCEPT !.pc = "list", !.root = root] \in Activities
  BY <1>1 DEF TypeOK, Activities, Idle
<1>5. [a EXCEPT !.pc = "page", !.scan = scan, !.asked = now] \in Activities
  BY <1>1 DEF TypeOK, Activities, Idle
<1>6. act' \in [Ticks -> Activities]
  BY <1>4, <1>5 DEF TypeOK, Tick, LeaseExpiry, RequestPage
<1> QED
  BY <1>2, <1>3, <1>6

\* The end of a tick keeps the lease word and the ticks well typed.
LEMMA EndTyped ==
  ASSUME TypeOK, NEW t \in Ticks, End(t)
  PROVE  lock' \in Nat /\ act' \in [Ticks -> Activities]
  BY IdleTyped DEF TypeOK, End, Released, Unlocked, Activities

LEMMA HeldByTyped ==
  ASSUME NEW pairs \in SUBSET (Neurons \X Owners)
  PROVE  HeldBy(pairs) \in SUBSET Owners
  BY DEF HeldBy

LEMMA StoredTyped ==
  ASSUME TypeOK, NEW t \in Ticks
  PROVE  Stored(act[t]) \in [Slots -> SUBSET Owners]
<1>1. act[t].page \in SUBSET (Neurons \X Owners)
  BY DEF TypeOK, Activities
<1> QED
  BY <1>1, HeldByTyped DEF TypeOK, Stored

LEMMA TypeStep == IInv /\ [Next]_vars => TypeOK'
<1> SUFFICES ASSUME IInv, [Next]_vars PROVE TypeOK'
  OBVIOUS
<1>0. TypeOK /\ TickInv
  BY DEF IInv
<1> USE <1>0
<1>1. ASSUME NEW t \in Ticks, TimerFires(t) PROVE TypeOK'
  BY <1>1, TickTyped DEF TimerFires, Tick, TypeOK, world, stable
<1>2. ASSUME NEW t \in Ticks, ContinuationFires(t) PROVE TypeOK'
  <2>1. Tick(t, timer) /\ timer \in Nat \cup {NoTimer}
    BY <1>2 DEF ContinuationFires, TypeOK
  <2> QED
    BY <1>2, <2>1, TickTyped DEF ContinuationFires, Tick, TypeOK, world, stable
<1>3. ASSUME NEW t \in Ticks, ScanBegins(t) PROVE TypeOK'
  <2>1. act[t] \in Activities /\ act[t].root \in Roots /\ StagingSlot \in Slots
    BY <1>3, IdleTyped DEF ScanBegins, TypeOK, TickInv, StagingSlot, OtherSlot, Slots
  <2> DEFINE s == [slot |-> StagingSlot, root |-> act[t].root, started |-> now,
                   nth |-> starts + 1, cursor |-> 0, pages |-> 0]
  <2>2. s \in Scans
    BY <2>1 DEF Scans, TypeOK
  <2>3. act' \in [Ticks -> Activities]
    BY <1>3, <2>1, <2>2 DEF ScanBegins, RequestPage, TypeOK, Activities
  <2>4. Holdings(act[t].root, Neurons) \subseteq Neurons \X Owners
    BY <2>1, HoldingsTyped
  <2>5. HeldBy(Holdings(act[t].root, Neurons)) \subseteq Owners
    BY <2>4 DEF HeldBy
  <2>6. seen' \in [held : SUBSET Owners, kept : SUBSET (Neurons \X Owners),
                  snapHeld : SUBSET Owners, snapKept : SUBSET Owners]
    BY <1>3, <2>4, <2>5 DEF ScanBegins, TypeOK
  <2>7. slots' \in [Slots -> SUBSET Owners]
    BY <1>3, <2>1 DEF ScanBegins, TypeOK
  <2>8. timer' \in Nat /\ scan' \in Scans /\ last' \in Nat /\ starts' \in Nat
    BY <1>3, <2>2, ScanAssumption DEF ScanBegins, CheckAt, TypeOK
  <2> QED
    BY <1>3, <2>3, <2>6, <2>7, <2>8 DEF ScanBegins, TypeOK, world
<1>4. ASSUME NEW t \in Ticks, ScanNotBegun(t) PROVE TypeOK'
  BY <1>4, EndTyped DEF ScanNotBegun, CheckAt, TypeOK, world, stable
<1>5. ASSUME NEW t \in Ticks, ReplyIsStale(t) PROVE TypeOK'
  BY <1>5, EndTyped DEF ReplyIsStale, TypeOK, world, stable, timers
<1>6. ASSUME NEW t \in Ticks, PageAnswered(t) PROVE TypeOK'
  <2> DEFINE above == {n \in Exists(act[t].scan.root) : n > act[t].scan.cursor}
             ns == {n \in above : Cardinality({m \in above : m < n}) < PageSize}
  <2>1. act[t] \in Activities /\ act[t].scan \in Scans
    BY <1>6, IdleTyped DEF PageAnswered, TypeOK, TickInv
  <2>2. ns \in SUBSET Neurons
    BY DEF Exists
  <2>3. Holdings(act[t].scan.root, ns) \subseteq Neurons \X Owners
    <3>1. act[t].scan.root \in Roots
      BY <2>1 DEF Scans
    <3> HIDE DEF ns
    <3> QED
      BY <2>2, <3>1, HoldingsTyped
  <2>4. act' = [act EXCEPT ![t] = [act[t] EXCEPT !.pc = "answered",
                  !.page = Holdings(act[t].scan.root, ns), !.ids = ns]]
    BY <1>6 DEF PageAnswered
  <2> HIDE DEF ns
  <2>5. act' \in [Ticks -> Activities]
    BY <2>1, <2>2, <2>3, <2>4 DEF Activities, TypeOK
  <2> QED
    BY <1>6, <2>5 DEF PageAnswered, TypeOK, world, stable, timers
<1>7. ASSUME NEW t \in Ticks, PageFails(t) PROVE TypeOK'
  BY <1>7, EndTyped DEF PageFails, FailScan, CheckAt, TypeOK, world
<1>8. ASSUME NEW t \in Ticks, PageContinues(t) PROVE TypeOK'
  <2>1. act[t] \in Activities /\ act[t] # Idle /\ act[t].scan \in Scans /\ scan = act[t].scan
    BY <1>8, IdleTyped DEF PageContinues, OwnsScan, TypeOK, TickInv
  <2>2. act[t].ids # {} /\ act[t].ids \in SUBSET Nat /\ IsFiniteSet(act[t].ids)
    <3>1. IsFiniteSet(act[t].ids) /\ Cardinality(act[t].ids) # 0
      BY <1>8, <2>1, ScanAssumption DEF PageContinues, TickInv
    <3>2. act[t].ids \in SUBSET Nat
      BY <2>1, ScanAssumption DEF Activities
    <3> QED
      BY <3>1, <3>2, FS_EmptySet
  <2>3. Max(act[t].ids) \in Nat
    BY <2>2, MaxIsGreatest
  <2>4. scan' \in Scans \cup {NoScan} /\ timer' \in Nat \cup {NoTimer} /\ conts' \in Nat
    <3>1. [scan EXCEPT !.pages = @ + 1, !.cursor = Max(act[t].ids)] \in Scans
      <4>1. scan \in Scans /\ scan.pages + 1 \in Nat
        BY <2>1 DEF Scans
      <4> QED
        BY <4>1, <2>3 DEF Scans
    <3> QED
      BY <1>8, <3>1 DEF PageContinues, FailScan, CheckAt, TypeOK
  <2>5. slots' \in [Slots -> SUBSET Owners]
    BY <1>8, StoredTyped DEF PageContinues
  <2>6. lock' \in Nat /\ act' \in [Ticks -> Activities]
    BY <1>8, EndTyped DEF PageContinues
  <2> QED
    BY <1>8, <2>4, <2>5, <2>6 DEF PageContinues, TypeOK, world
<1>9. ASSUME NEW t \in Ticks, ScanCompletes(t) PROVE TypeOK'
  <2>1. act[t] \in Activities /\ act[t].scan \in Scans /\ scan = act[t].scan
    BY <1>9, IdleTyped DEF ScanCompletes, OwnsScan, TypeOK, TickInv
  <2>2. snap' \in Snaps
    BY <1>9, <2>1 DEF ScanCompletes, Snaps, Scans, Activities, TypeOK
  <2>3. slots' \in [Slots -> SUBSET Owners]
    BY <1>9, StoredTyped DEF ScanCompletes
  <2>4. lock' \in Nat /\ act' \in [Ticks -> Activities]
    BY <1>9, EndTyped DEF ScanCompletes
  <2>5. seen' \in [held : SUBSET Owners, kept : SUBSET (Neurons \X Owners),
                  snapHeld : SUBSET Owners, snapKept : SUBSET Owners]
    <3>1. seen.held \in SUBSET Owners /\ HeldBy(seen.kept) \in SUBSET Owners
      BY HeldByTyped DEF TypeOK
    <3> QED
      BY <1>9, <3>1 DEF ScanCompletes, TypeOK
  <2>6. timer' \in Nat
    BY <1>9, ScanAssumption DEF ScanCompletes, CheckAt, TypeOK
  <2> QED
    BY <1>9, <2>2, <2>3, <2>4, <2>5, <2>6 DEF ScanCompletes, TypeOK, world
<1>10. ASSUME NEW r \in Roots \cup {NoRoot}, Upgrade(r) PROVE TypeOK'
  BY <1>10, IdleTyped DEF Upgrade, Invalidate, CheckAt, Unlocked, TypeOK
<1>11. ASSUME NEW r \in Roots, NEW n \in Neurons, NEW k \in Kinds,
              NeuronChanges(r, n, k)
       PROVE TypeOK'
  <2>1. gov' \in [Roots -> [Neurons -> Kinds \cup {Absent}]]
    BY <1>11 DEF NeuronChanges, TypeOK
  <2>2. seen' \in [held : SUBSET Owners, kept : SUBSET (Neurons \X Owners),
                  snapHeld : SUBSET Owners, snapKept : SUBSET Owners]
    BY <1>11, OwnerTyped DEF NeuronChanges, TypeOK
  <2>3. changes' \in Nat /\ UNCHANGED <<now, stable, lock, timers, act, upgrades>>
    BY <1>11 DEF NeuronChanges, TypeOK
  <2> QED
    BY <2>1, <2>2, <2>3 DEF TypeOK, stable, timers
<1>12. CASE Advance
  BY <1>12 DEF Advance, TypeOK, stable, timers, world
<1>13. CASE UNCHANGED vars
  BY <1>13 DEF TypeOK, vars, stable, timers, world
<1> QED
  BY <1>1, <1>2, <1>3, <1>4, <1>5, <1>6, <1>7, <1>8, <1>9, <1>10, <1>11, <1>12,
     <1>13 DEF Next

-----------------------------------------------------------------------------
(* Leases and what their holders rely on.                                    *)

\* No tick in flight holds the lease.
NoHolder == \A t \in Ticks : act[t] # Idle => act[t].expiry # lock

LEMMA EndLease ==
  ASSUME TypeOK, LeaseInv, NEW t \in Ticks, End(t), now' = now
  PROVE  LeaseInv'
<1>1. act' = [act EXCEPT ![t] = Idle] /\ lock' = Released(lock, act[t].expiry)
  BY DEF End
<1>2. \A u \in Ticks : act'[u] # Idle => u # t /\ act'[u] = act[u] /\ act[u] # Idle
  BY <1>1 DEF TypeOK
<1>3. ASSUME NEW u \in Ticks, act'[u] # Idle
      PROVE  act'[u].expiry = lock' \/ act'[u].expiry <= now'
  <2>1. CASE act[t] = Idle
    <3>1. act[u].expiry > 0 /\ act[t].expiry = 0 /\ lock' = lock
      BY <1>1, <1>2, <1>3, <2>1 DEF LeaseInv, Idle, Released, Unlocked
    <3> QED
      BY <1>2, <1>3, <3>1 DEF LeaseInv
  <2>2. CASE act[t] # Idle
    BY <1>1, <1>2, <1>3, <2>2 DEF LeaseInv, Released
  <2> QED
    BY <2>1, <2>2
<1> QED
  BY <1>2, <1>3 DEF LeaseInv

LEMMA HolderEnds ==
  ASSUME TypeOK, LeaseInv, NEW t \in Ticks, act[t] # Idle, act[t].expiry = lock, End(t)
  PROVE  NoHolder'
<1>1. act' = [act EXCEPT ![t] = Idle] /\ lock' = 0
  BY DEF End, Released, Unlocked
<1>2. \A u \in Ticks : act'[u] # Idle => act'[u] = act[u] /\ act[u] # Idle
  BY <1>1 DEF TypeOK
<1>3. \A u \in Ticks : act[u] # Idle => act[u].expiry > 0
  BY DEF LeaseInv
<1> QED
  BY <1>1, <1>2, <1>3 DEF NoHolder

\* A tick either finds the lease taken, or starts its call as its only
\* holder, or gives it back at once.
LEMMA TickOutcome ==
  ASSUME TypeOK, LeaseInv, NEW t \in Ticks, act[t] = Idle, NEW rest, Tick(t, rest),
         now' = now
  PROVE  \/ UNCHANGED <<lock, act>> /\ timer' = now
         \/ /\ UNCHANGED act /\ NoHolder' /\ lock' = 0 /\ scan = NoScan
            /\ root = NoRoot \/ timer' = last + Interval
            /\ \A u \in Ticks : act[u] # Idle => act[u].expiry <= now
         \/ /\ lock' = now + Lease /\ act'[t].expiry = lock' /\ act'[t] # Idle
            /\ \A u \in Ticks \ {t} : act'[u] = act[u]
            /\ \A u \in Ticks \ {t} : act[u] # Idle => act[u].expiry <= now
            /\ IsFiniteSet(act'[t].ids)
            /\ \/ /\ act'[t].pc = "list" /\ act'[t].root = root /\ root \in Roots
                  /\ scan = NoScan
               \/ /\ act'[t].pc = "page" /\ act'[t].scan = scan /\ scan \in Scans
                  /\ act'[t].asked = now
<1> DEFINE a == [Idle EXCEPT !.expiry = now + Lease]
<1>0. now \in Nat /\ Lease \in Nat /\ a.expiry = now + Lease
  BY ScanAssumption DEF TypeOK, Idle
<1>1. CASE ~CanAcquire(lock, now)
  BY <1>1 DEF Tick, CheckAt
<1>2. CASE CanAcquire(lock, now)
  <2>1. \A u \in Ticks : act[u] # Idle => act[u].expiry <= now /\ act[u].expiry > 0
    BY <1>2 DEF LeaseInv, CanAcquire
  <2>2. CASE /\ lock' = Unlocked /\ UNCHANGED act /\ scan = NoScan
             /\ root = NoRoot \/ timer' = last + Interval
    <3>1. NoHolder'
      BY <2>1, <2>2 DEF NoHolder, Unlocked
    <3> QED
      BY <2>1, <2>2, <3>1 DEF Unlocked
  <2>3. CASE /\ lock' = a.expiry /\ scan = NoScan /\ root # NoRoot
             /\ act' = [act EXCEPT ![t] = [a EXCEPT !.pc = "list", !.root = root]]
    <3>1. /\ act'[t] = [a EXCEPT !.pc = "list", !.root = root]
          /\ \A u \in Ticks \ {t} : act'[u] = act[u]
      BY <2>3 DEF TypeOK
    <3>2. lock' = now + Lease /\ act'[t].expiry = lock' /\ act'[t].pc = "list"
      <4>1. act'[t].pc = "list" /\ act'[t].expiry = a.expiry
        BY <3>1 DEF Idle
      <4>2. lock' = a.expiry
        BY <2>3
      <4> HIDE DEF a
      <4> QED
        BY <4>1, <4>2, <1>0
    <3>3. act'[t] # Idle /\ act'[t].root = root /\ root \in Roots /\ act'[t].ids = {}
      BY <2>3, <3>1 DEF Idle, TypeOK
    <3> QED
      BY <2>1, <2>3, <3>1, <3>2, <3>3, FS_EmptySet
  <2>4. CASE /\ lock' = a.expiry /\ scan # NoScan
             /\ act' = [act EXCEPT ![t] = [a EXCEPT !.pc = "page", !.scan = scan,
                                                    !.asked = now]]
    <3>1. /\ act'[t] = [a EXCEPT !.pc = "page", !.scan = scan, !.asked = now]
          /\ \A u \in Ticks \ {t} : act'[u] = act[u]
      BY <2>4 DEF TypeOK
    <3>2. lock' = now + Lease /\ act'[t].expiry = lock' /\ act'[t].pc = "page"
      <4>1. act'[t].pc = "page" /\ act'[t].expiry = a.expiry
        BY <3>1 DEF Idle
      <4>2. lock' = a.expiry
        BY <2>4
      <4> HIDE DEF a
      <4> QED
        BY <4>1, <4>2, <1>0
    <3>3. /\ act'[t] # Idle /\ act'[t].scan = scan /\ scan \in Scans
          /\ act'[t].asked = now /\ act'[t].ids = {}
      BY <2>4, <3>1 DEF Idle, TypeOK
    <3> QED
      BY <2>1, <2>4, <3>1, <3>2, <3>3, FS_EmptySet
  <2> QED
    BY <1>2, <2>2, <2>3, <2>4 DEF Tick, CheckAt, RequestPage, LeaseExpiry
<1> QED
  BY <1>1, <1>2

\* The lease invariants after the start of a tick.
LEMMA TickLease ==
  ASSUME IInv, NEW t \in Ticks, act[t] = Idle, NEW rest, Tick(t, rest), now' = now
  PROVE  LeaseInv' /\ HolderInv' /\ TickInv' /\ PageInv'
<1>0. /\ TypeOK /\ LeaseInv /\ HolderInv /\ TickInv /\ ScanInv /\ PageInv
      /\ UNCHANGED <<stable, seen>> /\ Lease \in Nat \ {0} /\ now \in Nat
  BY ScanAssumption DEF IInv, Tick, TypeOK
<1>1. CASE UNCHANGED <<lock, act>>
  BY <1>0, <1>1 DEF LeaseInv, HolderInv, TickInv, PageInv, stable
<1>2. CASE /\ UNCHANGED act /\ NoHolder' /\ lock' = 0
           /\ \A u \in Ticks : act[u] # Idle => act[u].expiry <= now
  <2>1. LeaseInv'
    BY <1>0, <1>2 DEF LeaseInv
  <2>2. HolderInv' /\ PageInv'
    <3>1. \A u \in Ticks : act'[u].pc = "answered" => act'[u] # Idle
      BY IdleTyped
    <3> QED
      BY <1>2, <3>1 DEF HolderInv, PageInv, NoHolder
  <2>3. TickInv'
    BY <1>0, <1>2 DEF TickInv
  <2> QED
    BY <2>1, <2>2, <2>3
<1>3. CASE /\ lock' = now + Lease /\ act'[t].expiry = lock' /\ act'[t] # Idle
           /\ \A u \in Ticks \ {t} : act'[u] = act[u]
           /\ \A u \in Ticks \ {t} : act[u] # Idle => act[u].expiry <= now
           /\ IsFiniteSet(act'[t].ids)
           /\ \/ /\ act'[t].pc = "list" /\ act'[t].root = root /\ root \in Roots
                 /\ scan = NoScan
              \/ /\ act'[t].pc = "page" /\ act'[t].scan = scan /\ scan \in Scans
                 /\ act'[t].asked = now
  <2>1. lock' > now /\ lock' > 0
    BY <1>0, <1>3
  <2>2. \A u \in Ticks \ {t} : act[u] # Idle => act[u].expiry # lock'
    <3> TAKE u \in Ticks \ {t}
    <3>1. act[u].expiry \in Nat
      BY <1>0 DEF TypeOK, Activities
    <3> QED
      BY <3>1, <2>1, <1>0, <1>3
  <2>3. LeaseInv'
    BY <1>0, <1>3, <2>1, <2>2 DEF LeaseInv
  <2>4. HolderInv'
    BY <1>0, <1>3, <2>2 DEF HolderInv, stable
  <2>5. TickInv'
    <3>1. scan \in Scans => scan.started <= now
      BY <1>0, NoneAssumption DEF ScanInv
    <3> QED
      BY <1>0, <1>3, <3>1 DEF TickInv
  <2>6. PageInv'
    <3>1. \A u \in Ticks : act'[u].pc = "answered" => act'[u] # Idle /\ u # t
      BY <1>3, IdleTyped
    <3> QED
      BY <1>3, <2>2, <3>1 DEF PageInv
  <2> QED
    BY <2>3, <2>4, <2>5, <2>6
<1> QED
  <2> HIDE DEF IInv
  <2>1. TypeOK /\ LeaseInv
    BY <1>0
  <2> QED
    BY <2>1, <1>1, <1>2, <1>3, TickOutcome

\* A tick whose reply is applied holds the lease, and is the one that began or
\* found the scan there is.
LEMMA OwnerHolds ==
  ASSUME IInv, NEW t \in Ticks, act[t].pc # "idle"
  PROVE  /\ act[t] # Idle /\ act[t] \in Activities
         /\ act[t].pc = "list" => act[t].root \in Roots
         /\ act[t].pc \in {"page", "answered"} => act[t].scan \in Scans
         /\ act[t].expiry = lock => ~ReplyIsStale(t)
<1>1. act[t] # Idle /\ act[t] \in Activities
  BY IdleTyped DEF IInv, TypeOK
<1>2. /\ act[t].pc = "list" => act[t].root \in Roots
      /\ act[t].pc \in {"page", "answered"} => act[t].scan \in Scans
  BY <1>1 DEF IInv, TickInv
<1>3. ASSUME act[t].expiry = lock, ReplyIsStale(t) PROVE FALSE
  <2>1. CASE act[t].pc = "list"
    BY <1>1, <1>3, <2>1 DEF IInv, HolderInv, ReplyIsStale, OwnsScan
  <2>2. CASE act[t].pc \in {"page", "answered"}
    <3>1. scan = act[t].scan /\ scan # NoScan
      BY <1>1, <1>2, <1>3, <2>2, NoneAssumption DEF IInv, HolderInv
    <3>2. scan.root = root
      BY <3>1 DEF IInv, ScanInv
    <3> QED
      BY <1>3, <2>2, <3>1, <3>2 DEF ReplyIsStale, OwnsScan
  <2> QED
    BY <1>3, <2>1, <2>2 DEF ReplyIsStale
<1> QED
  BY <1>1, <1>2, <1>3

\* A tick that ends leaves the other ones as they are.
LEMMA EndTick ==
  ASSUME TypeOK, TickInv, NEW t \in Ticks, End(t)
  PROVE  TickInv'
<1>1. \A u \in Ticks : act'[u] # Idle => act'[u] = act[u] /\ act[u] # Idle
  BY DEF End, TypeOK
<1> QED
  BY <1>1 DEF TickInv

\* The end of the tick that holds the lease.
LEMMA OwnerEnds ==
  ASSUME IInv, NEW t \in Ticks, act[t].pc # "idle", act[t].expiry = lock, End(t),
         now' = now
  PROVE  LeaseInv' /\ HolderInv' /\ TickInv' /\ PageInv' /\ NoHolder'
<1>1. TypeOK /\ LeaseInv /\ TickInv /\ act[t] # Idle
  BY OwnerHolds DEF IInv
<1>2. LeaseInv' /\ TickInv' /\ NoHolder'
  BY <1>1, EndLease, EndTick, HolderEnds
<1>3. NoHolder' => HolderInv' /\ PageInv'
  <2>1. \A u \in Ticks : act'[u].pc = "answered" => act'[u] # Idle
    BY IdleTyped
  <2> QED
    BY <2>1 DEF NoHolder, HolderInv, PageInv
<1> QED
  BY <1>2, <1>3

\* The end of a tick that has lost the lease.
LEMMA StaleEnds ==
  ASSUME IInv, NEW t \in Ticks, ReplyIsStale(t)
  PROVE  LeaseInv' /\ HolderInv' /\ TickInv' /\ PageInv' /\ lock' = lock
<1>1. /\ TypeOK /\ LeaseInv /\ TickInv /\ HolderInv /\ PageInv /\ End(t)
      /\ now' = now /\ UNCHANGED <<stable, seen>> /\ act[t].pc # "idle"
  BY DEF IInv, ReplyIsStale
<1>2. LeaseInv' /\ TickInv'
  BY <1>1, EndLease, EndTick
<1>3. act[t].expiry # lock
  BY <1>1, OwnerHolds
<1>4. lock' = lock /\ \A u \in Ticks : act'[u] # Idle => act'[u] = act[u]
  BY <1>1, <1>3 DEF End, Released, TypeOK
<1>5. HolderInv' /\ PageInv'
  <2>1. \A u \in Ticks : act'[u].pc = "answered" => act'[u] # Idle
    BY IdleTyped
  <2> QED
    BY <1>1, <1>4, <2>1 DEF HolderInv, PageInv, stable
<1> QED
  BY <1>2, <1>4, <1>5

-----------------------------------------------------------------------------
(* Pages.                                                                    *)

\* A page is a gapless run of neurons: one above the cursor that is not in it
\* is above all of it, and the page is full.
LEMMA PageIsGapless ==
  ASSUME NEW above \in SUBSET Nat, IsFiniteSet(above),
         NEW n \in above,
         Cardinality({m \in above : m < n}) >= PageSize
  PROVE  LET ns == {k \in above : Cardinality({m \in above : m < k}) < PageSize}
         IN  Cardinality(ns) >= PageSize /\ \A m \in ns : m < n
<1> DEFINE below(k) == {m \in above : m < k}
           ns == {k \in above : Cardinality(below(k)) < PageSize}
<1>0. \A k \in above : IsFiniteSet(below(k)) /\ Cardinality(below(k)) \in Nat
  BY FS_Subset, FS_CardinalityType
<1>1. PageSize \in Nat /\ IsFiniteSet(ns) /\ Cardinality(ns) \in Nat
  BY FS_Subset, FS_CardinalityType, ScanAssumption
<1>2. \A m \in ns : m < n
  <2> SUFFICES ASSUME NEW m \in ns, ~(m < n) PROVE FALSE
    OBVIOUS
  <2>1. m \in Nat /\ n \in Nat /\ m \in above
    OBVIOUS
  <2>2. below(n) \subseteq below(m)
    <3> SUFFICES ASSUME NEW j \in above, j < n PROVE j < m
      OBVIOUS
    <3>1. j \in Nat
      OBVIOUS
    <3> QED
      BY <3>1, <2>1
  <2>3. Cardinality(below(n)) <= Cardinality(below(m))
    BY <2>1, <2>2, <1>0, FS_Subset
  <2>4. Cardinality(below(m)) < PageSize
    OBVIOUS
  <2>5. Cardinality(below(n)) >= PageSize
    OBVIOUS
  <2>6. Cardinality(below(n)) \in Nat /\ Cardinality(below(m)) \in Nat
    BY <2>1, <1>0
  <2> HIDE DEF below
  <2> QED
    BY <2>3, <2>4, <2>5, <2>6, <1>1
<1>3. Cardinality(ns) >= PageSize
  <2> DEFINE rest == above \ ns
  <2>1. rest \in SUBSET Nat /\ rest # {}
    <3>1. n \notin ns
      <4>1. n \in ns => n < n
        BY <1>2
      <4>2. n \in Nat /\ ~(n < n)
        OBVIOUS
      <4> QED
        BY <4>1, <4>2
    <3> QED
      BY <3>1
  <2>2. PICK k \in rest : \A j \in rest : k <= j
    <3> HIDE DEF rest
    <3> QED
      BY <2>1, LeastExists
  <2>3. below(k) \subseteq ns
    <3> SUFFICES ASSUME NEW j \in below(k), j \notin ns PROVE FALSE
      OBVIOUS
    <3>1. j \in Nat /\ k \in Nat /\ j < k /\ j \in rest
      OBVIOUS
    <3>2. k <= j
      BY <3>1, <2>2
    <3> QED
      BY <3>1, <3>2
  <2>4. Cardinality(below(k)) <= Cardinality(ns)
    BY <2>3, <1>1, FS_Subset
  <2>5. k \in above /\ ~(Cardinality(below(k)) < PageSize)
    BY <2>2
  <2> HIDE DEF below, ns
  <2> QED
    BY <2>4, <2>5, <1>0, <1>1
<1> QED
  BY <1>2, <1>3

\* A holding is a neuron with the owner it has.
LEMMA HoldingsMember ==
  ASSUME NEW r, NEW ns \in SUBSET Neurons, NEW h
  PROVE  h \in Holdings(r, ns) <=>
           \E n \in ns : h = <<n, OwnerOf(r, n)>> /\ OwnerOf(r, n) # NoOwner
  BY DEF Holdings

-----------------------------------------------------------------------------
(* Every step keeps the invariant.                                           *)

\* What a step that changes no stable state leaves as it was.
LEMMA StableSame ==
  ASSUME IInv, UNCHANGED <<stable, gov, seen>>, now' \in Nat, now' >= now
  PROVE  ScanInv' /\ KeptInv' /\ StageInv' /\ SnapshotFaithful'
<1>1. ScanInv /\ KeptInv /\ StageInv /\ SnapshotFaithful /\ now \in Nat
  BY DEF IInv, TypeOK
<1>2. scan # NoScan => scan.started \in Nat
  BY DEF IInv, TypeOK, Scans
<1>3. ScanInv'
  BY <1>1, <1>2 DEF ScanInv, stable
<1>4. KeptInv'
  BY <1>1 DEF KeptInv, Holdings, OwnerOf, stable
<1>5. StageInv' /\ SnapshotFaithful'
  BY <1>1 DEF StageInv, SnapshotFaithful, stable
<1> QED
  BY <1>3, <1>4, <1>5

\* A tick leaves a timer armed or a tick running.
LEMMA TickMovesOn ==
  ASSUME IInv, NEW t \in Ticks, act[t] = Idle, NEW rest, Tick(t, rest), now' = now
  PROVE  ScanMovesOn'
<1>1. TypeOK /\ LeaseInv /\ UNCHANGED <<root, scan>> /\ now \in Nat /\ now # NoTimer
  BY DEF IInv, Tick, stable, TypeOK, NoTimer
<1>2. last + Interval # NoTimer
  BY ScanAssumption DEF IInv, TypeOK, NoTimer
<1>3. CASE timer' = now
  BY <1>1, <1>3 DEF ScanMovesOn
<1>4. CASE scan = NoScan /\ (root = NoRoot \/ timer' = last + Interval)
  BY <1>1, <1>2, <1>4 DEF ScanMovesOn
<1>5. CASE act'[t] # Idle /\ act'[t].expiry = lock'
  BY <1>5 DEF ScanMovesOn
<1> QED
  BY <1>1, <1>3, <1>4, <1>5, TickOutcome

LEMMA TickKeeps ==
  ASSUME IInv, NEW t \in Ticks, TimerFires(t) \/ ContinuationFires(t), TypeOK'
  PROVE  IInv'
<1>1. PICK rest : Tick(t, rest)
  BY DEF TimerFires, ContinuationFires
<1>2. act[t] = Idle /\ now' = now /\ UNCHANGED <<stable, gov, seen>>
  BY <1>1 DEF TimerFires, ContinuationFires, Tick, world
<1>3. LeaseInv' /\ HolderInv' /\ TickInv' /\ PageInv' /\ ScanMovesOn'
  BY <1>1, <1>2, TickLease, TickMovesOn
<1>4. ScanInv' /\ KeptInv' /\ StageInv' /\ SnapshotFaithful'
  BY <1>2, StableSame DEF IInv, TypeOK
<1> QED
  BY <1>3, <1>4 DEF IInv

LEMMA ScanBeginsKeeps ==
  ASSUME IInv, NEW t \in Ticks, ScanBegins(t), TypeOK'
  PROVE  IInv'
<1> DEFINE a == act[t]
           s == [slot |-> StagingSlot, root |-> a.root, started |-> now,
                 nth |-> starts + 1, cursor |-> 0, pages |-> 0]
           b == [a EXCEPT !.pc = "page", !.scan = s, !.asked = now]
<1>1. /\ TypeOK /\ a # Idle /\ a \in Activities /\ a.root \in Roots /\ a.expiry = lock
      /\ root = a.root /\ scan = NoScan /\ now \in Nat
  BY OwnerHolds DEF ScanBegins, OwnsScan, IInv, TypeOK
<1>2. scan' = s /\ s \in Scans /\ s # NoScan
  <2>1. StagingSlot \in Slots
    BY <1>1 DEF StagingSlot, OtherSlot, Slots
  <2>2. s \in Scans
    BY <1>1, <2>1 DEF TypeOK, Scans
  <2> QED
    BY <2>2, NoneAssumption DEF ScanBegins
<1>3. /\ act'[t] = b /\ \A u \in Ticks \ {t} : act'[u] = act[u]
      /\ act'[t] # Idle /\ act'[t].expiry = lock /\ act'[t].pc = "page"
      /\ act'[t].scan = s /\ act'[t].asked = now /\ act'[t].ids = a.ids
  <2>1. act'[t] = b /\ \A u \in Ticks \ {t} : act'[u] = act[u]
    BY <1>1 DEF ScanBegins, RequestPage, TypeOK
  <2>2. b.pc = "page" /\ b.expiry = a.expiry /\ b.scan = s /\ b.asked = now /\ b.ids = a.ids
    BY <1>1 DEF Activities
  <2> QED
    BY <1>1, <2>1, <2>2, IdleTyped
<1>4. UNCHANGED <<now, root, snap, lock, gov>> /\ seen'.snapHeld = seen.snapHeld
      /\ seen'.snapKept = seen.snapKept
  BY DEF ScanBegins, world, IInv, TypeOK
<1>0. s.slot = StagingSlot /\ s.root = a.root /\ s.started = now /\ s.cursor = 0
  OBVIOUS
<1>5. \A u \in Ticks \ {t} : act[u] # Idle => act[u].expiry # lock
  BY <1>1 DEF IInv, LeaseInv
<1> HIDE DEF s, b
<1>6. LeaseInv'
  BY <1>1, <1>3, <1>4, <1>5 DEF IInv, LeaseInv
<1>7. HolderInv'
  BY <1>2, <1>3, <1>4, <1>5 DEF HolderInv
<1>8. TickInv'
  BY <1>0, <1>1, <1>2, <1>3 DEF IInv, TickInv
<1>9. ScanInv'
  <2>1. snap # NoSnap => StagingSlot # snap.slot
    BY <1>1 DEF StagingSlot, OtherSlot, TypeOK, Snaps, Slots
  <2> QED
    BY <1>0, <1>1, <1>2, <1>4, <2>1 DEF ScanInv
<1>10. /\ seen'.kept = Holdings(a.root, Neurons)
       /\ seen'.held = HeldBy(Holdings(a.root, Neurons))
  BY <1>1 DEF ScanBegins, TypeOK
<1>11. KeptInv'
  BY <1>0, <1>2, <1>4, <1>10 DEF KeptInv, Holdings, OwnerOf, HeldBy
<1>12. StageInv'
  <2>1. slots'[s.slot] = {}
    BY <1>1, <1>2 DEF ScanBegins, TypeOK, Scans, s
  <2>2. \A h \in seen'.kept : ~(h[1] <= 0)
    <3>1. seen'.kept \in SUBSET (Neurons \X Owners)
      BY DEF TypeOK
    <3>2. \A h \in seen'.kept : h[1] \in Nat \ {0}
      BY <3>1, ScanAssumption
    <3> QED
      BY <3>2
  <2> QED
    BY <1>0, <1>2, <2>1, <2>2 DEF StageInv
<1>13. PageInv'
  <2>1. \A u \in Ticks : act'[u].pc = "answered" => act[u] # Idle /\ u # t /\ act'[u] = act[u]
    BY <1>3, IdleTyped
  <2> QED
    BY <1>4, <1>5, <2>1 DEF PageInv
<1>14. SnapshotFaithful'
  <2>1. snap # NoSnap => slots'[snap.slot] = slots[snap.slot]
    BY <1>1 DEF ScanBegins, StagingSlot, OtherSlot, TypeOK, Snaps, Slots
  <2> QED
    BY <1>4, <2>1 DEF IInv, SnapshotFaithful
<1>15. ScanMovesOn'
  BY <1>3, <1>4 DEF ScanMovesOn
<1> QED
  BY <1>6, <1>7, <1>8, <1>9, <1>11, <1>12, <1>13, <1>14, <1>15 DEF IInv

LEMMA ScanNotBegunKeeps ==
  ASSUME IInv, NEW t \in Ticks, ScanNotBegun(t), TypeOK'
  PROVE  IInv'
<1>1. /\ act[t].pc # "idle" /\ act[t].expiry = lock /\ End(t)
      /\ now' = now /\ UNCHANGED <<stable, gov, seen>> /\ timer' = now /\ now \in Nat
  BY DEF ScanNotBegun, OwnsScan, CheckAt, world, IInv, TypeOK
<1>2. LeaseInv' /\ HolderInv' /\ TickInv' /\ PageInv'
  BY <1>1, OwnerEnds
<1>3. ScanInv' /\ KeptInv' /\ StageInv' /\ SnapshotFaithful'
  BY <1>1, StableSame
<1>4. ScanMovesOn'
  BY <1>1 DEF ScanMovesOn, NoTimer
<1> QED
  BY <1>2, <1>3, <1>4 DEF IInv

LEMMA ReplyIsStaleKeeps ==
  ASSUME IInv, NEW t \in Ticks, ReplyIsStale(t), TypeOK'
  PROVE  IInv'
<1>1. /\ act[t].pc # "idle" /\ End(t) /\ TypeOK /\ now \in Nat
      /\ now' = now /\ UNCHANGED <<stable, timer, conts, gov, seen>>
  BY DEF ReplyIsStale, timers, world, IInv, TypeOK
<1>2. LeaseInv' /\ HolderInv' /\ TickInv' /\ PageInv' /\ lock' = lock
  BY StaleEnds
<1>3. ScanInv' /\ KeptInv' /\ StageInv' /\ SnapshotFaithful'
  BY <1>1, StableSame
<1>4. ScanMovesOn'
  <2>1. act[t].expiry # lock
    BY <1>1, OwnerHolds
  <2>2. \A u \in Ticks : u # t => act'[u] = act[u]
    BY <1>1 DEF End, TypeOK
  <2> QED
    BY <1>1, <1>2, <2>1, <2>2 DEF IInv, ScanMovesOn, stable
<1> QED
  BY <1>2, <1>3, <1>4 DEF IInv

LEMMA PageAnsweredKeeps ==
  ASSUME IInv, NEW t \in Ticks, PageAnswered(t), TypeOK'
  PROVE  IInv'
<1> DEFINE a == act[t]
           above == {n \in Exists(a.scan.root) : n > a.scan.cursor}
           ns == {n \in above : Cardinality({m \in above : m < n}) < PageSize}
           b == [a EXCEPT !.pc = "answered", !.page = Holdings(a.scan.root, ns), !.ids = ns]
<1>1. /\ TypeOK /\ a.pc = "page" /\ a # Idle /\ a \in Activities /\ a.scan \in Scans
      /\ now \in Nat
  BY OwnerHolds DEF PageAnswered, IInv, TypeOK
<1>2. act'[t] = b /\ \A u \in Ticks \ {t} : act'[u] = act[u]
  BY <1>1 DEF PageAnswered, TypeOK
<1>3. /\ b.pc = "answered" /\ b.expiry = a.expiry /\ b.scan = a.scan
      /\ b.asked = a.asked /\ b.ids = ns /\ b.page = Holdings(a.scan.root, ns)
  BY <1>1 DEF Activities
<1>4. /\ act'[t].pc = "answered" /\ act'[t].expiry = a.expiry /\ act'[t].scan = a.scan
      /\ act'[t].asked = a.asked /\ act'[t].ids = ns
      /\ act'[t].page = Holdings(a.scan.root, ns) /\ act'[t] # Idle
  BY <1>2, <1>3, IdleTyped
<1>5. UNCHANGED <<now, stable, lock, timer, conts, gov, seen>>
  BY DEF PageAnswered, timers, world
<1>6. above \in SUBSET Neurons /\ ns \in SUBSET above /\ IsFiniteSet(above) /\ IsFiniteSet(ns)
  <2>1. above \in SUBSET Neurons /\ ns \in SUBSET above
    BY DEF Exists
  <2> HIDE DEF above, ns
  <2>2. IsFiniteSet(above)
    BY <2>1, ScanAssumption, FS_Subset
  <2> QED
    BY <2>1, <2>2, FS_Subset
<1> HIDE DEF b
<1>7. ScanInv' /\ KeptInv' /\ StageInv' /\ SnapshotFaithful'
  BY <1>1, <1>5, StableSame
<1>8. LeaseInv'
  <2> HIDE DEF ns
  <2> QED
    BY <1>1, <1>2, <1>4, <1>5 DEF IInv, LeaseInv
<1>9. HolderInv'
  <2> HIDE DEF ns
  <2> QED
    BY <1>1, <1>2, <1>4, <1>5 DEF IInv, HolderInv, stable
<1>10. TickInv'
  <2> HIDE DEF ns
  <2> QED
    BY <1>1, <1>2, <1>4, <1>6 DEF IInv, TickInv
<1>11. ASSUME a.expiry = lock
       PROVE  /\ HeldBy(act'[t].page) \subseteq seen.held
              /\ \A h \in seen.kept : Spans(h[1], a.scan.cursor, ns) => h \in act'[t].page
  <2>1. scan = a.scan /\ scan # NoScan
    BY <1>1, <1>11, NoneAssumption DEF IInv, HolderInv
  <2>2. /\ seen.kept \subseteq Holdings(scan.root, Neurons)
        /\ HeldBy(Holdings(scan.root, Neurons)) \subseteq seen.held
    BY <2>1 DEF IInv, KeptInv
  <2>3. HeldBy(act'[t].page) \subseteq seen.held
    <3>1. ns \subseteq Neurons
      BY <1>6
    <3> HIDE DEF ns
    <3>2. Holdings(scan.root, ns) \subseteq Holdings(scan.root, Neurons)
      BY <3>1 DEF Holdings
    <3> QED
      BY <1>4, <2>1, <2>2, <3>2 DEF HeldBy
  <2>4. ASSUME NEW h \in seen.kept, Spans(h[1], a.scan.cursor, ns)
        PROVE  h \in act'[t].page
    <3>1. PICK n \in Neurons : h = <<n, OwnerOf(scan.root, n)>> /\ OwnerOf(scan.root, n) # NoOwner
      BY <2>2, HoldingsMember
    <3>2. n \in above
      BY <2>1, <2>4, <3>1 DEF Exists, OwnerOf, Spans
    <3>3. n \in ns
      <4> SUFFICES ASSUME n \notin ns PROVE FALSE
        OBVIOUS
      <4>1. above \in SUBSET Nat
        BY <1>6, ScanAssumption
      <4>2. Cardinality({m \in above : m < n}) \in Nat
        <5>1. IsFiniteSet({m \in above : m < n})
          <6> HIDE DEF above
          <6> QED
            BY <1>6, FS_Subset
        <5> QED
          BY <5>1, FS_CardinalityType
      <4>3. PageSize \in Nat /\ Cardinality({m \in above : m < n}) >= PageSize
        <5>1. ~(Cardinality({m \in above : m < n}) < PageSize)
          BY <3>2
        <5> HIDE DEF above, ns
        <5> QED
          BY <5>1, <4>2, ScanAssumption
      <4>4. Cardinality(ns) >= PageSize /\ \A m \in ns : m < n
        <5> HIDE DEF above
        <5> QED
          BY <1>6, <3>2, <4>1, <4>3, PageIsGapless
      <4>5. Cardinality(ns) \in Nat /\ ns \subseteq Nat /\ n \in Nat
        <5> HIDE DEF ns, above
        <5> QED
          BY <1>6, <3>2, <4>1, FS_CardinalityType
      <4>6. Cardinality(ns) < PageSize \/ \E m \in ns : n <= m
        BY <2>4, <3>1 DEF Spans
      <4> HIDE DEF ns, above
      <4> QED
        BY <4>3, <4>4, <4>5, <4>6
    <3>4. h \in Holdings(scan.root, ns)
      <4>1. ns \in SUBSET Neurons
        BY <1>6
      <4> HIDE DEF ns
      <4> QED
        BY <3>1, <3>3, <4>1, HoldingsMember
    <3> QED
      BY <1>4, <2>1, <3>4
  <2> QED
    BY <2>3, <2>4
<1>12. PageInv'
  <2> HIDE DEF ns
  <2> QED
    BY <1>2, <1>4, <1>5, <1>11 DEF IInv, PageInv
<1>13. ScanMovesOn'
  <2> HIDE DEF ns
  <2> QED
    BY <1>1, <1>2, <1>4, <1>5 DEF IInv, ScanMovesOn, stable
<1> QED
  BY <1>7, <1>8, <1>9, <1>10, <1>12, <1>13 DEF IInv

LEMMA PageFailsKeeps ==
  ASSUME IInv, NEW t \in Ticks, PageFails(t), TypeOK'
  PROVE  IInv'
<1>1. /\ act[t].pc # "idle" /\ act[t].expiry = lock /\ End(t) /\ now' = now
      /\ scan' = NoScan /\ timer' = now /\ now \in Nat
      /\ UNCHANGED <<root, snap, slots, gov, seen>>
  BY DEF PageFails, OwnsScan, FailScan, CheckAt, world, IInv, TypeOK
<1>2. LeaseInv' /\ HolderInv' /\ TickInv' /\ PageInv'
  BY <1>1, OwnerEnds
<1>3. ScanInv' /\ KeptInv' /\ StageInv'
  BY <1>1 DEF ScanInv, KeptInv, StageInv
<1>4. SnapshotFaithful' /\ ScanMovesOn'
  BY <1>1 DEF IInv, SnapshotFaithful, ScanMovesOn, NoTimer
<1> QED
  BY <1>2, <1>3, <1>4 DEF IInv

\* What storing a page adds to the staging slot.
LEMMA StoreKeeps ==
  ASSUME IInv, NEW t \in Ticks, act[t].pc = "answered",
         OwnsScan(t, act[t].scan.root, act[t].scan), slots' = Stored(act[t])
  PROVE  /\ act[t].expiry = lock /\ scan = act[t].scan /\ scan \in Scans /\ scan # NoScan
         /\ slots'[scan.slot] \subseteq seen.held
         /\ \A h \in seen.kept :
              h[1] <= scan.cursor \/ Spans(h[1], scan.cursor, act[t].ids)
                => h[2] \in slots'[scan.slot]
         /\ snap # NoSnap => slots'[snap.slot] = slots[snap.slot]
<1>1. /\ act[t].expiry = lock /\ scan = act[t].scan /\ scan \in Scans /\ scan # NoScan
      /\ act[t] \in Activities
  BY OwnerHolds, NoneAssumption DEF OwnsScan
<1>2. /\ slots'[scan.slot] = slots[scan.slot] \cup HeldBy(act[t].page)
      /\ \A x \in Slots \ {scan.slot} : slots'[x] = slots[x]
  BY <1>1 DEF Stored, IInv, TypeOK, Scans
<1>3. /\ HeldBy(act[t].page) \subseteq seen.held
      /\ \A h \in seen.kept : Spans(h[1], scan.cursor, act[t].ids) => h \in act[t].page
  BY <1>1 DEF IInv, PageInv
<1>4. /\ slots[scan.slot] \subseteq seen.held
      /\ \A h \in seen.kept : h[1] <= scan.cursor => h[2] \in slots[scan.slot]
  BY <1>1 DEF IInv, StageInv
<1>5. \A h \in act[t].page : h[2] \in HeldBy(act[t].page)
  BY DEF HeldBy
<1>6. snap # NoSnap => slots'[snap.slot] = slots[snap.slot]
  <2>1. snap # NoSnap => snap.slot \in Slots /\ snap.slot # scan.slot
    BY <1>1 DEF IInv, TypeOK, Snaps, ScanInv
  <2> QED
    BY <1>2, <2>1
<1> QED
  BY <1>1, <1>2, <1>3, <1>4, <1>5, <1>6

LEMMA PageContinuesKeeps ==
  ASSUME IInv, NEW t \in Ticks, PageContinues(t), TypeOK'
  PROVE  IInv'
<1> DEFINE a == act[t]
<1>1. /\ a.pc = "answered" /\ OwnsScan(t, a.scan.root, a.scan) /\ slots' = Stored(a)
      /\ End(t) /\ Cardinality(a.ids) = PageSize
      /\ UNCHANGED <<now, root, snap, gov, seen>>
  BY DEF PageContinues, world
<1>2. /\ a.expiry = lock /\ scan = a.scan /\ scan \in Scans /\ scan # NoScan
      /\ slots'[scan.slot] \subseteq seen.held
      /\ \A h \in seen.kept :
           h[1] <= scan.cursor \/ Spans(h[1], scan.cursor, a.ids) => h[2] \in slots'[scan.slot]
      /\ snap # NoSnap => slots'[snap.slot] = slots[snap.slot]
  BY <1>1, StoreKeeps
<1>3. LeaseInv' /\ HolderInv' /\ TickInv' /\ PageInv'
  BY <1>1, <1>2, OwnerEnds
<1>4. SnapshotFaithful'
  BY <1>1, <1>2 DEF IInv, SnapshotFaithful
<1>5. CASE scan' = NoScan /\ timer' = now
  <2>1. ScanInv' /\ KeptInv' /\ StageInv'
    BY <1>5 DEF ScanInv, KeptInv, StageInv
  <2>2. ScanMovesOn'
    BY <1>1, <1>5 DEF IInv, TypeOK, ScanMovesOn, NoTimer
  <2> QED
    BY <1>3, <1>4, <2>1, <2>2 DEF IInv
<1>6. CASE /\ scan' = [scan EXCEPT !.pages = @ + 1, !.cursor = Max(a.ids)]
           /\ conts' = conts + 1
  <2>1. /\ scan'.slot = scan.slot /\ scan'.root = scan.root /\ scan'.started = scan.started
        /\ scan'.cursor = Max(a.ids)
    BY <1>2, <1>6 DEF Scans
  <2>2. ScanInv'
    BY <1>1, <1>2, <2>1 DEF IInv, ScanInv
  <2>3. KeptInv'
    BY <1>1, <1>2, <2>1 DEF IInv, KeptInv, Holdings, OwnerOf, HeldBy
  <2>4. Max(a.ids) \in a.ids
    <3>1. a \in Activities /\ IsFiniteSet(a.ids)
      BY <1>1, OwnerHolds DEF IInv, TickInv
    <3>2. a.ids \in SUBSET Nat
      BY <3>1, ScanAssumption DEF Activities
    <3>3. a.ids # {}
      BY <1>1, <3>1, FS_EmptySet, ScanAssumption
    <3> QED
      BY <3>1, <3>2, <3>3, MaxIsGreatest
  <2>5. ASSUME NEW h \in seen.kept, h[1] <= Max(a.ids)
        PROVE  h[2] \in slots'[scan.slot]
    <3>1. h[1] \in Nat /\ scan.cursor \in Nat
      <4>1. h \in Neurons \X Owners
        BY DEF IInv, TypeOK
      <4> QED
        BY <1>2, <4>1, ScanAssumption DEF Scans
    <3>2. CASE h[1] <= scan.cursor
      BY <1>2, <3>2
    <3>3. CASE h[1] > scan.cursor
      BY <1>2, <2>4, <2>5, <3>3 DEF Spans
    <3> QED
      BY <3>1, <3>2, <3>3
  <2>6. StageInv'
    BY <1>1, <1>2, <2>1, <2>5 DEF StageInv
  <2>7. ScanMovesOn'
    BY <1>6 DEF IInv, TypeOK, ScanMovesOn
  <2> QED
    BY <1>3, <1>4, <2>2, <2>3, <2>6, <2>7 DEF IInv
<1> QED
  BY <1>5, <1>6 DEF PageContinues, FailScan, CheckAt

LEMMA ScanCompletesKeeps ==
  ASSUME IInv, NEW t \in Ticks, ScanCompletes(t), TypeOK'
  PROVE  IInv'
<1> DEFINE a == act[t]
<1>1. /\ a.pc = "answered" /\ OwnsScan(t, a.scan.root, a.scan) /\ slots' = Stored(a)
      /\ End(t) /\ Cardinality(a.ids) < PageSize /\ scan' = NoScan
      /\ timer' = last + Interval /\ now' = now
  BY DEF ScanCompletes, CheckAt
<1>2. /\ a.expiry = lock /\ scan = a.scan /\ scan \in Scans /\ scan # NoScan
      /\ slots'[scan.slot] \subseteq seen.held
      /\ \A h \in seen.kept :
           h[1] <= scan.cursor \/ Spans(h[1], scan.cursor, a.ids) => h[2] \in slots'[scan.slot]
  BY <1>1, StoreKeeps
<1>3. LeaseInv' /\ HolderInv' /\ TickInv' /\ PageInv'
  BY <1>1, <1>2, OwnerEnds
<1>4. ScanInv' /\ KeptInv' /\ StageInv'
  BY <1>1 DEF ScanInv, KeptInv, StageInv
<1>5. \A h \in seen.kept : h[2] \in slots'[scan.slot]
  <2> TAKE h \in seen.kept
  <2>1. h[1] \in Nat /\ scan.cursor \in Nat
    <3>1. h \in Neurons \X Owners
      BY DEF IInv, TypeOK
    <3> QED
      BY <1>2, <3>1, ScanAssumption DEF Scans
  <2> QED
    BY <1>1, <1>2, <2>1 DEF Spans
<1>6. SnapshotFaithful'
  <2>1. /\ snap'.slot = scan.slot /\ seen'.snapHeld = seen.held
        /\ seen'.snapKept = HeldBy(seen.kept)
    BY DEF ScanCompletes, IInv, TypeOK
  <2> QED
    BY <1>2, <1>5, <2>1 DEF SnapshotFaithful, HeldBy
<1>7. ScanMovesOn'
  BY <1>1, ScanAssumption DEF IInv, TypeOK, ScanMovesOn, NoTimer
<1> QED
  BY <1>3, <1>4, <1>6, <1>7 DEF IInv

LEMMA UpgradeKeeps ==
  ASSUME IInv, NEW r \in Roots \cup {NoRoot}, Upgrade(r), TypeOK'
  PROVE  IInv'
<1>1. /\ act' = [t \in Ticks |-> Idle] /\ timer' = now /\ now \in Nat
      /\ UNCHANGED <<now, gov, seen>>
  BY DEF Upgrade, CheckAt, IInv, TypeOK
<1>2. LeaseInv' /\ HolderInv' /\ TickInv' /\ PageInv'
  BY <1>1, IdleTyped DEF LeaseInv, HolderInv, TickInv, PageInv
<1>3. ScanMovesOn'
  BY <1>1 DEF ScanMovesOn, NoTimer
<1>4. CASE UNCHANGED <<root, snap, nextId, scan, slots, last>>
  <2>1. UNCHANGED stable
    BY <1>4 DEF stable, Upgrade
  <2> QED
    BY <1>1, <1>2, <1>3, <2>1, StableSame DEF IInv
<1>5. CASE Invalidate(r)
  BY <1>2, <1>3, <1>5 DEF Invalidate, IInv, ScanInv, KeptInv, StageInv, SnapshotFaithful
<1> QED
  BY <1>4, <1>5 DEF Upgrade

LEMMA NeuronChangesKeeps ==
  ASSUME IInv, NEW r \in Roots, NEW n \in Neurons, NEW k \in Kinds,
         NeuronChanges(r, n, k), TypeOK'
  PROVE  IInv'
<1> DEFINE o == OwnerForNeuron(k)
<1>1. UNCHANGED <<now, stable, lock, timer, conts, act>> /\ gov' = [gov EXCEPT ![r][n] = k]
  BY DEF NeuronChanges, timers
<1>2. LeaseInv' /\ HolderInv' /\ TickInv' /\ ScanInv' /\ ScanMovesOn'
  BY <1>1 DEF IInv, LeaseInv, HolderInv, TickInv, ScanInv, ScanMovesOn, stable
<1>3. /\ seen'.kept \subseteq seen.kept /\ seen.held \subseteq seen'.held
      /\ seen'.snapHeld = seen.snapHeld /\ seen'.snapKept = seen.snapKept
  BY DEF NeuronChanges, IInv, TypeOK
<1>4. StageInv' /\ PageInv' /\ SnapshotFaithful'
  <2>1. StageInv'
    BY <1>1, <1>3 DEF IInv, StageInv, stable
  <2>2. PageInv'
    BY <1>1, <1>3 DEF IInv, PageInv
  <2>3. SnapshotFaithful'
    BY <1>1, <1>3 DEF IInv, SnapshotFaithful, stable
  <2> QED
    BY <2>1, <2>2, <2>3
<1>5. CASE scan = NoScan
  BY <1>1, <1>2, <1>4, <1>5 DEF KeptInv, IInv, stable
<1>6. CASE scan # NoScan /\ scan.root # r
  <2>1. gov'[scan.root] = gov[scan.root] /\ seen' = seen
    BY <1>1, <1>6 DEF NeuronChanges, IInv, TypeOK, Scans
  <2>2. KeptInv'
    BY <1>1, <2>1 DEF IInv, KeptInv, Holdings, OwnerOf, stable
  <2> QED
    BY <1>2, <1>4, <2>2 DEF IInv
<1>7. CASE scan # NoScan /\ scan.root = r
  <2>1. /\ seen'.held = seen.held \cup ({o} \ {NoOwner})
        /\ seen'.kept = {h \in seen.kept : h[1] # n \/ h[2] = o}
    BY <1>7 DEF NeuronChanges, IInv, TypeOK
  <2>2. /\ \A m \in Neurons \ {n} : OwnerOf(r, m)' = OwnerOf(r, m)
        /\ OwnerOf(r, n)' = o
    <3>1. /\ \A m \in Neurons \ {n} : gov'[r][m] = gov[r][m]
          /\ gov'[r][n] = k
      BY <1>1 DEF IInv, TypeOK
    <3> QED
      BY <3>1, NoneAssumption DEF OwnerOf
  <2>3. seen.kept \subseteq Holdings(r, Neurons) /\ HeldBy(Holdings(r, Neurons)) \subseteq seen.held
    BY <1>7 DEF IInv, KeptInv
  <2>4. seen'.kept \subseteq Holdings(r, Neurons)'
    <3> SUFFICES ASSUME NEW h \in seen'.kept PROVE h \in Holdings(r, Neurons)'
      OBVIOUS
    <3>1. PICK m \in Neurons : h = <<m, OwnerOf(r, m)>> /\ OwnerOf(r, m) # NoOwner
      BY <2>1, <2>3, HoldingsMember
    <3>2. OwnerOf(r, m)' = OwnerOf(r, m)
      BY <2>1, <2>2, <3>1
    <3> QED
      BY <3>1, <3>2 DEF Holdings
  <2>5. HeldBy(Holdings(r, Neurons))' \subseteq seen'.held
    <3> SUFFICES ASSUME NEW p \in HeldBy(Holdings(r, Neurons))' PROVE p \in seen'.held
      OBVIOUS
    <3>1. PICK m \in Neurons : p = OwnerOf(r, m)' /\ p # NoOwner
      BY DEF HeldBy, Holdings
    <3>2. CASE m = n
      BY <2>1, <2>2, <3>1, <3>2
    <3>3. CASE m # n
      <4>1. p = OwnerOf(r, m) /\ p # NoOwner
        BY <2>2, <3>1, <3>3
      <4>2. <<m, p>> \in Holdings(r, Neurons)
        BY <4>1, HoldingsMember
      <4>3. p \in HeldBy(Holdings(r, Neurons))
        BY <4>2 DEF HeldBy
      <4> QED
        BY <2>1, <2>3, <4>3
    <3> QED
      BY <3>2, <3>3
  <2>6. KeptInv'
    BY <1>1, <1>7, <2>4, <2>5 DEF KeptInv, stable
  <2> QED
    BY <1>2, <1>4, <2>6 DEF IInv
<1> QED
  BY <1>5, <1>6, <1>7

LEMMA AdvanceKeeps ==
  ASSUME IInv, Advance, TypeOK'
  PROVE  IInv'
<1>1. /\ now \in Nat /\ now' = now + 1 /\ now' \in Nat /\ now' >= now
      /\ UNCHANGED <<stable, lock, timer, conts, act, gov, seen>>
  BY DEF Advance, timers, world, IInv, TypeOK
<1>2. ScanInv' /\ KeptInv' /\ StageInv' /\ SnapshotFaithful'
  BY <1>1, StableSame
<1>3. LeaseInv'
  <2>1. \A t \in Ticks : act[t].expiry \in Nat
    BY DEF IInv, TypeOK, Activities
  <2> QED
    BY <1>1, <2>1 DEF IInv, LeaseInv
<1>4. HolderInv' /\ TickInv' /\ PageInv'
  BY <1>1 DEF IInv, HolderInv, TickInv, PageInv, stable
<1>5. ScanMovesOn'
  BY <1>1 DEF IInv, TypeOK, ScanMovesOn, NoTimer, stable
<1> QED
  BY <1>2, <1>3, <1>4, <1>5 DEF IInv

LEMMA InitIInv == Init => IInv
<1> SUFFICES ASSUME Init PROVE IInv
  OBVIOUS
<1>1. TypeOK
  BY IdleTyped, ScanAssumption DEF Init, TypeOK, Unlocked
<1>2. \A t \in Ticks : act[t] = Idle
  BY DEF Init
<1>3. LeaseInv /\ HolderInv /\ TickInv /\ PageInv
  BY <1>2, IdleTyped DEF LeaseInv, HolderInv, TickInv, PageInv
<1>4. ScanInv /\ KeptInv /\ StageInv /\ SnapshotFaithful
  BY DEF Init, ScanInv, KeptInv, StageInv, SnapshotFaithful
<1>5. ScanMovesOn
  BY DEF Init, ScanMovesOn, NoTimer
<1> QED
  BY <1>1, <1>3, <1>4, <1>5 DEF IInv

LEMMA StepIInv == IInv /\ [Next]_vars => IInv'
<1> SUFFICES ASSUME IInv, [Next]_vars PROVE IInv'
  OBVIOUS
<1>1. TypeOK'
  BY TypeStep
<1>2. ASSUME NEW t \in Ticks,
             \/ TimerFires(t) \/ ContinuationFires(t)
             \/ ScanBegins(t) \/ ScanNotBegun(t) \/ ReplyIsStale(t)
             \/ PageAnswered(t) \/ PageFails(t) \/ PageContinues(t)
             \/ ScanCompletes(t)
      PROVE  IInv'
  BY <1>1, <1>2, TickKeeps, ScanBeginsKeeps, ScanNotBegunKeeps, ReplyIsStaleKeeps,
     PageAnsweredKeeps, PageFailsKeeps, PageContinuesKeeps, ScanCompletesKeeps
<1>3. CASE UNCHANGED vars
  <2>1. UNCHANGED <<now, stable, lock, timer, conts, act, gov, seen>> /\ now \in Nat
    BY <1>3 DEF vars, timers, world, IInv, TypeOK
  <2>2. ScanInv' /\ KeptInv' /\ StageInv' /\ SnapshotFaithful'
    BY <2>1, StableSame
  <2>3. LeaseInv' /\ HolderInv' /\ TickInv' /\ PageInv' /\ ScanMovesOn'
    BY <2>1 DEF IInv, LeaseInv, HolderInv, TickInv, PageInv, ScanMovesOn, stable
  <2> QED
    BY <1>1, <2>2, <2>3 DEF IInv
<1> QED
  BY <1>1, <1>2, <1>3, UpgradeKeeps, NeuronChangesKeeps, AdvanceKeeps DEF Next

\* The scan's bookkeeping is inductive: a tick that holds the lease finds the
\* scan it read, and the staging slot is complete below the cursor.
THEOREM ScanInvariant == Spec => []IInv
<1>1. Init => IInv
  BY InitIInv
<1>2. IInv /\ [Next]_vars => IInv'
  BY StepIInv
<1> QED
  BY <1>1, <1>2, PTL DEF Spec

\* The directory that is answered is that of one whole scan, whatever ticks
\* overlap, pages fail, neurons change hands and upgrades interrupt it.
THEOREM SnapshotIsFaithful == Spec => []SnapshotFaithful
<1>1. IInv => SnapshotFaithful
  BY DEF IInv
<1> QED
  BY <1>1, ScanInvariant, PTL

\* A configured canister always has the next step of its scan armed or
\* running, and a scan that was begun is never left to the daily timer.
THEOREM ScanAlwaysMovesOn == Spec => []ScanMovesOn
<1>1. IInv => ScanMovesOn
  BY DEF IInv
<1> QED
  BY <1>1, ScanInvariant, PTL

-----------------------------------------------------------------------------
(* The scan implements the directory.                                        *)

DirOf == IF snap = NoSnap THEN NoDir
         ELSE [id |-> snap.id, root |-> snap.root, owners |-> slots[snap.slot],
               started |-> snap.started, completed |-> snap.completed]

\* A step that touches neither the snapshot nor its slot is not seen.
LEMMA DirectorySame ==
  ASSUME UNCHANGED <<snap, nextId>>,
         snap # NoSnap => slots'[snap.slot] = slots[snap.slot]
  PROVE  UNCHANGED Directory!dvars
  BY DEF Directory!dvars

LEMMA CompletionPublishes ==
  ASSUME IInv, NEW t \in Ticks, ScanCompletes(t), TypeOK'
  PROVE  Directory!DirNext
<1>1. /\ act[t].pc = "answered" /\ OwnsScan(t, act[t].scan.root, act[t].scan)
      /\ snap' = [id |-> nextId, slot |-> scan.slot, root |-> scan.root,
                  started |-> scan.started, completed |-> act[t].asked]
      /\ nextId' = nextId + 1
  BY DEF ScanCompletes
<1>2. /\ scan = act[t].scan /\ scan \in Scans /\ act[t] # Idle
      /\ act[t] \in Activities
  BY <1>1, OwnerHolds DEF OwnsScan
<1>3. scan.started <= act[t].asked /\ scan.root \in Roots /\ scan.slot \in Slots
      /\ scan.started \in Nat /\ act[t].asked \in Nat /\ nextId \in Nat
  BY <1>1, <1>2 DEF IInv, TypeOK, TickInv, Scans, Activities
<1>4. snap' \in Snaps /\ snap' # NoSnap
  BY <1>1, <1>3, NoneAssumption DEF Snaps
<1> DEFINE d == [id |-> nextId, root |-> scan.root, owners |-> slots'[scan.slot],
                 started |-> scan.started, completed |-> act[t].asked]
<1>5. slots'[scan.slot] \in SUBSET Owners
  BY <1>3 DEF TypeOK
<1>6. d \in Dirs /\ d # NoDir
  BY <1>3, <1>5, NoneAssumption DEF Dirs
<1>7. DirOf' = d
  BY <1>1, <1>4 DEF DirOf
<1>8. nextId' - 1 = (nextId - 1) + 1 /\ (nextId - 1) + 1 = nextId
  BY <1>1, <1>3
<1> QED
  BY <1>3, <1>5, <1>6, <1>7, <1>8 DEF Directory!DirNext, Directory!Publish, DirOf

LEMMA DirectoryStep ==
  ASSUME IInv, [Next]_vars
  PROVE  [Directory!DirNext]_(Directory!dvars)
<1>0. TypeOK'
  BY TypeStep
<1>1. ASSUME NEW t \in Ticks, TimerFires(t) \/ ContinuationFires(t) \/ ScanNotBegun(t)
                                 \/ ReplyIsStale(t) \/ PageAnswered(t)
      PROVE  UNCHANGED Directory!dvars
  <2>1. UNCHANGED stable
    BY <1>1 DEF TimerFires, ContinuationFires, Tick, ScanNotBegun, ReplyIsStale, PageAnswered
  <2> QED
    BY <2>1, DirectorySame DEF stable
<1>2. ASSUME NEW t \in Ticks, ScanBegins(t) PROVE UNCHANGED Directory!dvars
  <2>1. UNCHANGED <<snap, nextId>>
    BY <1>2 DEF ScanBegins
  <2>2. snap # NoSnap => slots'[snap.slot] = slots[snap.slot]
    BY <1>2 DEF IInv, TypeOK, ScanBegins, StagingSlot, OtherSlot, Snaps, Slots
  <2> QED
    BY <2>1, <2>2, DirectorySame
<1>3. ASSUME NEW t \in Ticks, PageFails(t) PROVE UNCHANGED Directory!dvars
  <2>1. UNCHANGED <<snap, nextId, slots>>
    BY <1>3 DEF PageFails
  <2> QED
    BY <2>1, DirectorySame
<1>4. ASSUME NEW t \in Ticks, PageContinues(t) PROVE UNCHANGED Directory!dvars
  <2>1. UNCHANGED <<snap, nextId>>
    BY <1>4 DEF PageContinues
  <2>2. snap # NoSnap => slots'[snap.slot] = slots[snap.slot]
    BY <1>4, StoreKeeps DEF PageContinues
  <2> QED
    BY <2>1, <2>2, DirectorySame
<1>5. ASSUME NEW r \in Roots \cup {NoRoot}, Upgrade(r)
      PROVE  [Directory!DirNext]_(Directory!dvars)
  <2>1. CASE UNCHANGED <<root, snap, nextId, scan, slots, last>>
    BY <2>1, DirectorySame
  <2>2. CASE Invalidate(r)
    BY <2>2 DEF Invalidate, Directory!DirNext, Directory!Withdraw
  <2> QED
    BY <1>5, <2>1, <2>2 DEF Upgrade
<1>6. ASSUME NEW r \in Roots, NEW n \in Neurons, NEW k \in Kinds, NeuronChanges(r, n, k)
      PROVE  UNCHANGED Directory!dvars
  <2>1. UNCHANGED stable
    BY <1>6 DEF NeuronChanges
  <2> QED
    BY <2>1, DirectorySame DEF stable
<1>7. CASE Advance \/ UNCHANGED vars
  <2>1. UNCHANGED stable
    BY <1>7 DEF Advance, vars
  <2> QED
    BY <2>1, DirectorySame DEF stable
<1> QED
  BY <1>0, <1>1, <1>2, <1>3, <1>4, <1>5, <1>6, <1>7, CompletionPublishes DEF Next

\* What the Relays are promised, one directory at a time under an id that is
\* never given to another, is what the scan does.
THEOREM ScanImplementsDirectory == Spec => ImplementsDirectory
<1>1. Init => Directory!DirInit
  BY DEF Init, Directory!DirInit
<1>2. IInv /\ [Next]_vars => [Directory!DirNext]_(Directory!dvars)
  BY DirectoryStep
<1> QED
  BY <1>1, <1>2, ScanInvariant, PTL DEF Spec, ImplementsDirectory, Directory!DirSpec
=============================================================================

------------------------ MODULE RelaySplitterProofs ------------------------
(* Theorems about the Relay's splitters for every number of activations and  *)
(* splitters, every percentage, fee, lease and window.                       *)
EXTENDS RelaySplitter, NaturalsInduction, WellFoundedInduction, TLAPS

-----------------------------------------------------------------------------
(* The inductive invariant.  Its parts take the state they speak of as       *)
(* parameters: B and bal are the blocks and the balances, W the transfers    *)
(* that were executed or may yet be, quar and j the quarantined jobs and the *)
(* active one, n the number of jobs created, en those that have ended and ls *)
(* the time of the last start.                                               *)

StSet == [lock : Nat, job : JobSet \cup {NoJob}, rev : Nat,
          cached : Nat \cup {NoFee}, quar : [Splitters -> JobSet \cup {NoJob}]]
EndSet == [id : Nat, start : Nat,
           how : {"completed", "cleared", "expired", "invalid plan"}]

\* The transfer an activation waits for.
Request(a) == Tx(a.claimed, CurrentLeg(a.claimed))
InFlight(a) == a.pc = "transfer" /\ a.got = FALSE

\* The requests on their way, p's own apart.
Others(p) == late \cup {Request(act[q]) : q \in {r \in Proc \ {p} : InFlight(act[r])}}

\* All transfers that were executed or may yet be.
Wild == blocks \cup late \cup {Request(act[q]) : q \in {r \in Proc : InFlight(act[r])}}

SameLeg(tx, u) == tx.job = u.job /\ tx.leg = u.leg

Untried(leg) == leg.started = FALSE /\ leg.seen = FALSE /\ leg.status # "accepted"

\* A job is tried leg by leg, and only the second leg can wait.
InTurn(j) ==
  /\ j.leg[1].status \in {"ready", "accepted"}
  /\ j.leg[1].status = "ready" => Untried(j.leg[2]) /\ j.leg[2].status = "ready"
  /\ j.leg[2].status \in {"funds", "fee"} => Untried(j.leg[2])

JobOK(j) ==
  j \in JobSet /\ PlanIsValid(j) /\ j.leg[1].cat < j.leg[2].cat /\ InTurn(j)

OwedOf(j, l, B) ==
  IF \E b \in B : b.job = j.id /\ b.leg = l THEN 0 ELSE j.leg[l].gross

\* What an active job j may rely on: a transfer in its name is the one its
\* leg now shows, and a leg it shows as untried has none; transfers of earlier
\* jobs of the splitter carry an older time; its shares are there.
JobInv(j, W, B, bal, quar, n, en) ==
  /\ JobOK(j) /\ j.id \in 1 .. n /\ quar[j.splitter] = NoJob
  /\ \A e \in en : e.id # j.id
  /\ \A tx \in W : tx.job = j.id => tx = Tx(j, tx.leg) /\ ~Untried(j.leg[tx.leg])
  /\ \A tx \in W : tx.splitter = j.splitter /\ tx.job # j.id => tx.cat < j.leg[1].cat
  /\ \A l \in Legs : j.leg[l].status = "accepted" => Tx(j, l) \in B
  /\ OwedOf(j, 1, B) + OwedOf(j, 2, B) <= bal[j.splitter]

\* One transfer for each leg of each job, and the ledger tells them apart.
WildInv(W, n, ls) ==
  /\ W \subseteq TxSet
  /\ \A tx \in W : tx.job \in 1 .. n /\ tx.cat <= ls + 2
  /\ \A tx, u \in W : SameLeg(tx, u) => tx = u
  /\ \A tx, u \in W : Key(tx) = Key(u) => tx = u

\* A transfer that may yet be executed is of the active job or of a splitter
\* that is quarantined.
DeadInv(W, B, quar, j) ==
  \A tx \in W \ B : (j # NoJob /\ tx.job = j.id) \/ quar[tx.splitter] # NoJob

Conserved(e, B) ==
  \E b, c \in B : /\ {x \in B : x.job = e.id} = {b, c} /\ b.leg = 1 /\ c.leg = 2
                  /\ Debit(b) + Debit(c) = e.start

\* What became of the jobs that are no longer active; none is lost.
EndedInv(W, B, j, n, en) ==
  /\ \A e \in en : /\ e.id \in 1 .. n
                   /\ e.how = "cleared" => \A tx \in W : tx.job # e.id
                   /\ e.how = "completed" => Conserved(e, B)
  /\ \A id \in 1 .. n : (j # NoJob /\ j.id = id) \/ \E e \in en : e.id = id

QuarInv(quar, ls) ==
  \A i \in Splitters : quar[i] # NoJob =>
    /\ PlanIsValid(quar[i]) /\ CurrentLeg(quar[i]) \in Legs
    /\ Prior(quar[i].leg[CurrentLeg(quar[i])])
    /\ ls - quar[i].leg[CurrentLeg(quar[i])].cat > Window

StoreInv(W, B, bal, quar, j, n, en, ls) ==
  /\ WildInv(W, n, ls) /\ DeadInv(W, B, quar, j) /\ EndedInv(W, B, j, n, en)
  /\ QuarInv(quar, ls)
  /\ j # NoJob => JobInv(j, W, B, bal, quar, n, en) /\ j.leg[2].cat <= ls + 2

Driving == {"legFunds", "legFee", "transfer"}

\* The splitters the holder a of the lease has before it.
ToVisit(a) ==
  {i \in Splitters : i # a.resumed /\ (i > a.at \/ (a.pc = "balance" /\ i = a.at))}

\* Nothing of a splitter that is still to be visited was pinned by a itself.
VisitInv(a, W) == \A tx \in W : tx.splitter \in ToVisit(a) => tx.cat < a.start

\* The holder between jobs: there is no active job, and a balance it was told
\* is still there.
SearchInv(a, bal, s) ==
  a.pc \in {"fee", "balance"} =>
    /\ s.job = NoJob
    /\ a.pc = "fee" => a.at = 0
    /\ a.pc = "balance" => /\ a.at \in Splitters /\ a.at # a.resumed
                           /\ s.quar[a.at] = NoJob
                           /\ a.got = TRUE => a.val <= bal[a.at]

\* The holder with a job: it is the job stored.  O are the requests of others.
DriveInv(a, O, B, s) ==
  a.pc \in Driving =>
    /\ s.job = a.claimed /\ a.claimed \in JobSet
    /\ a.claimed.splitter \in {a.resumed, a.at}
    /\ a.pc = "legFunds" => a.claimed.leg[2].status = "funds"
    /\ a.pc = "legFee" => a.claimed.leg[2].status = "fee"
    /\ a.pc # "transfer" => a.claimed.leg[2].cat < a.start
    /\ a.pc = "transfer" =>
         /\ a.claimed.leg[2].cat <= a.start + 1
         /\ CurrentLeg(a.claimed) \in Legs
         /\ a.claimed.leg[CurrentLeg(a.claimed)].status = "ready"
         /\ a.claimed.leg[CurrentLeg(a.claimed)].started = TRUE
         /\ a.got = TRUE => a.verdict # "none"
         /\ a.got = TRUE /\ a.verdict = "accepted" => Request(a) \in B
         /\ a.prior = FALSE =>
              /\ a.claimed.leg[CurrentLeg(a.claimed)].seen = FALSE
              /\ \A tx \in O : ~SameLeg(tx, Request(a))
              /\ \A tx \in B : SameLeg(tx, Request(a)) =>
                                 a.got = TRUE /\ a.verdict = "accepted"

HolderOK(a, O, B, bal, s) ==
  VisitInv(a, O \cup B) /\ SearchInv(a, bal, s) /\ DriveInv(a, O, B, s)

HolderInv ==
  \A p \in Proc : act[p].pc # "idle" /\ Current(p) =>
    HolderOK(act[p], Others(p), blocks, balance, st)

\* Only the last activation to start can hold the lease.
LeaseInv ==
  /\ lastStart = now \/ lastStart + Stride <= now
  /\ st.lock \in {Unlocked, lastStart + Lease}
  /\ \A p \in Proc : act[p].pc # "idle" =>
       /\ act[p].expiry = act[p].start + Lease /\ act[p].start <= lastStart
       /\ \A q \in Proc : q # p /\ act[q].pc # "idle" => act[q].start # act[p].start

\* What an activation asks of the ledger is there, whether or not it still
\* holds the lease.
Asks(a) == /\ a.pc = "balance" => a.at \in Splitters
           /\ a.pc = "legFunds" => a.claimed \in JobSet
AskInv == \A p \in Proc : Asks(act[p])

IInv == /\ TypeOK /\ LeaseInv /\ HolderInv /\ AskInv
        /\ StoreInv(Wild, blocks, balance, st.quar, st.job, created, ended, lastStart)

-----------------------------------------------------------------------------
(* Least elements, and pairs.                                                *)

\* The order of the natural numbers, as a relation.
Less == {x \in Nat \X Nat : x[1] < x[2]}

LEMMA MinIs ==
  ASSUME NEW S \in SUBSET Nat, S # {}
  PROVE  Min(S) \in S /\ \A y \in S : Min(S) <= y
<1>1. OpToRel(<, Nat) = Less
  BY DEF OpToRel, Less
<1>2. IsWellFoundedOn(Less, Nat)
  BY <1>1, NatLessThanWellFounded
<1>3. S \subseteq Nat
  OBVIOUS
<1>4. PICK x \in S : \A y \in S : ~(<<y, x>> \in Less)
  BY <1>2, <1>3, WFMin
<1>5. \A y \in S : x <= y
  <2> TAKE y \in S
  <2>1. x \in Nat /\ y \in Nat /\ ~(y < x)
    BY <1>3, <1>4 DEF Less
  <2> QED
    BY <2>1
<1> QED
  BY <1>5 DEF Min

LEMMA MaxPair ==
  ASSUME NEW a \in Nat, NEW b \in Nat
  PROVE  Max({a, b}) = IF a <= b THEN b ELSE a
<1>1. \E x \in {a, b} : \A y \in {a, b} : x >= y
  OBVIOUS
<1>2. Max({a, b}) \in {a, b} /\ \A y \in {a, b} : Max({a, b}) >= y
  BY <1>1 DEF Max
<1> QED
  BY <1>2

LEMMA PairTyped ==
  ASSUME NEW S, NEW x \in S, NEW y \in S
  PROVE  <<x, y>> \in [Legs -> S] /\ <<x, y>>[1] = x /\ <<x, y>>[2] = y
  BY DEF Legs

LEMMA SplittersAre == \A i \in Splitters : i \in Nat /\ i # 0
  BY SplitAssumption DEF Splitters

-----------------------------------------------------------------------------
(* Jobs and their legs.                                                      *)

LEMMA JobTyped ==
  ASSUME NEW j \in JobSet
  PROVE  /\ j.id \in Nat /\ j.splitter \in Splitters /\ j.start \in Nat /\ j.rev \in Nat
         /\ j.leg \in [Legs -> LegSet] /\ j.leg[1] \in LegSet /\ j.leg[2] \in LegSet
         /\ \A l \in Legs : j.leg[l] \in LegSet
  BY DEF JobSet, Legs

LEMMA LegTyped ==
  ASSUME NEW g \in LegSet
  PROVE  /\ g.gross \in Nat /\ g.amt \in Nat /\ g.fee \in Nat /\ g.cat \in Nat
         /\ g.status \in {"ready", "funds", "fee", "accepted"}
         /\ g.started \in BOOLEAN /\ g.seen \in BOOLEAN
  BY DEF LegSet

LEMMA PriorIs ==
  ASSUME NEW g \in LegSet
  PROVE  Prior(g) <=> (g.started = TRUE \/ g.seen = TRUE)
<1>1. g.started \in BOOLEAN /\ g.seen \in BOOLEAN
  BY LegTyped
<1> QED
  BY <1>1, Zenon DEF Prior

LEMMA CurrentLegIs ==
  ASSUME NEW j \in JobSet
  PROVE  /\ CurrentLeg(j) \in {0, 1, 2}
         /\ CurrentLeg(j) = 0 <=> j.leg[1].status = "accepted" /\ j.leg[2].status = "accepted"
         /\ CurrentLeg(j) = 1 <=> j.leg[1].status # "accepted"
         /\ CurrentLeg(j) = 2 <=> j.leg[1].status = "accepted" /\ j.leg[2].status # "accepted"
<1> DEFINE S == {l \in Legs : j.leg[l].status # "accepted"}
<1>1. CASE S = {}
  <2>1. \A l \in Legs : j.leg[l].status = "accepted"
    BY <1>1
  <2> QED
    BY <2>1 DEF CurrentLeg, Legs
<1>2. CASE S # {}
  <2>1. ~(\A l \in Legs : j.leg[l].status = "accepted")
    BY <1>2
  <2>2. CurrentLeg(j) = Min(S)
    BY <2>1 DEF CurrentLeg
  <2>3. S \in SUBSET Nat /\ S \subseteq {1, 2}
    BY DEF Legs
  <2>4. Min(S) \in S /\ \A y \in S : Min(S) <= y
    BY <1>2, <2>3, MinIs
  <2>5. /\ 1 \in S <=> j.leg[1].status # "accepted"
        /\ 2 \in S <=> j.leg[2].status # "accepted"
    BY DEF Legs
  <2>6. PICK c : c = Min(S)
    OBVIOUS
  <2>7. c \in {1, 2} /\ c \in S /\ (1 \in S => c <= 1)
    BY <2>3, <2>4, <2>6
  <2>8. CurrentLeg(j) = c
    BY <2>2, <2>6
  <2> HIDE DEF S
  <2>9. CASE 1 \in S
    BY <2>5, <2>7, <2>8, <2>9
  <2>10. CASE 1 \notin S
    BY <2>5, <2>7, <2>8, <2>10
  <2> QED
    BY <2>9, <2>10
<1> QED
  BY <1>1, <1>2

LEMMA TxIs ==
  ASSUME NEW j \in JobSet, NEW l \in Legs
  PROVE  /\ Tx(j, l) \in TxSet
         /\ Tx(j, l).job = j.id /\ Tx(j, l).leg = l /\ Tx(j, l).splitter = j.splitter
         /\ Tx(j, l).amt = j.leg[l].amt /\ Tx(j, l).fee = j.leg[l].fee
         /\ Tx(j, l).cat = j.leg[l].cat
  BY JobTyped, LegTyped DEF Tx, TxSet

\* Jobs that differ only in what is recorded of the attempts.
Alike(j, k) ==
  /\ k.id = j.id /\ k.splitter = j.splitter /\ k.start = j.start
  /\ \A l \in Legs : /\ k.leg[l].gross = j.leg[l].gross /\ k.leg[l].amt = j.leg[l].amt
                     /\ k.leg[l].fee = j.leg[l].fee /\ k.leg[l].cat = j.leg[l].cat

LEMMA AlikeKeeps ==
  ASSUME NEW j \in JobSet, NEW k \in JobSet, Alike(j, k)
  PROVE  /\ PlanIsValid(j) => PlanIsValid(k)
         /\ \A l \in Legs : Tx(k, l) = Tx(j, l)
         /\ \A l, B : l \in Legs => OwedOf(k, l, B) = OwedOf(j, l, B)
         /\ j.leg[1].cat = k.leg[1].cat /\ j.leg[2].cat = k.leg[2].cat
<1>1. PlanIsValid(j) => PlanIsValid(k)
  BY DEF Alike, PlanIsValid, Legs
<1>2. \A l \in Legs : Tx(k, l) = Tx(j, l)
  BY DEF Alike, Tx
<1>3. \A l, B : l \in Legs => OwedOf(k, l, B) = OwedOf(j, l, B)
  BY DEF Alike, OwedOf
<1> QED
  BY <1>1, <1>2, <1>3 DEF Alike, Legs

\* A job with another leg l.
WithLeg(j, l, g) == [j EXCEPT !.leg = [j.leg EXCEPT ![l] = g]]

LEMMA WithLegIs ==
  ASSUME NEW j \in JobSet, NEW l \in Legs, NEW g \in LegSet
  PROVE  LET k == WithLeg(j, l, g)
         IN  /\ k \in JobSet /\ k.id = j.id /\ k.splitter = j.splitter
             /\ k.start = j.start /\ k.rev = j.rev /\ k.leg[l] = g
             /\ \A m \in Legs : m # l => k.leg[m] = j.leg[m]
  BY DEF WithLeg, JobSet

\* The attempts of k are those of j and, when l is a leg, one of leg l.
Marked(j, k, l) ==
  \A m \in Legs : /\ k.leg[m].status = j.leg[m].status
                  /\ k.leg[m].seen = j.leg[m].seen
                  /\ m = l => k.leg[m].started = TRUE
                  /\ m # l => k.leg[m].started = j.leg[m].started

LEMMA ClaimIs ==
  ASSUME NEW j \in JobSet, NEW l \in {0, 1, 2}, NEW r \in Nat,
         NEW k, k = Claim(j, l, r)
  PROVE  k \in JobSet /\ Alike(j, k) /\ Marked(j, k, l)
<1>1. CASE l = 0
  <2>1. k = [j EXCEPT !.rev = r]
    BY <1>1 DEF Claim
  <2> QED
    BY <1>1, <2>1 DEF JobSet, Alike, Legs, Marked
<1>2. CASE l \in Legs
  <2>1. k = [j EXCEPT !.rev = r, !.leg[l].started = TRUE]
    BY <1>2 DEF Claim, Legs
  <2>2. j.leg \in [Legs -> LegSet] /\ j.leg[l] \in LegSet
    BY <1>2, JobTyped
  <2>3. [j.leg[l] EXCEPT !.started = TRUE] \in LegSet
    BY <2>2 DEF LegSet
  <2>4. k = [WithLeg(j, l, [j.leg[l] EXCEPT !.started = TRUE]) EXCEPT !.rev = r]
    BY <2>1, <2>2 DEF WithLeg, JobSet
  <2> DEFINE g == [j.leg[l] EXCEPT !.started = TRUE]
             w == WithLeg(j, l, g)
  <2>5a. g \in LegSet
    BY <2>3
  <2> HIDE DEF g
  <2>5. /\ w \in JobSet /\ w.id = j.id /\ w.splitter = j.splitter
        /\ w.start = j.start /\ w.leg[l] = g
        /\ \A m \in Legs : m # l => w.leg[m] = j.leg[m]
    BY <1>2, <2>5a, WithLegIs
  <2>6. k = [w EXCEPT !.rev = r]
    BY <2>4 DEF g
  <2> HIDE DEF w
  <2>7. k \in JobSet /\ k.leg = w.leg /\ k.id = w.id /\ k.splitter = w.splitter /\ k.start = w.start
    BY <2>5, <2>6 DEF JobSet
  <2>8. /\ w.leg[l].gross = j.leg[l].gross /\ w.leg[l].amt = j.leg[l].amt
        /\ w.leg[l].fee = j.leg[l].fee /\ w.leg[l].cat = j.leg[l].cat
        /\ w.leg[l].status = j.leg[l].status /\ w.leg[l].seen = j.leg[l].seen
        /\ w.leg[l].started = TRUE
    BY <2>2, <2>5 DEF LegSet, g
  <2>9. Alike(j, k)
    BY <2>5, <2>7, <2>8 DEF Alike
  <2>10. Marked(j, k, l)
    BY <2>5, <2>7, <2>8 DEF Marked
  <2> QED
    BY <2>7, <2>9, <2>10
<1> QED
  BY <1>1, <1>2 DEF Legs

LEMMA WithLegAlike ==
  ASSUME NEW j \in JobSet, NEW l \in Legs, NEW g \in LegSet,
         g.gross = j.leg[l].gross, g.amt = j.leg[l].amt, g.fee = j.leg[l].fee,
         g.cat = j.leg[l].cat
  PROVE  Alike(j, WithLeg(j, l, g))
<1> DEFINE k == WithLeg(j, l, g)
<1>1. /\ k.id = j.id /\ k.splitter = j.splitter
      /\ k.start = j.start /\ k.leg[l] = g
      /\ \A m \in Legs : m # l => k.leg[m] = j.leg[m]
  BY WithLegIs
<1> HIDE DEF k
<1> QED
  BY <1>1 DEF Alike, k

\* A change of what is recorded of the attempts.
LEMMA JobRecords ==
  ASSUME NEW j, NEW k \in JobSet, Alike(j, k), InTurn(k),
         NEW W, NEW B, NEW bal, NEW quar, NEW n, NEW en,
         W \subseteq TxSet, JobInv(j, W, B, bal, quar, n, en),
         \A tx \in W : tx.job = j.id => ~Untried(k.leg[tx.leg]),
         \A l \in Legs : k.leg[l].status = "accepted" => Tx(j, l) \in B
  PROVE  JobInv(k, W, B, bal, quar, n, en)
<1>0. j \in JobSet
  BY DEF JobInv, JobOK
<1>1. /\ PlanIsValid(k) /\ \A l \in Legs : Tx(k, l) = Tx(j, l)
      /\ OwedOf(k, 1, B) = OwedOf(j, 1, B) /\ OwedOf(k, 2, B) = OwedOf(j, 2, B)
      /\ j.leg[1].cat = k.leg[1].cat /\ j.leg[2].cat = k.leg[2].cat
  BY <1>0, AlikeKeeps DEF JobInv, JobOK, Legs
<1>2. k.id = j.id /\ k.splitter = j.splitter
  BY DEF Alike
<1>3. \A tx \in W : tx.leg \in Legs
  BY DEF TxSet
<1>4. JobOK(k)
  BY <1>1 DEF JobInv, JobOK
<1>5. \A tx \in W : tx.job = k.id => tx = Tx(k, tx.leg) /\ ~Untried(k.leg[tx.leg])
  BY <1>1, <1>2, <1>3 DEF JobInv
<1>6. \A tx \in W : tx.splitter = k.splitter /\ tx.job # k.id => tx.cat < k.leg[1].cat
  BY <1>1, <1>2 DEF JobInv
<1> QED
  BY <1>1, <1>2, <1>4, <1>5, <1>6 DEF JobInv

\* A transfer of the job is sent.
LEMMA JobSends ==
  ASSUME NEW k, NEW l \in Legs, ~Untried(k.leg[l]),
         NEW W, NEW B, NEW bal, NEW quar, NEW n, NEW en,
         JobInv(k, W, B, bal, quar, n, en)
  PROVE  JobInv(k, W \cup {Tx(k, l)}, B, bal, quar, n, en)
<1>1. k \in JobSet
  BY DEF JobInv, JobOK
<1>2. Tx(k, l).job = k.id /\ Tx(k, l).leg = l
  BY <1>1, TxIs
<1> QED
  BY <1>2 DEF JobInv

\* The second leg gets a new identity.
LEMMA JobRepins ==
  ASSUME NEW j, NEW f \in Nat, NEW s \in Nat,
         NEW W, NEW B, NEW bal, NEW quar, NEW n, NEW en,
         W \subseteq TxSet, JobInv(j, W, B, bal, quar, n, en),
         j.leg[1].status = "accepted", j.leg[2].status # "accepted",
         j.leg[2].gross > f,
         \A tx \in W : ~(tx.job = j.id /\ tx.leg = 2)
  PROVE  LET k == Repin(j, 2, f, s)
         IN  /\ JobInv(k, W, B, bal, quar, n, en)
             /\ k.id = j.id /\ k.splitter = j.splitter /\ k.start = j.start
             /\ k.leg[1].status = "accepted" /\ k.leg[2].status = "ready"
             /\ Untried(k.leg[2]) /\ CurrentLeg(k) = 2
             /\ k.leg[2].cat = IF j.leg[2].cat + 1 <= s THEN s ELSE j.leg[2].cat + 1
<1>0. /\ j \in JobSet /\ j.leg[1] \in LegSet /\ j.leg[2] \in LegSet
      /\ j.leg[2].cat \in Nat /\ j.leg[2].gross \in Nat /\ j.leg[1].cat \in Nat
  BY JobTyped, LegTyped DEF JobInv, JobOK
<1> DEFINE c == IF j.leg[2].cat + 1 <= s THEN s ELSE j.leg[2].cat + 1
           g == NewLeg(j.leg[2].gross, f, c)
           k == Repin(j, 2, f, s)
<1>1. c \in Nat /\ Max({j.leg[2].cat + 1, s}) = c /\ j.leg[2].cat < c
  <2>1. PICK d \in Nat : d = j.leg[2].cat + 1
    BY <1>0
  <2>2. Max({d, s}) = IF d <= s THEN s ELSE d
    BY MaxPair
  <2>3. c = IF d <= s THEN s ELSE d
    BY <2>1
  <2>4. Max({j.leg[2].cat + 1, s}) = c
    BY <2>1, <2>2, <2>3, Zenon
  <2> QED
    BY <1>0, <2>1, <2>3, <2>4
<1> HIDE DEF c
<1>2. /\ g \in LegSet /\ g.gross = j.leg[2].gross /\ g.cat = c /\ g.fee = f
      /\ g.amt + g.fee = g.gross /\ Untried(g) /\ g.status = "ready"
  BY <1>0, <1>1 DEF NewLeg, LegSet, Untried
<1>3. k = WithLeg(j, 2, g)
  BY <1>0, <1>1 DEF Repin, WithLeg, JobSet, Legs
<1> HIDE DEF g, k
<1>4. /\ k \in JobSet /\ k.id = j.id /\ k.splitter = j.splitter
      /\ k.start = j.start /\ k.leg[2] = g /\ k.leg[1] = j.leg[1]
  <2>1. 1 \in Legs /\ 2 \in Legs
    BY DEF Legs
  <2>2. j \in JobSet /\ g \in LegSet
    BY <1>0, <1>2
  <2>3. /\ WithLeg(j, 2, g) \in JobSet /\ WithLeg(j, 2, g).id = j.id
        /\ WithLeg(j, 2, g).splitter = j.splitter
        /\ WithLeg(j, 2, g).start = j.start /\ WithLeg(j, 2, g).leg[2] = g
        /\ \A m \in Legs : m # 2 => WithLeg(j, 2, g).leg[m] = j.leg[m]
    BY <2>1, <2>2, WithLegIs
  <2> QED
    BY <1>3, <2>1, <2>3
<1>5. PlanIsValid(k)
  <2>1. PlanIsValid(j) /\ j.leg[1].cat < j.leg[2].cat
    BY DEF JobInv, JobOK
  <2>2. k.leg[1].cat # k.leg[2].cat
    BY <1>0, <1>1, <1>2, <1>4, <2>1
  <2> QED
    BY <1>0, <1>2, <1>4, <2>1, <2>2 DEF PlanIsValid, Legs
<1>6. JobOK(k)
  <2>1. j.leg[1].cat < j.leg[2].cat
    BY DEF JobInv, JobOK
  <2>2. k.leg[1].cat < k.leg[2].cat
    BY <1>0, <1>1, <1>2, <1>4, <2>1
  <2> QED
    BY <1>2, <1>4, <1>5, <2>2 DEF JobOK, InTurn
<1>7. Tx(k, 1) = Tx(j, 1)
  BY <1>4 DEF Tx
<1>8. \A tx \in W : tx.job = k.id => tx = Tx(k, tx.leg) /\ ~Untried(k.leg[tx.leg])
  <2> TAKE tx \in W
  <2> HAVE tx.job = k.id
  <2>1. tx.leg = 1
    BY <1>4 DEF TxSet, Legs
  <2>2. tx = Tx(j, tx.leg) /\ ~Untried(j.leg[tx.leg])
    BY <1>4 DEF JobInv
  <2> QED
    BY <1>4, <1>7, <2>1, <2>2
<1>9. \A l \in Legs : k.leg[l].status = "accepted" => Tx(k, l) \in B
  BY <1>2, <1>4, <1>7 DEF JobInv, Legs
<1>10. OwedOf(k, 1, B) = OwedOf(j, 1, B) /\ OwedOf(k, 2, B) = OwedOf(j, 2, B)
  BY <1>2, <1>4 DEF OwedOf
<1>11. JobInv(k, W, B, bal, quar, n, en)
  BY <1>4, <1>6, <1>8, <1>9, <1>10 DEF JobInv
<1>12. CurrentLeg(k) = 2
  BY <1>2, <1>4, CurrentLegIs
<1> QED
  BY <1>2, <1>4, <1>11, <1>12 DEF k, c

\* The transfer of the current leg was accepted.
LEMMA JobAccepts ==
  ASSUME NEW j, NEW W, NEW B, NEW bal, NEW quar, NEW n, NEW en,
         W \subseteq TxSet, JobInv(j, W, B, bal, quar, n, en),
         NEW l \in Legs, l = CurrentLeg(j), j.leg[l].status = "ready", Tx(j, l) \in B
  PROVE  LET k == [j EXCEPT !.leg[l].status = "accepted"]
         IN  JobInv(k, W, B, bal, quar, n, en) /\ Alike(j, k)
<1>0. j \in JobSet /\ j.leg[l] \in LegSet /\ JobOK(j)
  BY JobTyped DEF JobInv, JobOK
<1> DEFINE g == [j.leg[l] EXCEPT !.status = "accepted"]
           k == [j EXCEPT !.leg[l].status = "accepted"]
<1>1. /\ g \in LegSet /\ g.status = "accepted" /\ g.gross = j.leg[l].gross
      /\ g.amt = j.leg[l].amt /\ g.fee = j.leg[l].fee /\ g.cat = j.leg[l].cat
  BY <1>0 DEF LegSet
<1>2. k = WithLeg(j, l, g)
  BY <1>0 DEF WithLeg, JobSet
<1> HIDE DEF g, k
<1>3. /\ WithLeg(j, l, g) \in JobSet /\ WithLeg(j, l, g).leg[l] = g
      /\ \A m \in Legs : m # l => WithLeg(j, l, g).leg[m] = j.leg[m]
  BY <1>0, <1>1, WithLegIs
<1>4. Alike(j, WithLeg(j, l, g))
  BY <1>0, <1>1, WithLegAlike
<1>5. /\ k \in JobSet /\ Alike(j, k) /\ k.leg[l].status = "accepted"
      /\ \A m \in Legs : m # l => k.leg[m] = j.leg[m]
  BY <1>1, <1>2, <1>3, <1>4
<1>6. InTurn(k)
  <2>1. CASE l = 1
    BY <1>0, <1>5, <2>1 DEF JobOK, InTurn, Legs
  <2>2. CASE l = 2
    BY <1>0, <1>5, <2>2, CurrentLegIs DEF JobOK, InTurn, Legs
  <2> QED
    BY <2>1, <2>2 DEF Legs
<1>7. \A tx \in W : tx.job = j.id => ~Untried(k.leg[tx.leg])
  <2> TAKE tx \in W
  <2> HAVE tx.job = j.id
  <2>1. tx.leg \in Legs /\ ~Untried(j.leg[tx.leg])
    BY DEF TxSet, JobInv
  <2> QED
    BY <1>5, <2>1 DEF Untried
<1>8. \A m \in Legs : k.leg[m].status = "accepted" => Tx(j, m) \in B
  BY <1>5 DEF JobInv
<1>9. JobInv(k, W, B, bal, quar, n, en)
  BY <1>5, <1>6, <1>7, <1>8, JobRecords
<1> QED
  BY <1>5, <1>9 DEF k

\* An attempt of the current leg whose outcome is not known was seen.
LEMMA JobSeen ==
  ASSUME NEW j, NEW W, NEW B, NEW bal, NEW quar, NEW n, NEW en,
         W \subseteq TxSet, JobInv(j, W, B, bal, quar, n, en),
         NEW l \in Legs, l = CurrentLeg(j), j.leg[l].status = "ready"
  PROVE  LET k == [j EXCEPT !.leg[l].seen = TRUE]
         IN  JobInv(k, W, B, bal, quar, n, en) /\ Alike(j, k)
<1>0. j \in JobSet /\ j.leg[l] \in LegSet /\ JobOK(j)
  BY JobTyped DEF JobInv, JobOK
<1> DEFINE g == [j.leg[l] EXCEPT !.seen = TRUE]
           k == [j EXCEPT !.leg[l].seen = TRUE]
<1>1. /\ g \in LegSet /\ g.status = "ready" /\ g.gross = j.leg[l].gross
      /\ g.amt = j.leg[l].amt /\ g.fee = j.leg[l].fee /\ g.cat = j.leg[l].cat
      /\ g.seen = TRUE
  BY <1>0 DEF LegSet
<1>2. k = WithLeg(j, l, g)
  BY <1>0 DEF WithLeg, JobSet
<1> HIDE DEF g, k
<1>3. /\ WithLeg(j, l, g) \in JobSet /\ WithLeg(j, l, g).leg[l] = g
      /\ \A m \in Legs : m # l => WithLeg(j, l, g).leg[m] = j.leg[m]
  BY <1>0, <1>1, WithLegIs
<1>4. Alike(j, WithLeg(j, l, g))
  BY <1>0, <1>1, WithLegAlike
<1>5. /\ k \in JobSet /\ Alike(j, k) /\ k.leg[l].status = "ready"
      /\ k.leg[l].seen = TRUE
      /\ \A m \in Legs : m # l => k.leg[m] = j.leg[m]
  BY <1>1, <1>2, <1>3, <1>4
<1>6. InTurn(k)
  <2>1. CASE l = 1
    BY <1>0, <1>5, <2>1 DEF JobOK, InTurn, Legs
  <2>2. CASE l = 2
    BY <1>0, <1>5, <2>2, CurrentLegIs DEF JobOK, InTurn, Legs
  <2> QED
    BY <2>1, <2>2 DEF Legs
<1>7. \A tx \in W : tx.job = j.id => ~Untried(k.leg[tx.leg])
  <2> TAKE tx \in W
  <2> HAVE tx.job = j.id
  <2>1. tx.leg \in Legs /\ ~Untried(j.leg[tx.leg])
    BY DEF TxSet, JobInv
  <2> QED
    BY <1>5, <2>1 DEF Untried
<1>8. \A m \in Legs : k.leg[m].status = "accepted" => Tx(j, m) \in B
  BY <1>5 DEF JobInv
<1>9. JobInv(k, W, B, bal, quar, n, en)
  BY <1>5, <1>6, <1>7, <1>8, JobRecords
<1> QED
  BY <1>5, <1>9 DEF k

\* The second leg waits, after a refusal that leaves no doubt.
LEMMA JobWaits ==
  ASSUME NEW j, NEW W, NEW B, NEW bal, NEW quar, NEW n, NEW en,
         W \subseteq TxSet, JobInv(j, W, B, bal, quar, n, en),
         NEW v \in {"fee", "funds"}, j.leg[1].status = "accepted",
         j.leg[2].seen = FALSE,
         \A tx \in W : ~(tx.job = j.id /\ tx.leg = 2),
         NEW k, k = [j EXCEPT !.leg[2].started = FALSE, !.leg[2].status = v]
  PROVE  JobInv(k, W, B, bal, quar, n, en) /\ Alike(j, k)
<1>a. 1 \in Legs /\ 2 \in Legs /\ Legs = {1, 2}
  BY DEF Legs
<1>0. j \in JobSet /\ j.leg[2] \in LegSet /\ JobOK(j)
  BY JobTyped DEF JobInv, JobOK
<1> DEFINE g == [j.leg[2] EXCEPT !.started = FALSE, !.status = v]
<1>1. /\ g \in LegSet /\ g.status = v /\ g.gross = j.leg[2].gross
      /\ g.amt = j.leg[2].amt /\ g.fee = j.leg[2].fee /\ g.cat = j.leg[2].cat
      /\ g.seen = FALSE /\ g.started = FALSE
  BY <1>0 DEF LegSet
<1>2. k = WithLeg(j, 2, g)
  BY <1>0, <1>a DEF WithLeg, JobSet
<1> HIDE DEF g
<1>3. /\ WithLeg(j, 2, g) \in JobSet /\ WithLeg(j, 2, g).leg[2] = g
      /\ \A m \in Legs : m # 2 => WithLeg(j, 2, g).leg[m] = j.leg[m]
  BY <1>0, <1>1, <1>a, WithLegIs
<1>4. Alike(j, WithLeg(j, 2, g))
  BY <1>0, <1>1, <1>a, WithLegAlike
<1>5. /\ k \in JobSet /\ Alike(j, k) /\ k.leg[2].status = v
      /\ k.leg[2].seen = FALSE /\ k.leg[2].started = FALSE
      /\ k.leg[1] = j.leg[1]
  <2>1. PICK w : w = WithLeg(j, 2, g)
    OBVIOUS
  <2>2. /\ w \in JobSet /\ Alike(j, w) /\ w.leg[2] = g /\ w.leg[1] = j.leg[1]
    BY <1>3, <1>4, <1>a, <2>1
  <2>3. /\ w.leg[2].status = v /\ w.leg[2].seen = FALSE /\ w.leg[2].started = FALSE
    BY <1>1, <2>2
  <2>4. k = w
    BY <1>2, <2>1
  <2> QED
    BY <2>2, <2>3, <2>4, Zenon
<1>6. InTurn(k)
  BY <1>5 DEF InTurn, Untried
<1>7. \A tx \in W : tx.job = j.id => ~Untried(k.leg[tx.leg])
  <2> TAKE tx \in W
  <2> HAVE tx.job = j.id
  <2>1. tx.leg = 1 /\ ~Untried(j.leg[tx.leg])
    BY <1>a DEF TxSet, JobInv
  <2> QED
    BY <1>5, <2>1
<1>8. \A m \in Legs : k.leg[m].status = "accepted" => Tx(j, m) \in B
  BY <1>5, <1>a DEF JobInv
<1>9. JobInv(k, W, B, bal, quar, n, en)
  BY <1>5, <1>6, <1>7, <1>8, JobRecords
<1> QED
  BY <1>5, <1>9

LEMMA ShareTyped ==
  ASSUME NEW i \in Splitters, NEW v \in Nat
  PROVE  DefaultGross(i, v) \in Nat
<1>1. PICK c \in Nat : c = Percentages[i]
  BY SplitAssumption DEF Splitters
<1>2. v * c \in Nat
  OBVIOUS
<1>3. PICK m \in Nat : m = v * c
  BY <1>2
<1>4. m \div 100 \in Nat
  OBVIOUS
<1> QED
  BY <1>1, <1>3, <1>4 DEF DefaultGross

\* The transfers of splitter i were pinned before t.
Older(W, i, t) == \A tx \in W : tx.splitter = i => tx.cat < t

\* The next job, number m, for splitter i from balance v with fee f at time t.
Plannable(j, i, v, f, t, m, n, W, B, bal, quar) ==
  /\ i \in Splitters /\ v \in Nat /\ f \in Nat /\ t \in Nat /\ n \in Nat
  /\ m = n + 1 /\ j = NewJob(m, i, v, f, t) /\ B \subseteq W
  /\ PlanFeasible(i, v, f) /\ quar[i] = NoJob /\ v <= bal[i] /\ Older(W, i, t)

Planned(j, i, t) == j # NoJob /\ j.splitter = i /\ j.leg[2].cat = t + 1

\* The jobs of the transfers W and of the ends en are among the first n.
Numbered(W, en, n) ==
  (\A tx \in W : tx.job \in 1 .. n) /\ (\A e \in en : e.id \in 1 .. n)

\* A job is planned.
LEMMA JobPlanned ==
  ASSUME NEW i, NEW v, NEW f, NEW s, NEW W, NEW B, NEW bal, NEW quar, NEW n, NEW m, NEW en,
         NEW j, Plannable(j, i, v, f, s, m, n, W, B, bal, quar), Numbered(W, en, n)
  PROVE  JobInv(j, W, B, bal, quar, m, en) /\ Planned(j, i, s) /\ j.id = m
<1>t. /\ i \in Splitters /\ v \in Nat /\ f \in Nat /\ s \in Nat /\ n \in Nat /\ m \in Nat
      /\ m = n + 1 /\ j = NewJob(m, i, v, f, s)
  BY DEF Plannable
<1> DEFINE d == DefaultGross(i, v)
           g == NewLeg(d, f, s)
           h == NewLeg(v - d, f, s + 1)
<1>0. /\ PlanFeasible(i, v, f) /\ quar[i] = NoJob /\ B \subseteq W /\ v <= bal[i]
      /\ \A tx \in W : tx.job \in 1 .. n /\ (tx.splitter = i => tx.cat < s)
      /\ \A e \in en : e.id \in 1 .. n
  BY DEF Plannable, Numbered, Older
<1>1. d \in Nat /\ d > f /\ v - d > f
  BY <1>0, <1>t, ShareTyped DEF PlanFeasible
<1>2. d = DefaultGross(i, v)
  OBVIOUS
<1> HIDE DEF d
<1>3. /\ g \in LegSet /\ h \in LegSet
      /\ g.gross = d /\ g.amt = d - f /\ g.fee = f /\ g.cat = s /\ g.status = "ready"
      /\ Untried(g) /\ Untried(h)
      /\ h.gross = v - d /\ h.amt = v - d - f /\ h.fee = f /\ h.cat = s + 1
      /\ h.status = "ready"
  BY <1>1, <1>t DEF NewLeg, LegSet, Untried
<1>4. j = [id |-> m, splitter |-> i, start |-> v, rev |-> 0, leg |-> <<g, h>>]
  BY <1>2, <1>t DEF NewJob
<1> HIDE DEF g, h
<1>5. <<g, h>> \in [Legs -> LegSet] /\ <<g, h>>[1] = g /\ <<g, h>>[2] = h
  BY <1>3, PairTyped
<1>6. /\ j \in JobSet /\ j.leg[1] = g /\ j.leg[2] = h /\ j.id = m
      /\ j.splitter = i /\ j.start = v
  BY <1>4, <1>5, <1>t DEF JobSet
<1>7. PlanIsValid(j)
  BY <1>1, <1>2, <1>3, <1>6, <1>t DEF PlanIsValid, Legs
<1>8. JobOK(j)
  BY <1>3, <1>6, <1>7, <1>t DEF JobOK, InTurn
<1>9. \A tx \in W : tx.job # m
  BY <1>0, <1>t
<1>10. OwedOf(j, 1, B) = d /\ OwedOf(j, 2, B) = v - d
  BY <1>0, <1>3, <1>6, <1>9 DEF OwedOf
<1>11. OwedOf(j, 1, B) + OwedOf(j, 2, B) <= bal[j.splitter]
  <2>1. d + (v - d) = v
    BY <1>1, <1>t
  <2> QED
    BY <1>0, <1>6, <1>10, <2>1
<1>12. \A l \in Legs : j.leg[l].status # "accepted"
  BY <1>3, <1>6 DEF Legs
<1>13. JobInv(j, W, B, bal, quar, m, en)
  <2>1. j.id \in 1 .. m /\ quar[j.splitter] = NoJob
    BY <1>0, <1>6, <1>t
  <2>2. \A e \in en : e.id # j.id
    BY <1>0, <1>6, <1>t
  <2>3. \A tx \in W : tx.job # j.id
    BY <1>6, <1>9
  <2>4. \A tx \in W : tx.splitter = j.splitter => tx.cat < j.leg[1].cat
    BY <1>0, <1>3, <1>6
  <2> QED
    BY <1>8, <1>11, <1>12, <2>1, <2>2, <2>3, <2>4 DEF JobInv
<1> QED
  BY <1>3, <1>6, <1>13, NoneAssumption DEF Planned

-----------------------------------------------------------------------------
(* Steps of the store.                                                       *)

\* The parts that speak of W hold of fewer transfers too.
LEMMA StoreShrinks ==
  ASSUME NEW W, NEW B, NEW bal, NEW quar, NEW j, NEW n, NEW en, NEW ls,
         StoreInv(W, B, bal, quar, j, n, en, ls), NEW V \in SUBSET W
  PROVE  StoreInv(V, B, bal, quar, j, n, en, ls)
<1>0. V \subseteq W
  OBVIOUS
<1>1. WildInv(V, n, ls)
  BY <1>0 DEF StoreInv, WildInv
<1>2. DeadInv(V, B, quar, j)
  BY <1>0 DEF StoreInv, DeadInv
<1>3. EndedInv(V, B, j, n, en)
  BY <1>0 DEF StoreInv, EndedInv
<1>4. j # NoJob => JobInv(j, V, B, bal, quar, n, en)
  BY <1>0 DEF StoreInv, JobInv
<1> QED
  BY <1>1, <1>2, <1>3, <1>4 DEF StoreInv

LEMMA StoreJob ==
  ASSUME NEW W, NEW B, NEW bal, NEW quar, NEW j, NEW n, NEW en, NEW ls,
         StoreInv(W, B, bal, quar, j, n, en, ls), j # NoJob
  PROVE  /\ j \in JobSet /\ JobOK(j) /\ JobInv(j, W, B, bal, quar, n, en)
         /\ W \subseteq TxSet /\ j.splitter \in Splitters
         /\ j.leg[1] \in LegSet /\ j.leg[2] \in LegSet
  BY JobTyped DEF StoreInv, JobInv, JobOK, WildInv

\* A new version of the active job.
LEMMA StoreReplaces ==
  ASSUME NEW W, NEW B, NEW bal, NEW quar, NEW j, NEW n, NEW en, NEW ls,
         StoreInv(W, B, bal, quar, j, n, en, ls), j # NoJob,
         NEW k, k.id = j.id, JobInv(k, W, B, bal, quar, n, en), k.leg[2].cat <= ls + 2
  PROVE  StoreInv(W, B, bal, quar, k, n, en, ls) /\ k # NoJob
<1>1. k # NoJob
  BY NoneAssumption DEF JobInv, JobOK
<1>2. DeadInv(W, B, quar, k)
  BY <1>1 DEF StoreInv, DeadInv
<1>3. EndedInv(W, B, k, n, en)
  BY <1>1 DEF StoreInv, EndedInv
<1> QED
  BY <1>1, <1>2, <1>3 DEF StoreInv

\* A transfer of the active job is sent.
LEMMA StoreSends ==
  ASSUME NEW W, NEW B, NEW bal, NEW quar, NEW j, NEW n, NEW en, NEW ls \in Nat,
         StoreInv(W, B, bal, quar, j, n, en, ls), j # NoJob,
         NEW l \in Legs, ~Untried(j.leg[l])
  PROVE  StoreInv(W \cup {Tx(j, l)}, B, bal, quar, j, n, en, ls)
<1> DEFINE tx == Tx(j, l)
<1>1. j \in JobSet /\ JobOK(j) /\ JobInv(j, W, B, bal, quar, n, en) /\ W \subseteq TxSet
  BY StoreJob
<1>2. /\ tx \in TxSet /\ tx.job = j.id /\ tx.leg = l /\ tx.splitter = j.splitter
      /\ tx.cat = j.leg[l].cat
  BY <1>1, TxIs
<1>3. /\ j.leg[1].cat \in Nat /\ j.leg[2].cat \in Nat /\ j.leg[1].cat < j.leg[2].cat
      /\ j.leg[2].cat <= ls + 2
  BY <1>1, JobTyped, LegTyped DEF JobOK, StoreInv
<1>4. j.leg[1].cat <= tx.cat /\ tx.cat <= ls + 2
  BY <1>2, <1>3 DEF Legs
<1> HIDE DEF tx
<1>5. \A u \in W : SameLeg(tx, u) => u = tx
  BY <1>1, <1>2 DEF SameLeg, JobInv, tx
<1>6. \A u \in W : Key(u) = Key(tx) => u = tx
  <2> SUFFICES ASSUME NEW u \in W, Key(u) = Key(tx) PROVE u = tx
    OBVIOUS
  <2>1. u.splitter = tx.splitter /\ u.leg = tx.leg /\ u.cat = tx.cat
    BY DEF Key
  <2>2. u.cat \in Nat /\ tx.cat \in Nat
    BY <1>1, <1>2 DEF TxSet
  <2>3. u.job = j.id
    BY <1>1, <1>2, <1>3, <1>4, <2>1, <2>2 DEF JobInv
  <2> QED
    BY <1>2, <1>5, <2>1, <2>3 DEF SameLeg
<1>7. WildInv(W \cup {tx}, n, ls)
  <2>1. tx.job \in 1 .. n
    BY <1>1, <1>2 DEF JobInv
  <2>2. WildInv(W, n, ls)
    BY DEF StoreInv
  <2>3. W \cup {tx} \subseteq TxSet
    BY <1>1, <1>2
  <2>4. \A x \in W \cup {tx} : x.job \in 1 .. n /\ x.cat <= ls + 2
    BY <1>4, <2>1, <2>2 DEF WildInv
  <2>5. \A x, u \in W \cup {tx} : SameLeg(x, u) => x = u
    BY <1>5, <2>2 DEF WildInv, SameLeg
  <2>6. \A x, u \in W \cup {tx} : Key(x) = Key(u) => x = u
    BY <1>6, <2>2 DEF WildInv
  <2> QED
    BY <2>3, <2>4, <2>5, <2>6 DEF WildInv
<1>8. DeadInv(W \cup {tx}, B, quar, j)
  BY <1>2 DEF StoreInv, DeadInv
<1>9. EndedInv(W \cup {tx}, B, j, n, en)
  BY <1>1, <1>2 DEF StoreInv, EndedInv, JobInv
<1>10. JobInv(j, W \cup {tx}, B, bal, quar, n, en)
  BY <1>1, JobSends DEF tx
<1> QED
  BY <1>7, <1>8, <1>9, <1>10 DEF StoreInv, tx

EndOf(j, how) == [id |-> j.id, start |-> j.start, how |-> how]

\* Both shares of the active job were accepted.
LEMMA StoreCompletes ==
  ASSUME NEW W, NEW B, NEW bal, NEW quar, NEW j, NEW n, NEW en, NEW ls,
         StoreInv(W, B, bal, quar, j, n, en, ls), j # NoJob, B \subseteq W,
         j.leg[1].status = "accepted", j.leg[2].status = "accepted"
  PROVE  StoreInv(W, B, bal, quar, NoJob, n, en \cup {EndOf(j, "completed")}, ls)
<1>1. j \in JobSet /\ JobOK(j) /\ JobInv(j, W, B, bal, quar, n, en) /\ W \subseteq TxSet
  BY StoreJob
<1>2. Tx(j, 1) \in B /\ Tx(j, 2) \in B
  BY <1>1 DEF JobInv, Legs
<1>3. \A x \in W : x.job = j.id => x = Tx(j, 1) \/ x = Tx(j, 2)
  BY <1>1 DEF JobInv, TxSet, Legs
<1> DEFINE e == EndOf(j, "completed")
           b == Tx(j, 1)
           c == Tx(j, 2)
<1>4. /\ b.job = j.id /\ b.leg = 1 /\ b.amt = j.leg[1].amt /\ b.fee = j.leg[1].fee
      /\ c.job = j.id /\ c.leg = 2 /\ c.amt = j.leg[2].amt /\ c.fee = j.leg[2].fee
  BY <1>1, TxIs DEF Legs
<1>5. e.id = j.id /\ e.start = j.start /\ e.how = "completed"
  BY DEF EndOf
<1> HIDE DEF b, c, e
<1>6. Debit(b) + Debit(c) = e.start
  <2>1. PlanIsValid(j)
    BY <1>1 DEF JobOK
  <2> QED
    BY <1>4, <1>5, <2>1 DEF PlanIsValid, Legs, Debit
<1>7. {x \in B : x.job = e.id} = {b, c}
  BY <1>2, <1>3, <1>4, <1>5 DEF b, c
<1>8. Conserved(e, B)
  BY <1>2, <1>4, <1>6, <1>7 DEF Conserved, b, c
<1>9. DeadInv(W, B, quar, NoJob)
  <2> SUFFICES ASSUME NEW x \in W \ B PROVE quar[x.splitter] # NoJob
    BY DEF DeadInv
  <2>1. x.job # j.id
    BY <1>2, <1>3
  <2> QED
    BY <2>1 DEF StoreInv, DeadInv
<1>10. EndedInv(W, B, NoJob, n, en \cup {e})
  <2>1. e.id \in 1 .. n
    BY <1>1, <1>5 DEF JobInv
  <2>2. EndedInv(W, B, j, n, en)
    BY DEF StoreInv
  <2>3. \A x \in en \cup {e} : /\ x.id \in 1 .. n
                               /\ x.how = "cleared" => \A tx \in W : tx.job # x.id
                               /\ x.how = "completed" => Conserved(x, B)
    BY <1>5, <1>8, <2>1, <2>2 DEF EndedInv
  <2>4. \A id \in 1 .. n : \E x \in en \cup {e} : x.id = id
    BY <1>5, <2>2 DEF EndedInv
  <2> QED
    BY <2>3, <2>4 DEF EndedInv
<1> QED
  BY <1>9, <1>10 DEF StoreInv, e

\* The active job is dropped before anything of it moved.
LEMMA StoreClears ==
  ASSUME NEW W, NEW B, NEW bal, NEW quar, NEW j, NEW n, NEW en, NEW ls,
         StoreInv(W, B, bal, quar, j, n, en, ls), j # NoJob,
         \A tx \in W : tx.job # j.id
  PROVE  StoreInv(W, B, bal, quar, NoJob, n, en \cup {EndOf(j, "cleared")}, ls)
<1> DEFINE e == EndOf(j, "cleared")
<1>1. JobInv(j, W, B, bal, quar, n, en)
  BY StoreJob
<1>2. e.id = j.id /\ e.how = "cleared"
  BY DEF EndOf
<1> HIDE DEF e
<1>3. DeadInv(W, B, quar, NoJob)
  BY DEF StoreInv, DeadInv
<1>4. EndedInv(W, B, NoJob, n, en \cup {e})
  <2>1. e.id \in 1 .. n
    BY <1>1, <1>2 DEF JobInv
  <2>2. EndedInv(W, B, j, n, en)
    BY DEF StoreInv
  <2>3. \A x \in en \cup {e} : /\ x.id \in 1 .. n
                               /\ x.how = "cleared" => \A tx \in W : tx.job # x.id
                               /\ x.how = "completed" => Conserved(x, B)
    BY <1>2, <2>1, <2>2 DEF EndedInv
  <2>4. \A id \in 1 .. n : \E x \in en \cup {e} : x.id = id
    BY <1>2, <2>2 DEF EndedInv
  <2> QED
    BY <2>3, <2>4 DEF EndedInv
<1> QED
  BY <1>3, <1>4 DEF StoreInv, e

\* The active job is quarantined.
LEMMA StoreQuarantines ==
  ASSUME NEW W, NEW B, NEW bal, NEW quar \in [Splitters -> JobSet \cup {NoJob}],
         NEW j, NEW n, NEW en, NEW ls,
         StoreInv(W, B, bal, quar, j, n, en, ls), j # NoJob,
         CurrentLeg(j) \in Legs, Prior(j.leg[CurrentLeg(j)]),
         ls - j.leg[CurrentLeg(j)].cat > Window
  PROVE  StoreInv(W, B, bal, [quar EXCEPT ![j.splitter] = j], NoJob, n,
                  en \cup {EndOf(j, "expired")}, ls)
<1> DEFINE e == EndOf(j, "expired")
           q == [quar EXCEPT ![j.splitter] = j]
<1>1. j \in JobSet /\ JobOK(j) /\ JobInv(j, W, B, bal, quar, n, en) /\ W \subseteq TxSet
      /\ j.splitter \in Splitters
  BY StoreJob
<1>2. e.id = j.id /\ e.how = "expired"
  BY DEF EndOf
<1>3. q[j.splitter] = j /\ \A i \in Splitters : i # j.splitter => q[i] = quar[i]
  BY <1>1
<1> HIDE DEF e, q
<1>4. DeadInv(W, B, q, NoJob)
  <2> SUFFICES ASSUME NEW x \in W \ B PROVE q[x.splitter] # NoJob
    BY DEF DeadInv
  <2>1. x.splitter \in Splitters
    BY <1>1 DEF TxSet
  <2>2. x.job = j.id => x.splitter = j.splitter
    BY <1>1, TxIs DEF JobInv, TxSet
  <2>3. x.job = j.id \/ quar[x.splitter] # NoJob
    BY DEF StoreInv, DeadInv
  <2> QED
    BY <1>3, <2>1, <2>2, <2>3
<1>5. EndedInv(W, B, NoJob, n, en \cup {e})
  <2>1. e.id \in 1 .. n
    BY <1>1, <1>2 DEF JobInv
  <2>2. EndedInv(W, B, j, n, en)
    BY DEF StoreInv
  <2>3. \A x \in en \cup {e} : /\ x.id \in 1 .. n
                               /\ x.how = "cleared" => \A tx \in W : tx.job # x.id
                               /\ x.how = "completed" => Conserved(x, B)
    BY <1>2, <2>1, <2>2 DEF EndedInv
  <2>4. \A id \in 1 .. n : \E x \in en \cup {e} : x.id = id
    BY <1>2, <2>2 DEF EndedInv
  <2> QED
    BY <2>3, <2>4 DEF EndedInv
<1>6. QuarInv(q, ls)
  <2>1. QuarInv(quar, ls) /\ PlanIsValid(j)
    BY <1>1 DEF StoreInv, JobOK
  <2> QED
    BY <1>3, <2>1 DEF QuarInv
<1> QED
  BY <1>4, <1>5, <1>6 DEF StoreInv, e, q

\* A job is planned where there is none.
LEMMA StorePlans ==
  ASSUME NEW W, NEW B, NEW bal, NEW quar, NEW n, NEW m, NEW en, NEW ls,
         NEW i, NEW v, NEW f, NEW j,
         StoreInv(W, B, bal, quar, NoJob, n, en, ls),
         Plannable(j, i, v, f, ls, m, n, W, B, bal, quar)
  PROVE  StoreInv(W, B, bal, quar, j, m, en, ls) /\ Planned(j, i, ls)
<1>0. /\ i \in Splitters /\ v \in Nat /\ f \in Nat /\ ls \in Nat /\ n \in Nat /\ m \in Nat
      /\ m = n + 1 /\ j = NewJob(m, i, v, f, ls) /\ B \subseteq W
      /\ PlanFeasible(i, v, f) /\ quar[i] = NoJob /\ v <= bal[i] /\ Older(W, i, ls)
  BY DEF Plannable
<1>1. /\ WildInv(W, n, ls) /\ DeadInv(W, B, quar, NoJob) /\ EndedInv(W, B, NoJob, n, en)
      /\ QuarInv(quar, ls)
  BY DEF StoreInv
<1>2. \A tx \in W : tx.job \in 1 .. n
  BY <1>1 DEF WildInv
<1>3. \A e \in en : e.id \in 1 .. n
  BY <1>1 DEF EndedInv
<1>4. JobInv(j, W, B, bal, quar, m, en) /\ Planned(j, i, ls) /\ j.id = m
  <2>1. Numbered(W, en, n)
    BY <1>2, <1>3 DEF Numbered
  <2> QED
    BY <2>1, JobPlanned
<1>5. j # NoJob
  BY <1>4, NoneAssumption DEF JobInv, JobOK
<1>6. WildInv(W, m, ls)
  BY <1>0, <1>1 DEF WildInv
<1>7. DeadInv(W, B, quar, j)
  BY <1>1 DEF DeadInv
<1>8. EndedInv(W, B, j, m, en)
  <2>1. \A e \in en : e.id \in 1 .. m
    BY <1>0, <1>3
  <2>2. \A id \in 1 .. m : id = m \/ id \in 1 .. n
    BY <1>0
  <2> QED
    BY <1>1, <1>4, <1>5, <2>1, <2>2 DEF EndedInv
<1> QED
  BY <1>0, <1>1, <1>4, <1>5, <1>6, <1>7, <1>8 DEF StoreInv, Planned

\* The ledger executes a transfer.
LEMMA StoreExecutes ==
  ASSUME NEW W, NEW B, NEW bal \in [Splitters -> Nat], NEW quar, NEW j, NEW n, NEW en, NEW ls,
         StoreInv(W, B, bal, quar, j, n, en, ls), B \subseteq W,
         NEW tx \in W, tx \notin B, bal[tx.splitter] >= tx.amt + tx.fee
  PROVE  StoreInv(W, B \cup {tx}, [bal EXCEPT ![tx.splitter] = @ - (tx.amt + tx.fee)],
                  quar, j, n, en, ls)
<1> DEFINE C == B \cup {tx}
           nb == [bal EXCEPT ![tx.splitter] = @ - (tx.amt + tx.fee)]
<1>0. W \subseteq TxSet /\ tx \in TxSet
  BY DEF StoreInv, WildInv
<1>a. tx.splitter \in Splitters /\ tx.amt \in Nat /\ tx.fee \in Nat /\ tx.leg \in Legs
  BY <1>0 DEF TxSet
<1>b. /\ nb \in [Splitters -> Nat] /\ nb[tx.splitter] = bal[tx.splitter] - (tx.amt + tx.fee)
      /\ \A i \in Splitters : i # tx.splitter => nb[i] = bal[i]
  BY <1>a
<1> HIDE DEF nb
<1>c. \A b \in B : ~SameLeg(b, tx)
  BY DEF StoreInv, WildInv
<1>1. DeadInv(W, C, quar, j)
  BY DEF StoreInv, DeadInv
<1>2. EndedInv(W, C, j, n, en)
  <2>1. EndedInv(W, B, j, n, en)
    BY DEF StoreInv
  <2>2. ASSUME NEW e \in en, e.how = "completed" PROVE Conserved(e, C)
    <3>1. PICK b \in B, c \in B :
            /\ {x \in B : x.job = e.id} = {b, c} /\ b.leg = 1 /\ c.leg = 2
            /\ Debit(b) + Debit(c) = e.start
      BY <2>1, <2>2 DEF EndedInv, Conserved
    <3>2. b.job = e.id /\ c.job = e.id
      BY <3>1
    <3>3. tx.job # e.id
      BY <1>a, <1>c, <3>1, <3>2 DEF SameLeg, Legs
    <3>4. {x \in C : x.job = e.id} = {b, c}
      BY <3>1, <3>3
    <3> QED
      BY <3>1, <3>4 DEF Conserved
  <2> QED
    BY <2>1, <2>2 DEF EndedInv
<1>3. ASSUME j # NoJob PROVE JobInv(j, W, C, nb, quar, n, en)
  <2>1. j \in JobSet /\ JobOK(j) /\ JobInv(j, W, B, bal, quar, n, en) /\ j.splitter \in Splitters
    BY <1>3, StoreJob
  <2>t. j.leg[1].gross \in Nat /\ j.leg[2].gross \in Nat
    BY <2>1, JobTyped, LegTyped
  <2>2. OwedOf(j, 1, C) + OwedOf(j, 2, C) <= nb[j.splitter]
    <3>1. CASE tx.job = j.id
      <4>1. tx = Tx(j, tx.leg)
        BY <2>1, <3>1 DEF JobInv
      <4>2. /\ tx.splitter = j.splitter /\ tx.amt = j.leg[tx.leg].amt
            /\ tx.fee = j.leg[tx.leg].fee
        BY <1>a, <2>1, <4>1, TxIs
      <4>3. tx.amt + tx.fee = j.leg[tx.leg].gross
        BY <1>a, <2>1, <4>2 DEF JobOK, PlanIsValid
      <4>4. /\ OwedOf(j, tx.leg, B) = j.leg[tx.leg].gross /\ OwedOf(j, tx.leg, C) = 0
            /\ \A m \in Legs : m # tx.leg => OwedOf(j, m, C) = OwedOf(j, m, B)
        BY <1>c, <3>1 DEF OwedOf, SameLeg
      <4>5. OwedOf(j, 1, B) \in Nat /\ OwedOf(j, 2, B) \in Nat
        BY <2>t DEF OwedOf
      <4>6. OwedOf(j, 1, B) + OwedOf(j, 2, B) <= bal[j.splitter] /\ bal[j.splitter] \in Nat
        BY <2>1 DEF JobInv
      <4>7. nb[j.splitter] = bal[j.splitter] - j.leg[tx.leg].gross
        BY <1>b, <4>2, <4>3
      <4>8. CASE tx.leg = 1
        BY <2>t, <4>4, <4>5, <4>6, <4>7, <4>8 DEF Legs
      <4>9. CASE tx.leg = 2
        BY <2>t, <4>4, <4>5, <4>6, <4>7, <4>9 DEF Legs
      <4> QED
        BY <1>a, <4>8, <4>9 DEF Legs
    <3>2. CASE tx.job # j.id
      <4>1. OwedOf(j, 1, C) = OwedOf(j, 1, B) /\ OwedOf(j, 2, C) = OwedOf(j, 2, B)
        BY <3>2 DEF OwedOf
      <4>2. quar[tx.splitter] # NoJob
        BY <3>2 DEF StoreInv, DeadInv
      <4>3. nb[j.splitter] = bal[j.splitter]
        BY <1>b, <2>1, <4>2 DEF JobInv
      <4> QED
        BY <2>1, <4>1, <4>3 DEF JobInv
    <3> QED
      BY <3>1, <3>2
  <2> QED
    BY <2>1, <2>2 DEF JobInv
<1> QED
  BY <1>1, <1>2, <1>3 DEF StoreInv, nb

\* Deposits arrive.
LEMMA StoreGrows ==
  ASSUME NEW W, NEW B, NEW bal \in [Splitters -> Nat], NEW quar, NEW j, NEW n, NEW en, NEW ls,
         StoreInv(W, B, bal, quar, j, n, en, ls),
         NEW nb \in [Splitters -> Nat], \A i \in Splitters : bal[i] <= nb[i]
  PROVE  StoreInv(W, B, nb, quar, j, n, en, ls)
<1>1. ASSUME j # NoJob PROVE JobInv(j, W, B, nb, quar, n, en)
  <2>1. j \in JobSet /\ JobInv(j, W, B, bal, quar, n, en) /\ j.splitter \in Splitters
    BY <1>1, StoreJob
  <2>2. j.leg[1].gross \in Nat /\ j.leg[2].gross \in Nat
    BY <2>1, JobTyped, LegTyped
  <2>3. OwedOf(j, 1, B) \in Nat /\ OwedOf(j, 2, B) \in Nat
    BY <2>2 DEF OwedOf
  <2>4. OwedOf(j, 1, B) + OwedOf(j, 2, B) <= nb[j.splitter]
    BY <2>1, <2>3 DEF JobInv
  <2> QED
    BY <2>1, <2>4 DEF JobInv
<1> QED
  BY <1>1 DEF StoreInv

\* A later activation starts.
LEMMA StoreLater ==
  ASSUME NEW W, NEW B, NEW bal, NEW quar \in [Splitters -> JobSet \cup {NoJob}], NEW j, NEW n,
         NEW en, NEW ls \in Nat,
         StoreInv(W, B, bal, quar, j, n, en, ls), NEW t \in Nat, ls <= t
  PROVE  StoreInv(W, B, bal, quar, j, n, en, t)
<1>1. WildInv(W, n, t)
  <2>1. \A tx \in W : tx.cat \in Nat
    BY DEF StoreInv, WildInv, TxSet
  <2> QED
    BY <2>1 DEF StoreInv, WildInv
<1>2. QuarInv(quar, t)
  <2> SUFFICES ASSUME NEW i \in Splitters, quar[i] # NoJob
               PROVE  t - quar[i].leg[CurrentLeg(quar[i])].cat > Window
    BY DEF StoreInv, QuarInv
  <2>1. quar[i] \in JobSet /\ CurrentLeg(quar[i]) \in Legs
    BY DEF StoreInv, QuarInv
  <2>2. quar[i].leg[CurrentLeg(quar[i])].cat \in Nat
    BY <2>1, JobTyped, LegTyped
  <2>3. ls - quar[i].leg[CurrentLeg(quar[i])].cat > Window
    BY DEF StoreInv, QuarInv
  <2> QED
    BY <2>2, <2>3, ClockAssumption
<1>3. ASSUME j # NoJob PROVE j.leg[2].cat <= t + 2
  <2>1. j.leg[2].cat \in Nat /\ j.leg[2].cat <= ls + 2
    BY <1>3, StoreJob, LegTyped DEF StoreInv
  <2> QED
    BY <2>1
<1> QED
  BY <1>1, <1>2, <1>3 DEF StoreInv

-----------------------------------------------------------------------------
(* Steps of the holder of the lease.                                         *)

LEMMA ActTyped ==
  ASSUME NEW a \in ActSet
  PROVE  /\ a.pc \in {"idle", "fee", "balance", "legFunds", "legFee", "transfer"}
         /\ a.start \in Nat /\ a.expiry \in Nat /\ a.main \in BOOLEAN
         /\ a.resumed \in Splitters \cup {0} /\ a.at \in Splitters \cup {0}
         /\ a.fee \in Nat /\ a.claimed \in JobSet \cup {NoJob}
         /\ a.prior \in BOOLEAN /\ a.got \in BOOLEAN /\ a.val \in Nat
         /\ a.verdict \in {"none", "accepted", "badFee", "insufficient", "refused"}
  BY DEF ActSet

LEMMA IdleTyped == Idle \in ActSet /\ Idle.pc = "idle" /\ ~InFlight(Idle)
  BY DEF Idle, ActSet, InFlight

LEMMA StTyped ==
  ASSUME NEW s \in StSet
  PROVE  /\ s.lock \in Nat /\ s.job \in JobSet \cup {NoJob} /\ s.rev \in Nat
         /\ s.cached \in Nat \cup {NoFee}
         /\ s.quar \in [Splitters -> JobSet \cup {NoJob}]
  BY DEF StSet

Own(a) == IF InFlight(a) THEN {Request(a)} ELSE {}

LEMMA WildIs ==
  ASSUME NEW p \in Proc
  PROVE  Wild = blocks \cup Others(p) \cup Own(act[p])
  BY DEF Wild, Others, Own

\* The others are left alone by a step of p.
LEMMA OthersStay ==
  ASSUME NEW p \in Proc, NEW a, act \in [Proc -> ActSet],
         act' = [act EXCEPT ![p] = a], late' = late
  PROVE  Others(p)' = Others(p)
<1>1. \A q \in Proc \ {p} : act'[q] = act[q]
  OBVIOUS
<1>2. \A q \in Proc \ {p} : Request(act[q])' = Request(act[q]) /\ InFlight(act[q])' = InFlight(act[q])
  BY <1>1 DEF Request, InFlight, Tx, CurrentLeg
<1> QED
  BY <1>2 DEF Others

\* Nothing of a splitter further on was pinned by this activation.
Ahead(a, W) ==
  \A tx \in W : tx.splitter > a.at /\ tx.splitter # a.resumed => tx.cat < a.start

\* p holds the lease and runs, with local state a and stored state s.
Runs(p, a, s) ==
  /\ a \in ActSet /\ s \in StSet /\ ~InFlight(act[p])
  /\ UNCHANGED <<now, ledger, late>>
  /\ lastStart' = lastStart \/ (lastStart < now /\ lastStart' = now)
  /\ a.start = lastStart' /\ a.expiry = lastStart' + Lease /\ s.lock = a.expiry
  /\ \A q \in Proc : q # p /\ act[q].pc # "idle" => act[q].start # lastStart'
  /\ Ahead(a, blocks \cup Others(p))

LEMMA Settles ==
  ASSUME IInv, NEW p \in Proc, NEW a, NEW s, Runs(p, a, s),
         NEW b \in ActSet, act' = [act EXCEPT ![p] = b],
         st' \in StSet, created' \in Nat, ended' \subseteq EndSet,
         st'.lock \in {Unlocked, lastStart' + Lease},
         b.pc # "idle" => /\ b.start = lastStart' /\ b.expiry = lastStart' + Lease
                          /\ HolderOK(b, Others(p), blocks, balance, st'),
         StoreInv(blocks \cup Others(p) \cup Own(b), blocks, balance,
                  st'.quar, st'.job, created', ended', lastStart')
  PROVE  IInv'
<1>0. /\ TypeOK /\ LeaseInv /\ HolderInv /\ act \in [Proc -> ActSet]
      /\ now \in Nat /\ lastStart \in Nat
  BY DEF IInv, TypeOK
<1>1. /\ UNCHANGED <<now, fee, balance, deposits, blocks, log, late>>
      /\ lastStart' \in Nat /\ lastStart <= lastStart'
  BY <1>0 DEF Runs, ledger
<1>2. act'[p] = b /\ \A q \in Proc : q # p => act'[q] = act[q]
  BY <1>0
<1>3. TypeOK'
  <2>1. act' \in [Proc -> ActSet]
    BY <1>0
  <2> QED
    BY <1>0, <1>1, <2>1 DEF TypeOK, StSet, EndSet
<1>4. LeaseInv'
  <2>1. lastStart' = now' \/ lastStart' + Stride <= now'
    BY <1>0, <1>1 DEF Runs, LeaseInv
  <2>2. ASSUME NEW q \in Proc, act'[q].pc # "idle"
        PROVE  /\ act'[q].expiry = act'[q].start + Lease /\ act'[q].start <= lastStart'
               /\ \A r \in Proc : r # q /\ act'[r].pc # "idle" => act'[r].start # act'[q].start
    <3>1. CASE q = p
      BY <1>1, <1>2, <2>2, <3>1 DEF Runs
    <3>2. CASE q # p
      <4>1. /\ act[q].pc # "idle" /\ act[q].expiry = act[q].start + Lease
            /\ act[q].start <= lastStart /\ act[q].start \in Nat
            /\ \A r \in Proc : r # q /\ act[r].pc # "idle" => act[r].start # act[q].start
        BY <1>0, <1>2, <2>2, <3>2, ActTyped DEF LeaseInv
      <4>2. act[q].start # lastStart'
        BY <3>2, <4>1 DEF Runs
      <4>3. ASSUME NEW r \in Proc, r # q, act'[r].pc # "idle" PROVE act'[r].start # act'[q].start
        BY <1>2, <3>2, <4>1, <4>2, <4>3
      <4>4. act'[q].start <= lastStart'
        BY <1>0, <1>1, <1>2, <3>2, <4>1
      <4> QED
        BY <1>2, <3>2, <4>1, <4>3, <4>4
    <3> QED
      BY <3>1, <3>2
  <2> QED
    BY <2>1, <2>2 DEF LeaseInv
<1>5. Others(p)' = Others(p)
  BY <1>0, <1>1, OthersStay
<1>6. HolderInv'
  <2> SUFFICES ASSUME NEW q \in Proc, (act[q].pc # "idle" /\ Current(q))'
               PROVE  HolderOK(act[q], Others(q), blocks, balance, st)'
    BY DEF HolderInv
  <2>1. CASE q = p
    <3>1. HolderOK(b, Others(p), blocks, balance, st')
      BY <1>2, <2>1
    <3> QED
      BY <1>1, <1>2, <1>5, <2>1, <3>1
  <2>2. CASE q # p
    <3>1. /\ act[q].pc # "idle" /\ act[q].expiry = act[q].start + Lease /\ act[q].start \in Nat
      BY <1>0, <1>2, <2>2, ActTyped DEF LeaseInv
    <3>2. st'.lock = act[q].expiry
      BY <1>2, <2>2 DEF Current
    <3>3. act[q].start # lastStart'
      BY <2>2, <3>1 DEF Runs
    <3> QED
      BY <1>1, <3>1, <3>2, <3>3, ClockAssumption DEF Unlocked
  <2> QED
    BY <2>1, <2>2
<1>7. Wild' = blocks \cup Others(p) \cup Own(b)
  <2>1. Wild' = blocks' \cup Others(p)' \cup Own(act[p])'
    BY WildIs DEF Wild, Others, Own
  <2>2. Own(act[p])' = Own(b)
    BY <1>2 DEF Own, InFlight, Request, Tx, CurrentLeg
  <2> QED
    BY <1>1, <1>5, <2>1, <2>2
<1>8. StoreInv(Wild, blocks, balance, st.quar, st.job, created, ended, lastStart)'
  <2>1. StoreInv(Wild', blocks', balance', st'.quar, st'.job, created', ended', lastStart')
    BY <1>1, <1>7
  <2> QED
    BY <2>1
<1>9. AskInv'
  <2>1. b.pc # "idle" => SearchInv(b, balance, st') /\ DriveInv(b, Others(p), blocks, st')
    BY DEF HolderOK
  <2>2. Asks(b)
    BY <2>1 DEF Asks, SearchInv, DriveInv, Driving
  <2> QED
    BY <1>2, <2>2 DEF IInv, AskInv, Asks
<1> QED
  BY <1>3, <1>4, <1>6, <1>8, <1>9 DEF IInv

\* The activation ends and gives the lease back.
LEMMA EndSettles ==
  ASSUME IInv, NEW p \in Proc, NEW a, NEW s, Runs(p, a, s), NEW t \in StSet,
         t.lock = s.lock, End(p, a, t), created' \in Nat, ended' \subseteq EndSet,
         StoreInv(blocks \cup Others(p), blocks, balance, t.quar, t.job,
                  created', ended', lastStart')
  PROVE  IInv'
<1>0. a.expiry \in Nat /\ t.lock = a.expiry
  BY ActTyped DEF Runs
<1>1. st' = [t EXCEPT !.lock = Unlocked]
  BY <1>0 DEF End, Released
<1>2. st' \in StSet /\ st'.lock = Unlocked /\ st'.quar = t.quar /\ st'.job = t.job
  BY <1>1 DEF StSet, Unlocked
<1>3. act' = [act EXCEPT ![p] = Idle]
  BY DEF End
<1>4. blocks \cup Others(p) \cup Own(Idle) = blocks \cup Others(p)
  BY IdleTyped DEF Own
<1> QED
  BY <1>2, <1>3, <1>4, IdleTyped, Settles

\* What Wait leaves in the activation.
Waiting(a, pc) ==
  [a EXCEPT !.pc = pc, !.got = FALSE, !.val = 0, !.verdict = "none"]

LEMMA WaitingIs ==
  ASSUME NEW a \in ActSet,
         NEW pc \in {"fee", "balance", "legFunds", "legFee", "transfer"}
  PROVE  LET b == Waiting(a, pc)
         IN  /\ b \in ActSet /\ b.pc = pc /\ b.got = FALSE /\ b.start = a.start
             /\ b.expiry = a.expiry /\ b.resumed = a.resumed /\ b.at = a.at
             /\ b.claimed = a.claimed /\ b.prior = a.prior /\ b.main = a.main
  BY DEF Waiting, ActSet

\* The activation waits for an answer.
LEMMA WaitSettles ==
  ASSUME IInv, NEW p \in Proc, NEW a, NEW s, Runs(p, a, s), NEW t \in StSet,
         t.lock = s.lock, NEW c \in ActSet, c.start = a.start, c.expiry = a.expiry,
         NEW pc \in {"fee", "balance", "legFunds", "legFee", "transfer"},
         Wait(p, c, t, pc), created' \in Nat, ended' \subseteq EndSet,
         NEW b, b = Waiting(c, pc),
         HolderOK(b, Others(p), blocks, balance, t),
         StoreInv(blocks \cup Others(p) \cup Own(b), blocks, balance,
                  t.quar, t.job, created', ended', lastStart')
  PROVE  IInv'
<1>0. /\ a.start = lastStart' /\ a.expiry = lastStart' + Lease /\ t.lock = a.expiry
  BY DEF Runs
<1>1. /\ b \in ActSet /\ b.pc = pc /\ b.start = c.start /\ b.expiry = c.expiry
  BY WaitingIs
<1>2. st' = t /\ act' = [act EXCEPT ![p] = b]
  BY DEF Wait, Waiting
<1>3. st' \in StSet /\ st'.lock \in {Unlocked, lastStart' + Lease}
  BY <1>0, <1>2
<1>4. StoreInv(blocks \cup Others(p) \cup Own(b), blocks, balance,
               st'.quar, st'.job, created', ended', lastStart')
  BY <1>2
<1>5. HolderOK(b, Others(p), blocks, balance, st')
  BY <1>2
<1> QED
  BY <1>0, <1>1, <1>2, <1>3, <1>4, <1>5, Settles

\* On to the next splitter, or out.
LEMMA NextSettles ==
  ASSUME IInv, NEW p \in Proc, NEW a, NEW s, Runs(p, a, s), NEW t \in StSet,
         t.lock = s.lock, t.job = NoJob, NextSplitter(p, a, t),
         created' \in Nat, ended' \subseteq EndSet,
         StoreInv(blocks \cup Others(p), blocks, balance, t.quar, NoJob,
                  created', ended', lastStart')
  PROVE  IInv'
<1> DEFINE S == Visitable(a, t)
<1>0. a \in ActSet
  BY DEF Runs
<1>1. CASE S = {}
  <2>1. End(p, a, t)
    BY <1>1 DEF NextSplitter
  <2> QED
    BY <2>1, EndSettles
<1>2. CASE S # {}
  <2>1. PICK i : i = Min(S)
    OBVIOUS
  <2>2. S \in SUBSET Nat
    BY SplittersAre DEF Visitable
  <2>3. i \in S
    BY <1>2, <2>1, <2>2, MinIs
  <2>4. i \in Splitters /\ i > a.at /\ i # a.resumed /\ t.quar[i] = NoJob
    BY <2>3 DEF Visitable
  <2>5. PICK c : c = [a EXCEPT !.at = i, !.claimed = NoJob]
    OBVIOUS
  <2>6. /\ c \in ActSet /\ c.start = a.start /\ c.expiry = a.expiry /\ c.at = i
        /\ c.resumed = a.resumed
    BY <1>0, <2>4, <2>5 DEF ActSet
  <2>7. Wait(p, c, t, "balance")
    BY <1>2, <2>1, <2>5 DEF NextSplitter
  <2>8. PICK b : b = Waiting(c, "balance")
    OBVIOUS
  <2>9. /\ b \in ActSet /\ b.pc = "balance" /\ b.got = FALSE /\ b.start = a.start
        /\ b.resumed = a.resumed /\ b.at = i
    BY <2>6, <2>8, WaitingIs
  <2>10. Own(b) = {}
    BY <2>9 DEF Own, InFlight
  <2>11. VisitInv(b, Others(p) \cup blocks)
    <3> SUFFICES ASSUME NEW tx \in Others(p) \cup blocks, tx.splitter \in ToVisit(b)
                 PROVE  tx.cat < b.start
      BY DEF VisitInv
    <3>1. tx.splitter \in Splitters /\ tx.splitter # a.resumed /\ tx.splitter >= i
      BY <2>4, <2>9, SplittersAre DEF ToVisit
    <3>2. a.at \in Nat
      BY <1>0, ActTyped, SplittersAre
    <3>3. tx.splitter > a.at
      BY <2>4, <3>1, <3>2, SplittersAre
    <3> QED
      BY <2>9, <3>1, <3>3 DEF Runs, Ahead
  <2>12. SearchInv(b, balance, t)
    BY <2>4, <2>9 DEF SearchInv
  <2>13. DriveInv(b, Others(p), blocks, t)
    BY <2>9 DEF DriveInv, Driving
  <2>14. HolderOK(b, Others(p), blocks, balance, t)
    BY <2>11, <2>12, <2>13 DEF HolderOK
  <2>15. StoreInv(blocks \cup Others(p) \cup Own(b), blocks, balance, t.quar, t.job,
                  created', ended', lastStart')
    BY <2>10
  <2> QED
    BY <2>6, <2>7, <2>8, <2>14, <2>15, WaitSettles
<1> QED
  BY <1>1, <1>2

\* What the store gives for the job that is driven.
LEMMA DrivenJob ==
  ASSUME NEW p, NEW j, j # NoJob, NEW quar, NEW n, NEW en, NEW ls,
         StoreInv(blocks \cup Others(p), blocks, balance, quar, j, n, en, ls)
  PROVE  /\ j \in JobSet /\ JobOK(j) /\ PlanIsValid(j) /\ InTurn(j)
         /\ JobInv(j, blocks \cup Others(p), blocks, balance, quar, n, en)
         /\ blocks \cup Others(p) \subseteq TxSet
         /\ j.leg[1] \in LegSet /\ j.leg[2] \in LegSet
  BY StoreJob DEF JobOK

\* Storing a claimed job.
LEMMA ClaimedIs ==
  ASSUME NEW s \in StSet, NEW k \in JobSet
  PROVE  LET t == [s EXCEPT !.rev = @ + 1, !.job = k]
         IN  t \in StSet /\ t.lock = s.lock /\ t.job = k /\ t.quar = s.quar
<1>1. PICK r \in Nat : r = s.rev + 1
  BY StTyped
<1>2. [s EXCEPT !.rev = @ + 1, !.job = k] = [s EXCEPT !.rev = r, !.job = k]
  BY <1>1
<1>3. LET t == [s EXCEPT !.rev = r, !.job = k]
      IN  t \in StSet /\ t.lock = s.lock /\ t.job = k /\ t.quar = s.quar
  BY DEF StSet
<1> QED
  BY <1>2, <1>3, Zenon

LEMMA RunsTyped ==
  ASSUME IInv, NEW p \in Proc, NEW a, NEW s, Runs(p, a, s)
  PROVE  /\ a \in ActSet /\ s \in StSet /\ s.rev + 1 \in Nat /\ lastStart' \in Nat
         /\ a.start = lastStart' /\ ended \subseteq EndSet
<1>1. a \in ActSet /\ s \in StSet /\ a.start = lastStart'
  BY DEF Runs
<1>2. s.rev + 1 \in Nat /\ a.start \in Nat
  BY <1>1, ActTyped, StTyped
<1>3. ended \subseteq EndSet
  BY DEF IInv, TypeOK, EndSet
<1> QED
  BY <1>1, <1>2, <1>3

\* The transfer of leg l is claimed and sent.
LEMMA SendSettles ==
  ASSUME IInv, NEW p \in Proc, NEW a, NEW s, Runs(p, a, s), NEW j, j # NoJob,
         StoreInv(blocks \cup Others(p), blocks, balance, s.quar, j, created', ended, lastStart'),
         NEW l \in Legs, l = CurrentLeg(j), j.leg[l].status = "ready",
         j.splitter \in {a.resumed, a.at}, j.leg[2].cat <= a.start + 1,
         Send(p, a, s, j, l), created' \in Nat
  PROVE  IInv'
<1> DEFINE W == blocks \cup Others(p)
<1>0. /\ j \in JobSet /\ JobOK(j) /\ InTurn(j) /\ W \subseteq TxSet
      /\ JobInv(j, W, blocks, balance, s.quar, created', ended)
      /\ j.leg[1] \in LegSet /\ j.leg[2] \in LegSet
  BY DrivenJob
<1>t. /\ a \in ActSet /\ s \in StSet /\ s.rev + 1 \in Nat /\ lastStart' \in Nat
      /\ a.start = lastStart' /\ ended \subseteq EndSet
  BY RunsTyped
<1>l. l \in {0, 1, 2} /\ j.leg[l] \in LegSet
  BY <1>0 DEF Legs
<1>1. PICK k : k = Claim(j, l, s.rev + 1)
  OBVIOUS
<1>2. /\ k \in JobSet /\ Alike(j, k)
      /\ \A m \in Legs : /\ k.leg[m].status = j.leg[m].status
                         /\ k.leg[m].seen = j.leg[m].seen
                         /\ m = l => k.leg[m].started = TRUE
                         /\ m # l => k.leg[m].started = j.leg[m].started
  <2>1. PICK r \in Nat : r = s.rev + 1
    BY <1>t
  <2>2. k = Claim(j, l, r)
    BY <1>1, <2>1
  <2>3. j \in JobSet /\ l \in {0, 1, 2} /\ r \in Nat
    BY <1>0, <1>l, <2>1
  <2>4. k \in JobSet /\ Alike(j, k) /\ Marked(j, k, l)
    BY <2>2, <2>3, ClaimIs
  <2> QED
    BY <2>4 DEF Marked
<1>3. InTurn(k)
  <2>1. CASE l = 1
    BY <1>0, <1>2, <2>1 DEF InTurn, Untried, Legs
  <2>2. CASE l = 2
    BY <1>0, <1>2, <2>2, CurrentLegIs DEF InTurn, Untried, Legs
  <2> QED
    BY <2>1, <2>2 DEF Legs
<1>4. \A tx \in W : tx.job = j.id => ~Untried(k.leg[tx.leg])
  <2> TAKE tx \in W
  <2> HAVE tx.job = j.id
  <2>1. tx.leg \in Legs /\ ~Untried(j.leg[tx.leg])
    BY <1>0 DEF TxSet, JobInv
  <2> QED
    BY <1>2, <2>1 DEF Untried
<1>5. \A m \in Legs : k.leg[m].status = "accepted" => Tx(j, m) \in blocks
  BY <1>0, <1>2 DEF JobInv
<1>6. JobInv(k, W, blocks, balance, s.quar, created', ended)
  BY <1>0, <1>2, <1>3, <1>4, <1>5, JobRecords
<1>7. k.id = j.id /\ k.splitter = j.splitter /\ k.leg[2].cat = j.leg[2].cat
  BY <1>2 DEF Alike, Legs
<1>8. StoreInv(W, blocks, balance, s.quar, k, created', ended, lastStart') /\ k # NoJob
  <2>1. k.leg[2].cat <= lastStart' + 2
    BY <1>7 DEF StoreInv
  <2> QED
    BY <1>6, <1>7, <2>1, StoreReplaces
<1>9. ~Untried(k.leg[l]) /\ k.leg[l].started = TRUE
  BY <1>2 DEF Untried
<1>10. StoreInv(W \cup {Tx(k, l)}, blocks, balance, s.quar, k, created', ended, lastStart')
  BY <1>8, <1>9, <1>t, StoreSends
<1>11. CurrentLeg(k) = l
  <2>1. CurrentLeg(k) = CurrentLeg(j)
    BY <1>2, Zenon DEF CurrentLeg
  <2> QED
    BY <2>1
<1>12. PICK t : t = [s EXCEPT !.rev = @ + 1, !.job = k]
  OBVIOUS
<1>13. t \in StSet /\ t.lock = s.lock /\ t.job = k /\ t.quar = s.quar
  BY <1>2, <1>12, <1>t, ClaimedIs
<1>14. PICK c : c = [[a EXCEPT !.prior = Prior(j.leg[l])] EXCEPT !.claimed = k]
  OBVIOUS
<1>15. Prior(j.leg[l]) \in BOOLEAN
  BY <1>l, LegTyped, Zenon DEF Prior
<1>16. /\ c \in ActSet /\ c.start = a.start /\ c.expiry = a.expiry /\ c.at = a.at
       /\ c.resumed = a.resumed /\ c.claimed = k /\ c.prior = Prior(j.leg[l])
  BY <1>2, <1>14, <1>15, <1>t DEF ActSet
<1>17. Wait(p, c, t, "transfer") /\ ended' = ended
  BY <1>1, <1>12, <1>14 DEF Send, ClaimAndWait
<1>18. PICK b : b = Waiting(c, "transfer")
  OBVIOUS
<1>19. /\ b \in ActSet /\ b.pc = "transfer" /\ b.got = FALSE /\ b.start = a.start
       /\ b.resumed = a.resumed /\ b.at = a.at /\ b.claimed = k
       /\ b.prior = Prior(j.leg[l])
  BY <1>16, <1>18, WaitingIs
<1>20. Request(b) = Tx(k, l) /\ Own(b) = {Tx(k, l)}
  BY <1>11, <1>19 DEF Own, InFlight, Request
<1>21. VisitInv(b, Others(p) \cup blocks)
  BY <1>19 DEF VisitInv, ToVisit, Runs, Ahead
<1>22. SearchInv(b, balance, t)
  BY <1>19 DEF SearchInv
<1>23. ASSUME b.prior = FALSE
       PROVE  /\ k.leg[l].seen = FALSE
              /\ \A tx \in W : ~SameLeg(tx, Tx(k, l))
  <2>1. ~Prior(j.leg[l])
    BY <1>19, <1>23, Zenon
  <2>2. j.leg[l].started = FALSE /\ j.leg[l].seen = FALSE
    <3>1. j.leg[l].started \in BOOLEAN /\ j.leg[l].seen \in BOOLEAN
      BY <1>l, LegTyped
    <3> QED
      BY <1>l, <2>1, <3>1, PriorIs
  <2>3. Untried(j.leg[l])
    BY <2>2 DEF Untried
  <2>4. Tx(k, l).job = j.id /\ Tx(k, l).leg = l
    BY <1>2, <1>7, TxIs
  <2>5. \A tx \in W : ~SameLeg(tx, Tx(k, l))
    BY <1>0, <2>3, <2>4 DEF JobInv, SameLeg
  <2> QED
    BY <1>2, <2>2, <2>5
<1>24. DriveInv(b, Others(p), blocks, t)
  <2>1. b.claimed.leg[2].cat <= b.start + 1
    BY <1>7, <1>19
  <2>2. /\ t.job = b.claimed /\ b.claimed \in JobSet
        /\ b.claimed.splitter \in {b.resumed, b.at}
    BY <1>2, <1>7, <1>13, <1>19
  <2>3. /\ CurrentLeg(b.claimed) \in Legs
        /\ b.claimed.leg[CurrentLeg(b.claimed)].status = "ready"
        /\ b.claimed.leg[CurrentLeg(b.claimed)].started = TRUE
    BY <1>2, <1>9, <1>11, <1>19
  <2>4. b.prior = FALSE =>
          /\ b.claimed.leg[CurrentLeg(b.claimed)].seen = FALSE
          /\ \A tx \in W : ~SameLeg(tx, Request(b))
    BY <1>11, <1>19, <1>20, <1>23
  <2> QED
    BY <1>19, <2>1, <2>2, <2>3, <2>4 DEF DriveInv
<1>25. HolderOK(b, Others(p), blocks, balance, t)
  BY <1>21, <1>22, <1>24 DEF HolderOK
<1>26. StoreInv(blocks \cup Others(p) \cup Own(b), blocks, balance, t.quar, t.job,
                created', ended', lastStart')
  BY <1>10, <1>13, <1>17, <1>20
<1> QED
  BY <1>13, <1>16, <1>17, <1>18, <1>25, <1>26, <1>t, WaitSettles

LEMMA EndTyped ==
  ASSUME NEW j \in JobSet
  PROVE  /\ EndOf(j, "completed") \in EndSet /\ EndOf(j, "cleared") \in EndSet
         /\ EndOf(j, "expired") \in EndSet
<1>1. j.id \in Nat /\ j.start \in Nat
  BY JobTyped
<1> QED
  BY <1>1 DEF EndOf, EndSet

\* A read is claimed and sent for the second leg that waits.
LEMMA AskSettles ==
  ASSUME IInv, NEW p \in Proc, NEW a, NEW s, Runs(p, a, s), NEW j, j # NoJob,
         StoreInv(blocks \cup Others(p), blocks, balance, s.quar, j, created', ended, lastStart'),
         NEW pc \in {"legFunds", "legFee"},
         pc = "legFunds" => j.leg[2].status = "funds",
         pc = "legFee" => j.leg[2].status = "fee",
         j.splitter \in {a.resumed, a.at}, j.leg[2].cat < a.start,
         ClaimAndWait(p, a, s, j, 0, pc), created' \in Nat
  PROVE  IInv'
<1> DEFINE W == blocks \cup Others(p)
<1>0. /\ j \in JobSet /\ JobOK(j) /\ InTurn(j) /\ W \subseteq TxSet
      /\ JobInv(j, W, blocks, balance, s.quar, created', ended)
      /\ j.leg[1] \in LegSet /\ j.leg[2] \in LegSet
  BY DrivenJob
<1>t. /\ a \in ActSet /\ s \in StSet /\ s.rev + 1 \in Nat /\ lastStart' \in Nat
      /\ a.start = lastStart' /\ ended \subseteq EndSet
  BY RunsTyped
<1>1. PICK k : k = Claim(j, 0, s.rev + 1)
  OBVIOUS
<1>2. k \in JobSet /\ Alike(j, k) /\ Marked(j, k, 0)
  <2>1. PICK r \in Nat : r = s.rev + 1
    BY <1>t
  <2>2. k = Claim(j, 0, r)
    BY <1>1, <2>1
  <2> QED
    BY <1>0, <2>2, ClaimIs
<1>3. \A m \in Legs : /\ k.leg[m].status = j.leg[m].status
                      /\ k.leg[m].seen = j.leg[m].seen
                      /\ k.leg[m].started = j.leg[m].started
  BY <1>2 DEF Marked, Legs
<1>4. InTurn(k)
  BY <1>0, <1>3 DEF InTurn, Untried, Legs
<1>5. \A tx \in W : tx.job = j.id => ~Untried(k.leg[tx.leg])
  <2> TAKE tx \in W
  <2> HAVE tx.job = j.id
  <2>1. tx.leg \in Legs /\ ~Untried(j.leg[tx.leg])
    BY <1>0 DEF TxSet, JobInv
  <2> QED
    BY <1>3, <2>1 DEF Untried
<1>6. \A m \in Legs : k.leg[m].status = "accepted" => Tx(j, m) \in blocks
  BY <1>0, <1>3 DEF JobInv
<1>7. JobInv(k, W, blocks, balance, s.quar, created', ended)
  BY <1>0, <1>2, <1>4, <1>5, <1>6, JobRecords
<1>8. k.id = j.id /\ k.splitter = j.splitter /\ k.leg[2].cat = j.leg[2].cat
  BY <1>2 DEF Alike, Legs
<1>9. StoreInv(W, blocks, balance, s.quar, k, created', ended, lastStart') /\ k # NoJob
  <2>1. k.leg[2].cat <= lastStart' + 2
    BY <1>8 DEF StoreInv
  <2> QED
    BY <1>7, <1>8, <2>1, StoreReplaces
<1>10. PICK t : t = [s EXCEPT !.rev = @ + 1, !.job = k]
  OBVIOUS
<1>11. t \in StSet /\ t.lock = s.lock /\ t.job = k /\ t.quar = s.quar
  BY <1>2, <1>10, <1>t, ClaimedIs
<1>12. PICK c : c = [a EXCEPT !.claimed = k]
  OBVIOUS
<1>13. /\ c \in ActSet /\ c.start = a.start /\ c.expiry = a.expiry /\ c.at = a.at
       /\ c.resumed = a.resumed /\ c.claimed = k
  BY <1>2, <1>12, <1>t DEF ActSet
<1>14. Wait(p, c, t, pc) /\ ended' = ended
  BY <1>1, <1>10, <1>12 DEF ClaimAndWait
<1>15. PICK b : b = Waiting(c, pc)
  OBVIOUS
<1>16. /\ b \in ActSet /\ b.pc = pc /\ b.got = FALSE /\ b.start = a.start
       /\ b.resumed = a.resumed /\ b.at = a.at /\ b.claimed = k
  <2>1. c \in ActSet /\ pc \in {"fee", "balance", "legFunds", "legFee", "transfer"}
    BY <1>13
  <2>2. /\ b \in ActSet /\ b.pc = pc /\ b.got = FALSE /\ b.start = c.start
        /\ b.resumed = c.resumed /\ b.at = c.at /\ b.claimed = c.claimed
    BY <1>15, <2>1, WaitingIs
  <2> QED
    BY <1>13, <2>2
<1>17. Own(b) = {}
  BY <1>16 DEF Own, InFlight
<1>18. VisitInv(b, Others(p) \cup blocks)
  BY <1>16 DEF VisitInv, ToVisit, Runs, Ahead
<1>19. SearchInv(b, balance, t)
  BY <1>16 DEF SearchInv
<1>20. DriveInv(b, Others(p), blocks, t)
  <2>1. k.leg[2].status = j.leg[2].status
    BY <1>3 DEF Legs
  <2> QED
    BY <1>2, <1>8, <1>11, <1>16, <2>1 DEF DriveInv
<1>21. HolderOK(b, Others(p), blocks, balance, t)
  BY <1>18, <1>19, <1>20 DEF HolderOK
<1>22. StoreInv(blocks \cup Others(p) \cup Own(b), blocks, balance, t.quar, t.job,
                created', ended', lastStart')
  BY <1>9, <1>11, <1>14, <1>17
<1> QED
  BY <1>11, <1>13, <1>14, <1>15, <1>21, <1>22, <1>t, WaitSettles

\* The job is finished.
LEMMA CompletedSettles ==
  ASSUME IInv, NEW p \in Proc, NEW a, NEW s, Runs(p, a, s), NEW j, j # NoJob,
         StoreInv(blocks \cup Others(p), blocks, balance, s.quar, j, created', ended, lastStart'),
         j.leg[1].status = "accepted", j.leg[2].status = "accepted",
         Completed(p, a, s, j), created' \in Nat
  PROVE  IInv'
<1>0. j \in JobSet /\ a \in ActSet /\ s \in StSet /\ ended \subseteq EndSet
  BY DrivenJob, RunsTyped
<1>1. ended' = ended \cup {EndOf(j, "completed")}
  BY DEF Completed, Record, EndOf
<1>2. ended' \subseteq EndSet
  <2>1. EndOf(j, "completed") \in EndSet
    BY <1>0, EndTyped
  <2> QED
    BY <1>0, <1>1, <2>1
<1>3. PICK t : t = [s EXCEPT !.job = NoJob]
  OBVIOUS
<1>4. t \in StSet /\ t.lock = s.lock /\ t.job = NoJob /\ t.quar = s.quar
  BY <1>0, <1>3 DEF StSet
<1>5. blocks \subseteq blocks \cup Others(p)
  OBVIOUS
<1>6. StoreInv(blocks \cup Others(p), blocks, balance, s.quar, NoJob, created',
               ended \cup {EndOf(j, "completed")}, lastStart')
  BY <1>5, StoreCompletes
<1>7. StoreInv(blocks \cup Others(p), blocks, balance, t.quar, t.job, created',
               ended', lastStart')
  BY <1>1, <1>4, <1>6
<1>8. CASE End(p, a, t)
  BY <1>2, <1>4, <1>7, <1>8, EndSettles
<1>9. CASE a.at = 0 /\ Wait(p, [a EXCEPT !.claimed = NoJob], t, "fee")
  <2>1. PICK c : c = [a EXCEPT !.claimed = NoJob]
    OBVIOUS
  <2>2. /\ c \in ActSet /\ c.start = a.start /\ c.expiry = a.expiry /\ c.at = 0
        /\ c.resumed = a.resumed
    BY <1>0, <1>9, <2>1 DEF ActSet
  <2>3. PICK b : b = Waiting(c, "fee")
    OBVIOUS
  <2>4. /\ b \in ActSet /\ b.pc = "fee" /\ b.got = FALSE /\ b.start = a.start
        /\ b.resumed = a.resumed /\ b.at = a.at
    BY <1>9, <2>2, <2>3, WaitingIs
  <2>5. Own(b) = {}
    BY <2>4 DEF Own, InFlight
  <2>6. VisitInv(b, Others(p) \cup blocks)
    BY <2>4 DEF VisitInv, ToVisit, Runs, Ahead
  <2>7. SearchInv(b, balance, t)
    BY <1>4, <1>9, <2>4 DEF SearchInv
  <2>8. DriveInv(b, Others(p), blocks, t)
    BY <2>4 DEF DriveInv, Driving
  <2>9. HolderOK(b, Others(p), blocks, balance, t)
    BY <2>6, <2>7, <2>8 DEF HolderOK
  <2>10. Wait(p, c, t, "fee")
    BY <1>9, <2>1
  <2>11. StoreInv(blocks \cup Others(p) \cup Own(b), blocks, balance, t.quar, t.job,
                  created', ended', lastStart')
    BY <1>7, <2>5
  <2> QED
    BY <1>2, <1>4, <2>2, <2>3, <2>9, <2>10, <2>11, WaitSettles
<1>10. CASE NextSplitter(p, a, t)
  <2>1. StoreInv(blocks \cup Others(p), blocks, balance, t.quar, NoJob, created',
                 ended', lastStart')
    BY <1>4, <1>7
  <2> QED
    BY <1>2, <1>4, <1>10, <2>1, NextSettles
<1> QED
  BY <1>3, <1>8, <1>9, <1>10 DEF Completed

\* The job is dropped, nothing of it having moved.
LEMMA ClearedSettles ==
  ASSUME IInv, NEW p \in Proc, NEW a, NEW s, Runs(p, a, s), NEW j, j # NoJob,
         StoreInv(blocks \cup Others(p), blocks, balance, s.quar, j, created', ended, lastStart'),
         \A tx \in blocks \cup Others(p) : tx.job # j.id,
         ClearedPreSpend(p, a, s, j), created' \in Nat
  PROVE  IInv'
<1>0. j \in JobSet /\ a \in ActSet /\ s \in StSet /\ ended \subseteq EndSet
  BY DrivenJob, RunsTyped
<1>1. ended' = ended \cup {EndOf(j, "cleared")}
  BY DEF ClearedPreSpend, Record, EndOf
<1>2. ended' \subseteq EndSet
  <2>1. EndOf(j, "cleared") \in EndSet
    BY <1>0, EndTyped
  <2> QED
    BY <1>0, <1>1, <2>1
<1>3. PICK t : t = [s EXCEPT !.job = NoJob]
  OBVIOUS
<1>4. t \in StSet /\ t.lock = s.lock /\ t.job = NoJob /\ t.quar = s.quar
  BY <1>0, <1>3 DEF StSet
<1>5. StoreInv(blocks \cup Others(p), blocks, balance, s.quar, NoJob, created',
               ended \cup {EndOf(j, "cleared")}, lastStart')
  BY StoreClears
<1>6. StoreInv(blocks \cup Others(p), blocks, balance, t.quar, t.job, created',
               ended', lastStart')
  BY <1>1, <1>4, <1>5
<1>7. End(p, a, t)
  BY <1>3 DEF ClearedPreSpend
<1> QED
  BY <1>2, <1>4, <1>6, <1>7, EndSettles

\* The job is quarantined.
LEMMA QuarantineSettles ==
  ASSUME IInv, NEW p \in Proc, NEW a, NEW s, Runs(p, a, s), NEW j, j # NoJob,
         StoreInv(blocks \cup Others(p), blocks, balance, s.quar, j, created', ended, lastStart'),
         CurrentLeg(j) \in Legs, Prior(j.leg[CurrentLeg(j)]),
         Expired(j.leg[CurrentLeg(j)], a.start),
         Quarantine(p, a, s, j, "expired"), created' \in Nat
  PROVE  IInv'
<1>0. j \in JobSet /\ a \in ActSet /\ s \in StSet /\ ended \subseteq EndSet
      /\ a.start = lastStart'
  BY DrivenJob, RunsTyped
<1>1. ended' = ended \cup {EndOf(j, "expired")}
  BY DEF Quarantine, Record, EndOf
<1>2. ended' \subseteq EndSet
  <2>1. EndOf(j, "expired") \in EndSet
    BY <1>0, EndTyped
  <2> QED
    BY <1>0, <1>1, <2>1
<1>3. PICK qu : qu = [s.quar EXCEPT ![j.splitter] = j]
  OBVIOUS
<1>4. s.quar \in [Splitters -> JobSet \cup {NoJob}]
  BY <1>0, StTyped
<1>5. qu \in [Splitters -> JobSet \cup {NoJob}]
  BY <1>0, <1>3, <1>4
<1>6. PICK t : t = [s EXCEPT !.job = NoJob, !.quar = qu]
  OBVIOUS
<1>7. t \in StSet /\ t.lock = s.lock /\ t.job = NoJob /\ t.quar = qu
  BY <1>0, <1>5, <1>6 DEF StSet
<1>8. lastStart' - j.leg[CurrentLeg(j)].cat > Window
  BY <1>0 DEF Expired
<1>9. StoreInv(blocks \cup Others(p), blocks, balance, qu, NoJob, created',
               ended \cup {EndOf(j, "expired")}, lastStart')
  BY <1>3, <1>4, <1>8, StoreQuarantines
<1>10. StoreInv(blocks \cup Others(p), blocks, balance, t.quar, t.job, created',
                ended', lastStart')
  BY <1>1, <1>7, <1>9
<1>11. [s EXCEPT !.job = NoJob, !.quar[j.splitter] = j] = t
  BY <1>0, <1>3, <1>6 DEF StSet
<1>12. End(p, a, t)
  BY <1>11 DEF Quarantine
<1> QED
  BY <1>2, <1>7, <1>10, <1>12, EndSettles

\* The driver, up to its next await or its end.
LEMMA DriveSettles ==
  ASSUME IInv, NEW p \in Proc, NEW a, NEW s, Runs(p, a, s), NEW j, j # NoJob,
         StoreInv(blocks \cup Others(p), blocks, balance, s.quar, j, created', ended, lastStart'),
         j.splitter \in {a.resumed, a.at}, j.leg[2].cat <= a.start + 1,
         j.leg[2].status \in {"funds", "fee"} => j.leg[2].cat < a.start,
         Drive(p, a, s, j), created' \in Nat
  PROVE  IInv'
<1> DEFINE W == blocks \cup Others(p)
<1>0. /\ j \in JobSet /\ PlanIsValid(j) /\ InTurn(j) /\ W \subseteq TxSet
      /\ JobInv(j, W, blocks, balance, s.quar, created', ended)
      /\ j.leg[1] \in LegSet /\ j.leg[2] \in LegSet
  BY DrivenJob
<1>t. /\ a \in ActSet /\ s \in StSet /\ lastStart' \in Nat
      /\ a.start = lastStart' /\ ended \subseteq EndSet
  BY RunsTyped
<1>1. PICK l : l = CurrentLeg(j)
  OBVIOUS
<1>2. /\ l \in {0, 1, 2}
      /\ l = 0 <=> j.leg[1].status = "accepted" /\ j.leg[2].status = "accepted"
      /\ l = 1 <=> j.leg[1].status # "accepted"
      /\ l = 2 <=> j.leg[1].status = "accepted" /\ j.leg[2].status # "accepted"
  BY <1>0, <1>1, CurrentLegIs
<1>3. \A tx \in W : tx.job = j.id => tx.leg \in Legs /\ ~Untried(j.leg[tx.leg])
  BY <1>0 DEF JobInv, TxSet
<1>4. CASE l = 0
  <2>1. Completed(p, a, s, j)
    BY <1>0, <1>1, <1>4 DEF Drive
  <2> QED
    BY <1>2, <1>4, <2>1, CompletedSettles
<1>5. CASE l # 0
  <2>0. l \in Legs /\ j.leg[l] \in LegSet
    BY <1>0, <1>2, <1>5 DEF Legs
  <2> DEFINE leg == j.leg[l]
  <2>1. \/ leg.status = "funds" /\ ClaimAndWait(p, a, s, j, 0, "legFunds")
        \/ leg.status = "fee" /\ ClaimAndWait(p, a, s, j, 0, "legFee")
        \/ leg.status = "ready" /\ Send(p, a, s, j, l)
        \/ /\ leg.status = "ready" /\ Expired(leg, a.start) /\ Prior(leg)
           /\ Quarantine(p, a, s, j, "expired")
        \/ /\ leg.status = "ready" /\ ~Prior(leg) /\ l = 1 /\ ClearedPreSpend(p, a, s, j)
        \/ /\ leg.status = "ready" /\ Expired(leg, a.start) /\ ~Prior(leg) /\ l = 2
           /\ Send(p, a, s, Repin(j, l, leg.fee, a.start), l)
    BY <1>0, <1>1, <1>5 DEF Drive
  <2>2. CASE leg.status = "funds" /\ ClaimAndWait(p, a, s, j, 0, "legFunds")
    <3>1. j.leg[2].status = "funds"
      BY <1>0, <1>2, <1>5, <2>2 DEF InTurn
    <3> QED
      BY <2>2, <3>1, AskSettles
  <2>3. CASE leg.status = "fee" /\ ClaimAndWait(p, a, s, j, 0, "legFee")
    <3>1. j.leg[2].status = "fee"
      BY <1>0, <1>2, <1>5, <2>3 DEF InTurn
    <3> QED
      BY <2>3, <3>1, AskSettles
  <2>4. CASE leg.status = "ready" /\ Send(p, a, s, j, l)
    BY <1>1, <2>0, <2>4, SendSettles
  <2>5. CASE /\ leg.status = "ready" /\ Expired(leg, a.start) /\ Prior(leg)
             /\ Quarantine(p, a, s, j, "expired")
    BY <1>1, <2>0, <2>5, QuarantineSettles
  <2>n. ASSUME leg.status = "ready", ~Prior(leg)
        PROVE  Untried(leg)
    <3>1. leg.started \in BOOLEAN /\ leg.seen \in BOOLEAN
      BY <2>0, LegTyped
    <3>2. leg.started = FALSE /\ leg.seen = FALSE
      BY <2>0, <2>n, <3>1, PriorIs
    <3> QED
      BY <2>n, <3>2 DEF Untried
  <2>6. CASE /\ leg.status = "ready" /\ ~Prior(leg) /\ l = 1 /\ ClearedPreSpend(p, a, s, j)
    <3>1. Untried(j.leg[1]) /\ Untried(j.leg[2])
      BY <1>0, <2>6, <2>n DEF InTurn
    <3>2. \A tx \in W : tx.job # j.id
      BY <1>3, <3>1 DEF Legs
    <3> QED
      BY <2>6, <3>2, ClearedSettles
  <2>7. CASE /\ leg.status = "ready" /\ Expired(leg, a.start) /\ ~Prior(leg) /\ l = 2
             /\ Send(p, a, s, Repin(j, l, leg.fee, a.start), l)
    <3>1. Untried(j.leg[2]) /\ j.leg[2].status = "ready" /\ j.leg[1].status = "accepted"
      BY <1>2, <2>7, <2>n
    <3>2. \A tx \in W : ~(tx.job = j.id /\ tx.leg = 2)
      BY <1>3, <3>1
    <3>3. /\ j.leg[2].cat \in Nat /\ j.leg[2].fee \in Nat /\ a.start \in Nat
          /\ j.leg[2].gross > j.leg[2].fee
      BY <1>0, <1>t, LegTyped DEF PlanIsValid, Legs
    <3>4. PICK k : k = Repin(j, 2, j.leg[2].fee, a.start)
      OBVIOUS
    <3>5. /\ JobInv(k, W, blocks, balance, s.quar, created', ended)
          /\ k.id = j.id /\ k.splitter = j.splitter
          /\ k.leg[2].status = "ready" /\ CurrentLeg(k) = 2
          /\ k.leg[2].cat = IF j.leg[2].cat + 1 <= a.start THEN a.start ELSE j.leg[2].cat + 1
      BY <1>0, <3>1, <3>2, <3>3, <3>4, JobRepins, SMTT(30)
    <3>6. k.leg[2].cat <= a.start + 1 /\ k.leg[2].cat <= lastStart' + 2
      <4>1. j.leg[2].cat < a.start
        BY <2>7, <3>3, ClockAssumption DEF Expired
      <4> QED
        BY <1>t, <3>3, <3>5, <4>1
    <3>7. StoreInv(W, blocks, balance, s.quar, k, created', ended, lastStart') /\ k # NoJob
      BY <3>5, <3>6, StoreReplaces
    <3>8. Send(p, a, s, k, 2)
      BY <2>7, <3>4
    <3>9. 2 \in Legs /\ k.splitter \in {a.resumed, a.at}
      BY <3>5 DEF Legs
    <3> QED
      BY <3>5, <3>6, <3>7, <3>8, <3>9, SendSettles
  <2> QED
    BY <2>1, <2>2, <2>3, <2>4, <2>5, <2>6, <2>7
<1> QED
  BY <1>4, <1>5

-----------------------------------------------------------------------------
(* Steps of an activation.                                                   *)

\* The types, the requests of others and those on their way.
LEMMA StateIs ==
  ASSUME IInv, NEW p \in Proc
  PROVE  /\ act \in [Proc -> ActSet] /\ act[p] \in ActSet /\ st \in StSet
         /\ now \in Nat /\ lastStart \in Nat /\ created \in Nat /\ ended \subseteq EndSet
         /\ balance \in [Splitters -> Nat] /\ fee \in Nat
         /\ Wild = blocks \cup Others(p) \cup Own(act[p]) /\ Wild \subseteq TxSet
         /\ StoreInv(Wild, blocks, balance, st.quar, st.job, created, ended, lastStart)
         /\ StoreInv(blocks \cup Others(p), blocks, balance, st.quar, st.job, created,
                     ended, lastStart)
<1>1. /\ act \in [Proc -> ActSet] /\ act[p] \in ActSet /\ st \in StSet
      /\ now \in Nat /\ lastStart \in Nat /\ created \in Nat /\ ended \subseteq EndSet
      /\ balance \in [Splitters -> Nat] /\ fee \in Nat
  BY SplitAssumption DEF IInv, TypeOK, StSet, EndSet
<1>2. Wild = blocks \cup Others(p) \cup Own(act[p])
  BY WildIs
<1>3. StoreInv(Wild, blocks, balance, st.quar, st.job, created, ended, lastStart)
  BY DEF IInv
<1>4. Wild \subseteq TxSet
  BY <1>3 DEF StoreInv, WildInv
<1>5. blocks \cup Others(p) \in SUBSET Wild
  BY <1>2
<1> QED
  BY <1>1, <1>2, <1>3, <1>4, <1>5, StoreShrinks

\* The holder of the lease is the last activation that started.
LEMMA CurrentIs ==
  ASSUME IInv, NEW p \in Proc, act[p].pc # "idle", Current(p)
  PROVE  /\ act[p].start = lastStart /\ act[p].expiry = lastStart + Lease
         /\ st.lock = act[p].expiry /\ act[p].expiry # Unlocked
         /\ \A q \in Proc : q # p /\ act[q].pc # "idle" => act[q].start # lastStart
         /\ HolderOK(act[p], Others(p), blocks, balance, st)
<1>1. act[p].start \in Nat /\ lastStart \in Nat
  BY StateIs, ActTyped
<1>2. /\ act[p].expiry = act[p].start + Lease /\ st.lock = act[p].expiry
      /\ st.lock \in {Unlocked, lastStart + Lease}
      /\ \A q \in Proc : q # p /\ act[q].pc # "idle" => act[q].start # act[p].start
  BY DEF IInv, LeaseInv, Current
<1>3. act[p].start = lastStart /\ act[p].expiry # Unlocked
  BY <1>1, <1>2, ClockAssumption DEF Unlocked
<1>4. HolderOK(act[p], Others(p), blocks, balance, st)
  BY DEF IInv, HolderInv
<1> QED
  BY <1>2, <1>3, <1>4

LEMMA CurrentRuns ==
  ASSUME IInv, NEW p \in Proc, act[p].pc # "idle", Current(p), ~InFlight(act[p]),
         UNCHANGED <<now, lastStart, ledger, late>>,
         NEW a \in ActSet, a.start = act[p].start, a.expiry = act[p].expiry,
         a.at = act[p].at, a.resumed = act[p].resumed, NEW s \in StSet, s.lock = st.lock
  PROVE  Runs(p, a, s)
<1>1. /\ act[p].start = lastStart /\ act[p].expiry = lastStart + Lease
      /\ st.lock = act[p].expiry
      /\ \A q \in Proc : q # p /\ act[q].pc # "idle" => act[q].start # lastStart
      /\ HolderOK(act[p], Others(p), blocks, balance, st)
  BY CurrentIs
<1>2. blocks \cup Others(p) \subseteq TxSet
  BY StateIs
<1>3. Ahead(a, blocks \cup Others(p))
  <2> SUFFICES ASSUME NEW tx \in blocks \cup Others(p),
                      tx.splitter > a.at, tx.splitter # a.resumed
               PROVE  tx.cat < a.start
    BY DEF Ahead
  <2>1. tx.splitter \in Splitters
    BY <1>2 DEF TxSet
  <2>2. tx.splitter \in ToVisit(act[p])
    BY <2>1 DEF ToVisit
  <2> QED
    BY <1>1, <2>2 DEF HolderOK, VisitInv
<1> QED
  BY <1>1, <1>3 DEF Runs

LEMMA HolderShrinks ==
  ASSUME NEW a, NEW O, NEW B, NEW bal, NEW s, HolderOK(a, O, B, bal, s),
         NEW Q \in SUBSET O, NEW t, t.job = s.job, t.quar = s.quar
  PROVE  HolderOK(a, Q, B, bal, t)
<1>1. VisitInv(a, Q \cup B)
  BY DEF HolderOK, VisitInv
<1>2. SearchInv(a, bal, t)
  BY DEF HolderOK, SearchInv
<1>3. DriveInv(a, Q, B, t)
  BY DEF HolderOK, DriveInv
<1> QED
  BY <1>1, <1>2, <1>3 DEF HolderOK

\* p stops or waits for something else than a transfer; the ledger and the
\* history stay, and a request p gives up on is late.
LEMMA Turns ==
  ASSUME IInv, NEW p \in Proc, act[p].pc # "idle",
         NEW b \in ActSet, act' = [act EXCEPT ![p] = b], ~InFlight(b), Asks(b),
         b.pc # "idle" => b.start = act[p].start /\ b.expiry = act[p].expiry,
         UNCHANGED <<now, lastStart, ledger, history>>,
         late \subseteq late', late' \subseteq late \cup Own(act[p]),
         st' \in StSet, st'.quar = st.quar, st'.lock \in {st.lock, Unlocked},
         st'.lock # Unlocked => st'.job = st.job,
         b.pc # "idle" /\ st'.lock = b.expiry => HolderOK(b, Others(p)', blocks, balance, st'),
         StoreInv(Wild, blocks, balance, st.quar, st'.job, created, ended, lastStart)
  PROVE  IInv'
<1>0. /\ act \in [Proc -> ActSet] /\ now \in Nat /\ lastStart \in Nat
      /\ TypeOK /\ LeaseInv /\ HolderInv /\ Wild \subseteq TxSet
      /\ Wild = blocks \cup Others(p) \cup Own(act[p])
  BY StateIs DEF IInv
<1>1. UNCHANGED <<now, lastStart, fee, balance, deposits, blocks, log, created, ended>>
  BY DEF ledger, history
<1>2. act'[p] = b /\ \A q \in Proc : q # p => act'[q] = act[q]
  BY <1>0
<1>3. TypeOK'
  <2>1. act' \in [Proc -> ActSet]
    BY <1>0
  <2>2. late' \subseteq TxSet
    BY <1>0 DEF Wild
  <2> QED
    BY <1>0, <1>1, <2>1, <2>2 DEF TypeOK, StSet
<1>4. LeaseInv'
  <2>1. lastStart' = now' \/ lastStart' + Stride <= now'
    BY <1>0, <1>1 DEF LeaseInv
  <2>2. st'.lock \in {Unlocked, lastStart' + Lease}
    BY <1>0, <1>1 DEF LeaseInv
  <2>3. \A q \in Proc : act'[q].pc # "idle" =>
          /\ act[q].pc # "idle" /\ act'[q].start = act[q].start /\ act'[q].expiry = act[q].expiry
    BY <1>2
  <2> QED
    BY <1>0, <1>1, <2>1, <2>2, <2>3 DEF LeaseInv
<1>5. ASSUME NEW q \in Proc, q # p
      PROVE  Others(q)' \subseteq Others(q)
  <2> SUFFICES ASSUME NEW tx \in Others(q)' PROVE tx \in Others(q)
    OBVIOUS
  <2>1. CASE tx \in late'
    <3>1. tx \in late \/ (InFlight(act[p]) /\ tx = Request(act[p]))
      BY <2>1 DEF Own
    <3> QED
      BY <1>5, <3>1 DEF Others
  <2>2. CASE tx \notin late'
    <3>1. PICK r \in Proc : r # q /\ InFlight(act[r])' /\ tx = Request(act[r])'
      BY <2>2 DEF Others
    <3>2. InFlight(act[p])' = InFlight(b)
      BY <1>2 DEF InFlight
    <3>3. r # p
      BY <3>1, <3>2
    <3>4. InFlight(act[r]) /\ tx = Request(act[r])
      BY <1>2, <3>1, <3>3 DEF InFlight, Request, Tx, CurrentLeg
    <3> QED
      BY <3>1, <3>4 DEF Others
  <2> QED
    BY <2>1, <2>2
<1>6. HolderInv'
  <2> SUFFICES ASSUME NEW q \in Proc, (act[q].pc # "idle" /\ Current(q))'
               PROVE  HolderOK(act[q], Others(q), blocks, balance, st)'
    BY DEF HolderInv
  <2>1. CASE q = p
    <3>1. HolderOK(b, Others(p)', blocks, balance, st')
      BY <1>2, <2>1 DEF Current
    <3> QED
      BY <1>1, <1>2, <2>1, <3>1
  <2>2. CASE q # p
    <3>1. act[q].pc # "idle" /\ st'.lock = act[q].expiry /\ act[q].start \in Nat
      BY <1>0, <1>2, <2>2, ActTyped DEF Current
    <3>2. act[q].expiry # Unlocked
      BY <1>0, <3>1, ClockAssumption DEF LeaseInv, Unlocked
    <3>3. Current(q) /\ st'.job = st.job
      BY <3>1, <3>2 DEF Current
    <3>4. HolderOK(act[q], Others(q), blocks, balance, st)
      BY <1>0, <3>1, <3>3 DEF HolderInv
    <3>5. Others(q)' \in SUBSET Others(q)
      BY <1>5, <2>2
    <3>6. HolderOK(act[q], Others(q)', blocks, balance, st')
      BY <3>3, <3>4, <3>5, HolderShrinks
    <3> QED
      BY <1>1, <1>2, <2>2, <3>6
  <2> QED
    BY <2>1, <2>2
<1>7. Wild' \subseteq Wild
  <2> SUFFICES ASSUME NEW tx \in Wild' PROVE tx \in Wild
    OBVIOUS
  <2>1. CASE tx \in blocks'
    BY <1>1, <2>1 DEF Wild
  <2>2. CASE tx \in late'
    <3>1. tx \in late \/ tx \in Own(act[p])
      BY <2>2
    <3> QED
      BY <1>0, <3>1 DEF Wild
  <2>3. CASE tx \notin blocks' /\ tx \notin late'
    <3>1. PICK r \in Proc : InFlight(act[r])' /\ tx = Request(act[r])'
      BY <2>3 DEF Wild
    <3>2. InFlight(act[p])' = InFlight(b)
      BY <1>2 DEF InFlight
    <3>3. r # p
      BY <3>1, <3>2
    <3>4. InFlight(act[r]) /\ tx = Request(act[r])
      BY <1>2, <3>1, <3>3 DEF InFlight, Request, Tx, CurrentLeg
    <3> QED
      BY <3>1, <3>4 DEF Wild
  <2> QED
    BY <2>1, <2>2, <2>3
<1>8. StoreInv(Wild, blocks, balance, st.quar, st.job, created, ended, lastStart)'
  <2>1. Wild' \in SUBSET Wild
    BY <1>7
  <2>2. StoreInv(Wild', blocks, balance, st.quar, st'.job, created, ended, lastStart)
    BY <2>1, StoreShrinks
  <2>3. StoreInv(Wild', blocks', balance', st'.quar, st'.job, created', ended', lastStart')
    BY <1>1, <2>2
  <2> QED
    BY <2>3
<1>9. AskInv'
  BY <1>2 DEF IInv, AskInv, Asks
<1> QED
  BY <1>3, <1>4, <1>6, <1>8, <1>9 DEF IInv

\* p ends.
LEMMA Leaves ==
  ASSUME IInv, NEW p \in Proc, act[p].pc # "idle",
         NEW s \in StSet, s.lock = st.lock, s.quar = st.quar, End(p, act[p], s),
         UNCHANGED <<now, lastStart, ledger, history>>,
         late \subseteq late', late' \subseteq late \cup Own(act[p]),
         Current(p) \/ s.job = st.job,
         StoreInv(Wild, blocks, balance, st.quar, s.job, created, ended, lastStart)
  PROVE  IInv'
<1>1. act' = [act EXCEPT ![p] = Idle] /\ st' = [s EXCEPT !.lock = Released(s.lock, act[p].expiry)]
  BY DEF End
<1>2. s.lock \in Nat /\ Released(s.lock, act[p].expiry) \in {s.lock, Unlocked}
  BY StTyped DEF Released
<1>3. Released(s.lock, act[p].expiry) \in Nat
  BY <1>2 DEF Unlocked
<1>4. /\ st' \in StSet /\ st'.lock = Released(s.lock, act[p].expiry)
      /\ st'.quar = st.quar /\ st'.job = s.job
  BY <1>1, <1>3 DEF StSet
<1>5. st'.lock # Unlocked => st'.job = st.job
  BY <1>4 DEF Current, Released
<1>6. st'.lock \in {st.lock, Unlocked}
  BY <1>2, <1>4
<1>7. Asks(Idle)
  BY DEF Asks, Idle
<1> QED
  BY <1>1, <1>4, <1>5, <1>6, <1>7, IdleTyped, Turns

LEMMA AbandonedIs ==
  ASSUME NEW p \in Proc, act[p] \in ActSet
  PROVE  late \subseteq Abandoned(p) /\ Abandoned(p) \subseteq late \cup Own(act[p])
<1>1. act[p].got \in BOOLEAN
  BY ActTyped
<1>2. InFlight(act[p]) <=> (act[p].pc = "transfer" /\ ~act[p].got)
  BY <1>1, Zenon DEF InFlight
<1> QED
  BY <1>2 DEF Abandoned, Own, Request

LEMMA TrapStep ==
  ASSUME IInv, NEW p \in Proc, Trap(p)
  PROVE  IInv'
<1>1. /\ act[p] \in ActSet /\ st \in StSet
      /\ StoreInv(Wild, blocks, balance, st.quar, st.job, created, ended, lastStart)
  BY StateIs
<1>2. late \subseteq late' /\ late' \subseteq late \cup Own(act[p])
  BY <1>1, AbandonedIs DEF Trap
<1> QED
  BY <1>1, <1>2, Leaves DEF Trap

\* What the holder of a transfer knows of its job.
LEMMA TransferIs ==
  ASSUME IInv, NEW p \in Proc, act[p].pc = "transfer", Owns(p)
  PROVE  /\ Current(p) /\ st.job = act[p].claimed /\ st.job # NoJob
         /\ CurrentLeg(st.job) \in Legs /\ st.job.leg[CurrentLeg(st.job)].status = "ready"
         /\ st.job.leg[2].cat <= lastStart + 1 /\ act[p].start = lastStart
         /\ st.job.splitter \in {act[p].resumed, act[p].at}
         /\ DriveInv(act[p], Others(p), blocks, st)
<1>1. Current(p) /\ st.job = act[p].claimed
  BY DEF Owns
<1>2. HolderOK(act[p], Others(p), blocks, balance, st) /\ act[p].start = lastStart
  BY <1>1, CurrentIs
<1>3. DriveInv(act[p], Others(p), blocks, st)
  BY <1>2 DEF HolderOK
<1>4. st.job \in JobSet
  BY <1>1, <1>3 DEF DriveInv, Driving
<1>5. st.job # NoJob
  BY <1>4, NoneAssumption
<1> QED
  BY <1>1, <1>2, <1>3, <1>5 DEF DriveInv, Driving

\* An attempt whose outcome is not known is recorded.
LEMMA SeenStored ==
  ASSUME IInv, NEW p \in Proc, act[p].pc = "transfer", Owns(p),
         NEW k, k = [st.job EXCEPT !.leg[CurrentLeg(st.job)].seen = TRUE]
  PROVE  k \in JobSet /\ StoreInv(Wild, blocks, balance, st.quar, k, created, ended, lastStart)
<1>1. PICK l : l = CurrentLeg(st.job)
  OBVIOUS
<1>2. st.job # NoJob /\ l \in Legs /\ st.job.leg[l].status = "ready"
  BY <1>1, TransferIs
<1>3. /\ StoreInv(Wild, blocks, balance, st.quar, st.job, created, ended, lastStart)
      /\ Wild \subseteq TxSet
  BY StateIs
<1>4. JobInv(st.job, Wild, blocks, balance, st.quar, created, ended)
  BY <1>2, <1>3, StoreJob
<1>5. k = [st.job EXCEPT !.leg[l].seen = TRUE]
  BY <1>1
<1>6. JobInv(k, Wild, blocks, balance, st.quar, created, ended) /\ Alike(st.job, k)
  BY <1>1, <1>2, <1>3, <1>4, <1>5, JobSeen
<1>7. k.id = st.job.id /\ k.leg[2].cat = st.job.leg[2].cat /\ k \in JobSet
  BY <1>6 DEF Alike, Legs, JobInv, JobOK
<1>8. k.leg[2].cat <= lastStart + 2
  BY <1>2, <1>3, <1>7 DEF StoreInv
<1> QED
  BY <1>2, <1>3, <1>6, <1>7, <1>8, StoreReplaces

LEMMA TransferUnknownStep ==
  ASSUME IInv, NEW p \in Proc, TransferUnknown(p)
  PROVE  IInv'
<1>1. /\ act[p] \in ActSet /\ st \in StSet
      /\ StoreInv(Wild, blocks, balance, st.quar, st.job, created, ended, lastStart)
  BY StateIs
<1>2. act[p].pc = "transfer" /\ UNCHANGED <<now, lastStart, ledger, history>>
  BY DEF TransferUnknown
<1>3. late \subseteq late' /\ late' \subseteq late \cup Own(act[p])
  BY <1>1, AbandonedIs DEF TransferUnknown
<1>4. CASE End(p, act[p], st)
  BY <1>1, <1>2, <1>3, <1>4, Leaves
<1>5. CASE Owns(p) /\ End(p, act[p], [st EXCEPT !.job.leg[CurrentLeg(st.job)].seen = TRUE])
  <2>1. PICK k : k = [st.job EXCEPT !.leg[CurrentLeg(st.job)].seen = TRUE]
    OBVIOUS
  <2>2. k \in JobSet /\ StoreInv(Wild, blocks, balance, st.quar, k, created, ended, lastStart)
    BY <1>2, <1>5, <2>1, SeenStored
  <2>3. PICK s : s = [st EXCEPT !.job = k]
    OBVIOUS
  <2>4. s \in StSet /\ s.lock = st.lock /\ s.quar = st.quar /\ s.job = k
    BY <1>1, <2>2, <2>3 DEF StSet
  <2>5. End(p, act[p], s)
    BY <1>5, <2>1, <2>3
  <2>6. Current(p)
    BY <1>5 DEF Owns
  <2> QED
    BY <1>2, <1>3, <2>2, <2>4, <2>5, <2>6, Leaves
<1> QED
  BY <1>4, <1>5 DEF TransferUnknown

LEMMA FeeResultsTyped ==
  ASSUME IInv, NEW p \in Proc, NEW r \in FeeResults
  PROVE  r[1] \in Nat /\ r[2] \in Nat \cup {NoFee}
<1>1. fee \in Nat /\ st.cached \in Nat \cup {NoFee} /\ Bootstrap \in Nat
  BY StateIs, StTyped, SplitAssumption
<1> QED
  BY <1>1 DEF FeeResults

LEMMA CachedIs ==
  ASSUME NEW s \in StSet, NEW c \in Nat \cup {NoFee}, NEW t, t = [s EXCEPT !.cached = c]
  PROVE  t \in StSet /\ t.lock = s.lock /\ t.quar = s.quar /\ t.job = s.job
  BY DEF StSet

LEMMA FeeReplyStep ==
  ASSUME IInv, NEW p \in Proc, FeeReply(p)
  PROVE  IInv'
<1>1. /\ act[p] \in ActSet /\ st \in StSet /\ created \in Nat /\ ended \subseteq EndSet
      /\ StoreInv(Wild, blocks, balance, st.quar, st.job, created, ended, lastStart)
      /\ StoreInv(blocks \cup Others(p), blocks, balance, st.quar, st.job, created,
                  ended, lastStart)
  BY StateIs
<1>2. /\ act[p].pc = "fee" /\ UNCHANGED <<now, lastStart, ledger, late, history>>
      /\ created' = created /\ ended' = ended
  BY DEF FeeReply, history
<1>3. PICK r \in FeeResults :
        \/ ~Current(p) /\ End(p, act[p], [st EXCEPT !.cached = r[2]])
        \/ Current(p) /\ NextSplitter(p, [act[p] EXCEPT !.fee = r[1]], [st EXCEPT !.cached = r[2]])
  BY DEF FeeReply
<1>4. r[1] \in Nat /\ r[2] \in Nat \cup {NoFee}
  BY <1>3, FeeResultsTyped
<1>5. PICK s : s = [st EXCEPT !.cached = r[2]]
  OBVIOUS
<1>6. s \in StSet /\ s.lock = st.lock /\ s.quar = st.quar /\ s.job = st.job
  BY <1>1, <1>4, <1>5, CachedIs
<1>7. CASE End(p, act[p], s)
  BY <1>1, <1>2, <1>6, <1>7, Leaves
<1>8. CASE Current(p) /\ NextSplitter(p, [act[p] EXCEPT !.fee = r[1]], s)
  <2>1. PICK a : a = [act[p] EXCEPT !.fee = r[1]]
    OBVIOUS
  <2>2. /\ a \in ActSet /\ a.start = act[p].start /\ a.expiry = act[p].expiry
        /\ a.at = act[p].at /\ a.resumed = act[p].resumed
    BY <1>1, <1>4, <2>1 DEF ActSet
  <2>3. ~InFlight(act[p])
    BY <1>2 DEF InFlight
  <2>4. Runs(p, a, s)
    BY <1>2, <1>6, <1>8, <2>2, <2>3, CurrentRuns
  <2>5. st.job = NoJob
    BY <1>2, <1>8, CurrentIs DEF HolderOK, SearchInv
  <2>6. StoreInv(blocks \cup Others(p), blocks, balance, s.quar, NoJob, created',
                 ended', lastStart')
    BY <1>1, <1>2, <1>6, <2>5
  <2> QED
    BY <1>1, <1>2, <1>6, <1>8, <2>1, <2>4, <2>5, <2>6, NextSettles
<1> QED
  BY <1>3, <1>5, <1>7, <1>8

\* The loop of an activation that has lost the lease may go on reading.
LEMMA BalanceFailedStep ==
  ASSUME IInv, NEW p \in Proc, BalanceFailed(p)
  PROVE  IInv'
<1>1. /\ act[p] \in ActSet /\ st \in StSet /\ created \in Nat /\ ended \subseteq EndSet
      /\ StoreInv(Wild, blocks, balance, st.quar, st.job, created, ended, lastStart)
      /\ StoreInv(blocks \cup Others(p), blocks, balance, st.quar, st.job, created,
                  ended, lastStart)
  BY StateIs
<1>2. /\ act[p].pc = "balance" /\ UNCHANGED <<now, lastStart, ledger, late, history>>
      /\ created' = created /\ ended' = ended /\ NextSplitter(p, act[p], st)
  BY DEF BalanceFailed, history
<1>3. CASE Current(p)
  <2>1. ~InFlight(act[p])
    BY <1>2 DEF InFlight
  <2>2. Runs(p, act[p], st)
    BY <1>1, <1>2, <1>3, <2>1, CurrentRuns
  <2>3. st.job = NoJob
    BY <1>2, <1>3, CurrentIs DEF HolderOK, SearchInv
  <2>4. StoreInv(blocks \cup Others(p), blocks, balance, st.quar, NoJob, created',
                 ended', lastStart')
    BY <1>1, <1>2, <2>3
  <2> QED
    BY <1>1, <1>2, <2>2, <2>3, <2>4, NextSettles
<1>4. CASE ~Current(p)
  <2>1. CASE End(p, act[p], st)
    BY <1>1, <1>2, <2>1, Leaves
  <2>2. CASE ~End(p, act[p], st)
    <3>1. PICK i : i = Min(Visitable(act[p], st))
      OBVIOUS
    <3>2. /\ Visitable(act[p], st) # {}
          /\ Wait(p, [act[p] EXCEPT !.at = i, !.claimed = NoJob], st, "balance")
      BY <1>2, <2>2, <3>1 DEF NextSplitter
    <3>3. Visitable(act[p], st) \in SUBSET Nat
      BY SplittersAre DEF Visitable
    <3>4. i \in Splitters
      BY <3>1, <3>2, <3>3, MinIs DEF Visitable
    <3>5. PICK c : c = [act[p] EXCEPT !.at = i, !.claimed = NoJob]
      OBVIOUS
    <3>6. c \in ActSet /\ c.start = act[p].start /\ c.expiry = act[p].expiry /\ c.at = i
      BY <1>1, <3>4, <3>5 DEF ActSet
    <3>7. PICK b : b = Waiting(c, "balance")
      OBVIOUS
    <3>8. /\ b \in ActSet /\ b.pc = "balance" /\ b.start = act[p].start
          /\ b.expiry = act[p].expiry /\ b.at = i
      BY <3>6, <3>7, WaitingIs
    <3>9. act' = [act EXCEPT ![p] = b] /\ st' = st /\ ~InFlight(b)
      BY <3>2, <3>5, <3>7, <3>8 DEF Wait, Waiting, InFlight
    <3>10. st'.lock # b.expiry
      BY <1>4, <3>8, <3>9 DEF Current
    <3>11. Asks(b)
      BY <3>4, <3>8 DEF Asks
    <3> QED
      BY <1>1, <1>2, <3>8, <3>9, <3>10, <3>11, Turns
  <2> QED
    BY <2>1, <2>2
<1> QED
  BY <1>3, <1>4

\* A job is planned, or the loop goes on.
LEMMA BalanceReplyStep ==
  ASSUME IInv, NEW p \in Proc, BalanceReply(p)
  PROVE  IInv'
<1>1. /\ act[p] \in ActSet /\ st \in StSet /\ created \in Nat /\ ended \subseteq EndSet
      /\ lastStart \in Nat
      /\ StoreInv(Wild, blocks, balance, st.quar, st.job, created, ended, lastStart)
      /\ StoreInv(blocks \cup Others(p), blocks, balance, st.quar, st.job, created,
                  ended, lastStart)
  BY StateIs
<1>2. act[p].pc = "balance" /\ act[p].got /\ UNCHANGED <<now, lastStart, ledger, late>>
  BY DEF BalanceReply
<1>3. CASE ~Current(p) /\ End(p, act[p], st) /\ UNCHANGED history
  BY <1>1, <1>2, <1>3, Leaves
<1>4. CASE Current(p) /\ Plan(p)
  <2>1. ~InFlight(act[p])
    BY <1>2 DEF InFlight
  <2>2. Runs(p, act[p], st)
    BY <1>1, <1>2, <1>4, <2>1, CurrentRuns
  <2>3. HolderOK(act[p], Others(p), blocks, balance, st) /\ act[p].start = lastStart
    BY <1>2, <1>4, CurrentIs
  <2>4. act[p].got = TRUE
    BY <1>1, <1>2, ActTyped, Zenon
  <2>5. /\ st.job = NoJob /\ act[p].at \in Splitters /\ act[p].at # act[p].resumed
        /\ st.quar[act[p].at] = NoJob /\ act[p].val <= balance[act[p].at]
    BY <1>2, <2>3, <2>4 DEF HolderOK, SearchInv
  <2>6. CASE ~PlanFeasible(act[p].at, act[p].val, act[p].fee)
    <3>1. NextSplitter(p, act[p], st) /\ created' = created /\ ended' = ended
      BY <1>4, <2>6 DEF Plan, history
    <3>2. StoreInv(blocks \cup Others(p), blocks, balance, st.quar, NoJob, created',
                   ended', lastStart')
      BY <1>1, <1>2, <2>5, <3>1
    <3> QED
      BY <1>1, <2>2, <2>5, <3>1, <3>2, NextSettles
  <2>7. CASE PlanFeasible(act[p].at, act[p].val, act[p].fee)
    <3>1. PICK j : j = NewJob(created + 1, act[p].at, act[p].val, act[p].fee, act[p].start)
      OBVIOUS
    <3>2. created' = created + 1 /\ created' \in Nat /\ Drive(p, act[p], st, j)
      BY <1>1, <1>4, <2>7, <3>1 DEF Plan
    <3>3. j = NewJob(created', act[p].at, act[p].val, act[p].fee, lastStart)
      BY <2>3, <3>1, <3>2
    <3>4. act[p].val \in Nat /\ act[p].fee \in Nat
      BY <1>1, ActTyped
    <3>5. Older(blocks \cup Others(p), act[p].at, lastStart)
      BY <1>2, <2>3, <2>5 DEF HolderOK, VisitInv, ToVisit, Older
    <3>6. StoreInv(blocks \cup Others(p), blocks, balance, st.quar, NoJob, created,
                   ended, lastStart)
      BY <1>1, <2>5
    <3>7. blocks \subseteq blocks \cup Others(p)
      OBVIOUS
    <3>8. /\ StoreInv(blocks \cup Others(p), blocks, balance, st.quar, j, created', ended,
                      lastStart) /\ j # NoJob
          /\ j.splitter = act[p].at /\ j.leg[2].cat = lastStart + 1
      <4>1. PICK W : W = blocks \cup Others(p)
        OBVIOUS
      <4>2. Plannable(j, act[p].at, act[p].val, act[p].fee, lastStart, created', created,
                      W, blocks, balance, st.quar)
        BY <1>1, <2>5, <2>7, <3>2, <3>3, <3>4, <3>5, <3>7, <4>1 DEF Plannable
      <4>3. StoreInv(W, blocks, balance, st.quar, NoJob, created, ended, lastStart)
        BY <3>6, <4>1
      <4>4. /\ StoreInv(W, blocks, balance, st.quar, j, created', ended, lastStart)
            /\ Planned(j, act[p].at, lastStart)
        BY <4>2, <4>3, StorePlans
      <4> QED
        BY <4>1, <4>4 DEF Planned
    <3>9. StoreInv(blocks \cup Others(p), blocks, balance, st.quar, j, created', ended, lastStart')
      BY <1>2, <3>8
    <3>10. j.leg[2].cat <= act[p].start + 1 /\ j.splitter \in {act[p].resumed, act[p].at}
      BY <1>1, <2>3, <3>8
    <3>11. j.leg[2].status = "ready"
      BY <3>1 DEF NewJob, NewLeg
    <3> QED
      BY <2>2, <3>2, <3>8, <3>9, <3>10, <3>11, DriveSettles
  <2> QED
    BY <2>6, <2>7
<1> QED
  BY <1>3, <1>4 DEF BalanceReply

\* What the holder that asks for a second leg that waits knows of its job.
LEMMA AskIs ==
  ASSUME IInv, NEW p \in Proc, act[p].pc \in {"legFunds", "legFee"}, Owns(p),
         UNCHANGED <<now, lastStart, ledger, late>>, NEW s \in StSet,
         s.lock = st.lock, s.quar = st.quar
  PROVE  /\ Runs(p, act[p], s) /\ CurrentLeg(st.job) = 2 /\ st.job # NoJob
         /\ st.job.leg[2].fee \in Nat /\ st.job.leg[2].gross \in Nat
         /\ st.job.leg[2].gross > st.job.leg[2].fee
<1>1. Current(p) /\ st.job = act[p].claimed
  BY DEF Owns
<1>2. ~InFlight(act[p])
  BY DEF InFlight
<1>3. Runs(p, act[p], s)
  BY <1>1, <1>2, StateIs, CurrentRuns
<1>4. DriveInv(act[p], Others(p), blocks, st)
  BY <1>1, CurrentIs DEF HolderOK
<1>5. st.job \in JobSet /\ st.job.leg[2].status \in {"funds", "fee"}
  BY <1>1, <1>4 DEF DriveInv, Driving
<1>6. st.job # NoJob
  BY <1>5, NoneAssumption
<1>7. /\ StoreInv(Wild, blocks, balance, st.quar, st.job, created, ended, lastStart)
  BY StateIs
<1>8. JobOK(st.job) /\ st.job.leg[2] \in LegSet
  BY <1>6, <1>7, StoreJob
<1>9. CurrentLeg(st.job) = 2
  BY <1>5, <1>8, CurrentLegIs DEF JobOK, InTurn
<1>10. st.job.leg[2].fee \in Nat /\ st.job.leg[2].gross \in Nat
  BY <1>8, LegTyped
<1> QED
  BY <1>3, <1>6, <1>8, <1>9, <1>10 DEF JobOK, PlanIsValid, Legs

\* The second leg has waited and is driven under a new identity.
LEMMA ResumeSettles ==
  ASSUME IInv, NEW p \in Proc, act[p].pc \in {"legFunds", "legFee"}, Owns(p),
         UNCHANGED <<now, lastStart, ledger, late>>, NEW s \in StSet,
         s.lock = st.lock, s.quar = st.quar, NEW f \in Nat, st.job.leg[2].gross > f,
         NEW k, k = Repin(st.job, 2, f, act[p].start),
         Drive(p, act[p], s, k), created' = created
  PROVE  IInv'
<1> DEFINE W == blocks \cup Others(p)
<1>1. Current(p) /\ st.job = act[p].claimed
  BY DEF Owns
<1>2. Runs(p, act[p], s) /\ CurrentLeg(st.job) = 2 /\ st.job # NoJob
  BY AskIs
<1>3. /\ DriveInv(act[p], Others(p), blocks, st) /\ act[p].start = lastStart
      /\ lastStart \in Nat /\ created \in Nat
      /\ StoreInv(W, blocks, balance, st.quar, st.job, created, ended, lastStart)
  BY <1>1, CurrentIs, StateIs DEF HolderOK
<1>4. /\ st.job.leg[2].status \in {"funds", "fee"} /\ st.job.leg[2].cat < lastStart
      /\ st.job.splitter \in {act[p].resumed, act[p].at}
  BY <1>1, <1>3 DEF DriveInv, Driving
<1>5. /\ st.job \in JobSet /\ JobOK(st.job) /\ W \subseteq TxSet /\ st.job.leg[2] \in LegSet
      /\ JobInv(st.job, W, blocks, balance, st.quar, created, ended)
  BY <1>2, <1>3, StoreJob
<1>6. /\ st.job.leg[1].status = "accepted" /\ Untried(st.job.leg[2])
      /\ st.job.leg[2].status # "accepted" /\ st.job.leg[2].cat \in Nat
  BY <1>4, <1>5, LegTyped DEF JobOK, InTurn
<1>7. \A tx \in W : ~(tx.job = st.job.id /\ tx.leg = 2)
  BY <1>5, <1>6 DEF JobInv
<1>8. /\ JobInv(k, W, blocks, balance, st.quar, created, ended)
      /\ k.id = st.job.id /\ k.splitter = st.job.splitter
      /\ k.leg[2].status = "ready"
      /\ k.leg[2].cat = IF st.job.leg[2].cat + 1 <= lastStart THEN lastStart
                        ELSE st.job.leg[2].cat + 1
  BY <1>3, <1>5, <1>6, <1>7, JobRepins, SMTT(30)
<1>9. k.leg[2].cat <= lastStart + 1 /\ k.leg[2].cat <= lastStart + 2
  BY <1>3, <1>4, <1>6, <1>8
<1>10. StoreInv(W, blocks, balance, st.quar, k, created, ended, lastStart) /\ k # NoJob
  BY <1>2, <1>3, <1>8, <1>9, StoreReplaces
<1>11. StoreInv(W, blocks, balance, s.quar, k, created', ended, lastStart')
  BY <1>10
<1>12. k.leg[2].cat <= act[p].start + 1 /\ k.splitter \in {act[p].resumed, act[p].at}
  BY <1>3, <1>4, <1>8, <1>9
<1> QED
  BY <1>2, <1>3, <1>8, <1>10, <1>11, <1>12, DriveSettles

LEMMA LegFundsReplyStep ==
  ASSUME IInv, NEW p \in Proc, LegFundsReply(p)
  PROVE  IInv'
<1>1. /\ act[p] \in ActSet /\ st \in StSet
      /\ StoreInv(Wild, blocks, balance, st.quar, st.job, created, ended, lastStart)
  BY StateIs
<1>2. act[p].pc = "legFunds" /\ UNCHANGED <<now, lastStart, ledger, late, created>>
  BY DEF LegFundsReply
<1>3. CASE End(p, act[p], st) /\ UNCHANGED ended
  <2>1. UNCHANGED history
    BY <1>2, <1>3 DEF history
  <2> QED
    BY <1>1, <1>2, <1>3, <2>1, Leaves
<1>4. CASE /\ Owns(p)
           /\ Drive(p, act[p], st, Repin(st.job, CurrentLeg(st.job),
                                         st.job.leg[CurrentLeg(st.job)].fee, act[p].start))
  <2>1. /\ CurrentLeg(st.job) = 2 /\ st.job.leg[2].fee \in Nat
        /\ st.job.leg[2].gross > st.job.leg[2].fee
    BY <1>1, <1>2, <1>4, AskIs
  <2>2. PICK k : k = Repin(st.job, 2, st.job.leg[2].fee, act[p].start)
    OBVIOUS
  <2>3. Drive(p, act[p], st, k)
    BY <1>4, <2>1, <2>2
  <2> QED
    BY <1>1, <1>2, <1>4, <2>1, <2>2, <2>3, ResumeSettles
<1> QED
  BY <1>3, <1>4 DEF LegFundsReply

LEMMA LegFeeReplyStep ==
  ASSUME IInv, NEW p \in Proc, LegFeeReply(p)
  PROVE  IInv'
<1>1. /\ act[p] \in ActSet /\ st \in StSet
      /\ StoreInv(Wild, blocks, balance, st.quar, st.job, created, ended, lastStart)
  BY StateIs
<1>2. act[p].pc = "legFee" /\ UNCHANGED <<now, lastStart, ledger, late, created>>
  BY DEF LegFeeReply
<1>3. PICK r \in FeeResults :
        \/ End(p, act[p], [st EXCEPT !.cached = r[2]]) /\ UNCHANGED ended
        \/ /\ Owns(p) /\ st.job.leg[CurrentLeg(st.job)].gross > r[1]
           /\ Drive(p, act[p], [st EXCEPT !.cached = r[2]],
                    Repin(st.job, CurrentLeg(st.job), r[1], act[p].start))
  BY DEF LegFeeReply
<1>4. r[1] \in Nat /\ r[2] \in Nat \cup {NoFee}
  BY <1>3, FeeResultsTyped
<1>5. PICK s : s = [st EXCEPT !.cached = r[2]]
  OBVIOUS
<1>6. s \in StSet /\ s.lock = st.lock /\ s.quar = st.quar /\ s.job = st.job
  BY <1>1, <1>4, <1>5, CachedIs
<1>7. CASE End(p, act[p], s) /\ UNCHANGED ended
  <2>1. UNCHANGED history
    BY <1>2, <1>7 DEF history
  <2> QED
    BY <1>1, <1>2, <1>6, <1>7, <2>1, Leaves
<1>8. CASE /\ Owns(p) /\ st.job.leg[CurrentLeg(st.job)].gross > r[1]
           /\ Drive(p, act[p], s, Repin(st.job, CurrentLeg(st.job), r[1], act[p].start))
  <2>1. CurrentLeg(st.job) = 2
    BY <1>2, <1>6, <1>8, AskIs
  <2>2. PICK k : k = Repin(st.job, 2, r[1], act[p].start)
    OBVIOUS
  <2>3. Drive(p, act[p], s, k) /\ st.job.leg[2].gross > r[1]
    BY <1>8, <2>1, <2>2
  <2> QED
    BY <1>2, <1>4, <1>6, <1>8, <2>2, <2>3, ResumeSettles
<1> QED
  BY <1>3, <1>5, <1>7, <1>8

\* The transfer was accepted.
LEMMA AcceptedStep ==
  ASSUME IInv, NEW p \in Proc, act[p].pc = "transfer", act[p].got = TRUE, Owns(p),
         act[p].verdict = "accepted",
         UNCHANGED <<now, lastStart, ledger, late>>, created' = created,
         Drive(p, act[p], st, [st.job EXCEPT !.leg[CurrentLeg(st.job)].status = "accepted"])
  PROVE  IInv'
<1> DEFINE W == blocks \cup Others(p)
<1>1. /\ act[p] \in ActSet /\ st \in StSet /\ created \in Nat /\ lastStart \in Nat
      /\ StoreInv(W, blocks, balance, st.quar, st.job, created, ended, lastStart)
  BY StateIs
<1>2. PICK l : l = CurrentLeg(st.job)
  OBVIOUS
<1>3. /\ Current(p) /\ st.job = act[p].claimed /\ st.job # NoJob
      /\ l \in Legs /\ st.job.leg[l].status = "ready"
      /\ st.job.leg[2].cat <= lastStart + 1 /\ act[p].start = lastStart
      /\ st.job.splitter \in {act[p].resumed, act[p].at}
      /\ DriveInv(act[p], Others(p), blocks, st)
  BY <1>2, TransferIs
<1>4. ~InFlight(act[p])
  BY DEF InFlight
<1>5. Runs(p, act[p], st)
  BY <1>1, <1>3, <1>4, CurrentRuns
<1>6. /\ st.job \in JobSet /\ JobOK(st.job) /\ W \subseteq TxSet
      /\ JobInv(st.job, W, blocks, balance, st.quar, created, ended)
  BY <1>1, <1>3, StoreJob
<1>7. Tx(st.job, l) \in blocks
  BY <1>2, <1>3 DEF DriveInv, Driving, Request
<1>8. PICK k : k = [st.job EXCEPT !.leg[l].status = "accepted"]
  OBVIOUS
<1>9. JobInv(k, W, blocks, balance, st.quar, created, ended) /\ Alike(st.job, k)
  BY <1>2, <1>3, <1>6, <1>7, <1>8, JobAccepts
<1>10. k.id = st.job.id /\ k.leg[2].cat = st.job.leg[2].cat /\ k.splitter = st.job.splitter
  BY <1>9 DEF Alike, Legs
<1>11. k.leg[2].cat <= lastStart + 2
  BY <1>1, <1>3, <1>10 DEF StoreInv
<1>12. StoreInv(W, blocks, balance, st.quar, k, created, ended, lastStart) /\ k # NoJob
  BY <1>1, <1>3, <1>9, <1>10, <1>11, StoreReplaces
<1>13. StoreInv(W, blocks, balance, st.quar, k, created', ended, lastStart')
  BY <1>12
<1>14. k.leg[2].status \notin {"funds", "fee"}
  <2>1. CASE l = 1
    <3>1. st.job.leg[2].status = "ready"
      BY <1>3, <1>6, <2>1 DEF JobOK, InTurn
    <3>2. k.leg[2] = st.job.leg[2]
      BY <1>6, <1>8, <2>1, JobTyped DEF JobSet, Legs
    <3> QED
      BY <3>1, <3>2
  <2>2. CASE l = 2
    <3>1. st.job.leg[2] \in LegSet /\ st.job.leg \in [Legs -> LegSet] /\ 2 \in Legs
      BY <1>6, JobTyped DEF Legs
    <3>2. k.leg = [st.job.leg EXCEPT ![2].status = "accepted"]
      BY <1>6, <1>8, <2>2 DEF JobSet
    <3>3. k.leg[2].status = "accepted"
      BY <3>1, <3>2 DEF LegSet
    <3> QED
      BY <3>3
  <2> QED
    BY <1>3, <2>1, <2>2 DEF Legs
<1>15. k.leg[2].cat <= act[p].start + 1 /\ k.splitter \in {act[p].resumed, act[p].at}
  BY <1>3, <1>10
<1>16. Drive(p, act[p], st, k)
  BY <1>2, <1>8
<1> QED
  BY <1>1, <1>5, <1>12, <1>13, <1>14, <1>15, <1>16, DriveSettles

\* After a refusal of the first attempt nothing of the leg is on its way.
LEMMA RefusedIs ==
  ASSUME IInv, NEW p \in Proc, act[p].pc = "transfer", act[p].got = TRUE, Owns(p),
         act[p].verdict # "accepted", act[p].prior = FALSE
  PROVE  /\ \A tx \in blocks \cup Others(p) :
               ~(tx.job = st.job.id /\ tx.leg = CurrentLeg(st.job))
         /\ st.job.leg[CurrentLeg(st.job)].seen = FALSE
<1>1. /\ st.job = act[p].claimed /\ CurrentLeg(st.job) \in Legs
      /\ DriveInv(act[p], Others(p), blocks, st) /\ st.job # NoJob
  BY TransferIs
<1>2. st.job \in JobSet
  BY <1>1, StateIs, StTyped
<1>3. Request(act[p]).job = st.job.id /\ Request(act[p]).leg = CurrentLeg(st.job)
  BY <1>1, <1>2, TxIs DEF Request
<1>4. /\ st.job.leg[CurrentLeg(st.job)].seen = FALSE
      /\ \A tx \in Others(p) : ~SameLeg(tx, Request(act[p]))
      /\ \A tx \in blocks : ~SameLeg(tx, Request(act[p]))
  BY <1>1 DEF DriveInv, Driving
<1> QED
  BY <1>3, <1>4 DEF SameLeg

\* The second leg gets a new identity, or waits.
LEMMA AfterRefusalStored ==
  ASSUME IInv, NEW p \in Proc, act[p].pc = "transfer", act[p].got = TRUE, Owns(p),
         act[p].verdict # "accepted", act[p].prior = FALSE, CurrentLeg(st.job) = 2,
         NEW k, k = AfterRefusal(st.job, act[p])
  PROVE  k \in JobSet /\ StoreInv(Wild, blocks, balance, st.quar, k, created, ended, lastStart)
<1>0. ~InFlight(act[p])
  BY DEF InFlight
<1>1. /\ act[p] \in ActSet /\ st \in StSet /\ created \in Nat /\ lastStart \in Nat
      /\ Wild = blocks \cup Others(p)
      /\ StoreInv(Wild, blocks, balance, st.quar, st.job, created, ended, lastStart)
  BY <1>0, StateIs DEF Own
<1>2. PICK j : j = st.job
  OBVIOUS
<1>3. /\ j # NoJob /\ j.leg[2].status = "ready" /\ act[p].start = lastStart
      /\ j.leg[2].cat <= lastStart + 1 /\ j = act[p].claimed
      /\ DriveInv(act[p], Others(p), blocks, st)
  BY <1>2, TransferIs
<1>4. /\ StoreInv(Wild, blocks, balance, st.quar, j, created, ended, lastStart)
      /\ j \in JobSet /\ JobOK(j) /\ Wild \subseteq TxSet /\ j.leg[2] \in LegSet
      /\ JobInv(j, Wild, blocks, balance, st.quar, created, ended)
  BY <1>1, <1>2, <1>3, StoreJob
<1>5. j.leg[1].status = "accepted"
  BY <1>2, <1>4, CurrentLegIs
<1>6. /\ \A tx \in Wild : ~(tx.job = j.id /\ tx.leg = 2)
      /\ j.leg[2].seen = FALSE
  BY <1>1, <1>2, RefusedIs
<1>7. act[p].val \in Nat /\ act[p].verdict \in {"badFee", "insufficient", "refused"}
  <2>1. act[p].verdict # "none"
    BY <1>3 DEF DriveInv, Driving
  <2> QED
    BY <1>1, <2>1, ActTyped
<1>8. j.leg[2].gross \in Nat /\ j.leg[2].fee \in Nat /\ j.leg[2].cat \in Nat
  BY <1>4, LegTyped
<1>9. ASSUME NEW f \in Nat, k = Repin(j, 2, f, act[p].start), j.leg[2].gross > f
      PROVE  /\ JobInv(k, Wild, blocks, balance, st.quar, created, ended)
             /\ k.id = j.id /\ k.leg[2].cat <= lastStart + 2
  <2>1. /\ JobInv(k, Wild, blocks, balance, st.quar, created, ended)
        /\ k.id = j.id
        /\ k.leg[2].cat = IF j.leg[2].cat + 1 <= lastStart THEN lastStart
                          ELSE j.leg[2].cat + 1
    BY <1>1, <1>3, <1>4, <1>5, <1>6, <1>9, JobRepins
  <2> QED
    BY <1>1, <1>3, <1>8, <2>1
<1>10. ASSUME NEW v \in {"fee", "funds"},
              k = [j EXCEPT !.leg[2].started = FALSE, !.leg[2].status = v]
       PROVE  /\ JobInv(k, Wild, blocks, balance, st.quar, created, ended)
              /\ k.id = j.id /\ k.leg[2].cat <= lastStart + 2
  <2>1. JobInv(k, Wild, blocks, balance, st.quar, created, ended) /\ Alike(j, k)
    BY <1>4, <1>5, <1>6, <1>10, JobWaits
  <2>2. k.id = j.id /\ k.leg[2].cat = j.leg[2].cat
    BY <2>1 DEF Alike, Legs
  <2> QED
    BY <1>1, <1>3, <1>8, <2>1, <2>2
<1>11. k = AfterRefusal(j, act[p])
  BY <1>2
<1>12. \/ \E f \in Nat : k = Repin(j, 2, f, act[p].start) /\ j.leg[2].gross > f
       \/ \E v \in {"fee", "funds"} : k = [j EXCEPT !.leg[2].started = FALSE, !.leg[2].status = v]
  <2>1. CASE act[p].verdict = "badFee" /\ j.leg[2].gross > act[p].val
    <3>1. k = Repin(j, 2, act[p].val, act[p].start)
      <4>1. ~(j.leg[2].gross <= act[p].val)
        BY <1>7, <1>8, <2>1
      <4> QED
        BY <1>11, <2>1, <4>1, Zenon DEF AfterRefusal
    <3> QED
      BY <1>7, <2>1, <3>1
  <2>2. CASE act[p].verdict = "badFee" /\ j.leg[2].gross <= act[p].val
    <3>1. k = [j EXCEPT !.leg[2].started = FALSE, !.leg[2].status = "fee"]
      <4>1. ~(j.leg[2].gross > act[p].val)
        BY <1>7, <1>8, <2>2
      <4> QED
        BY <1>11, <2>2, <4>1, Zenon DEF AfterRefusal
    <3> QED
      BY <3>1
  <2>3. CASE act[p].verdict = "insufficient"
    <3>1. k = [j EXCEPT !.leg[2].started = FALSE, !.leg[2].status = "funds"]
      BY <1>11, <2>3 DEF AfterRefusal
    <3> QED
      BY <3>1
  <2>4. CASE act[p].verdict = "refused"
    <3>1. k = Repin(j, 2, j.leg[2].fee, act[p].start)
      BY <1>11, <2>4 DEF AfterRefusal
    <3>2. j.leg[2].gross > j.leg[2].fee
      BY <1>4 DEF JobOK, PlanIsValid, Legs
    <3> QED
      BY <1>8, <3>1, <3>2
  <2> QED
    BY <1>7, <1>8, <2>1, <2>2, <2>3, <2>4
<1>13. /\ JobInv(k, Wild, blocks, balance, st.quar, created, ended)
       /\ k.id = j.id /\ k.leg[2].cat <= lastStart + 2
  BY <1>9, <1>10, <1>12
<1>14. k \in JobSet
  BY <1>13 DEF JobInv, JobOK
<1> QED
  BY <1>3, <1>4, <1>13, <1>14, StoreReplaces

LEMMA TransferReplyStep ==
  ASSUME IInv, NEW p \in Proc, TransferReply(p)
  PROVE  IInv'
<1>1. /\ act[p] \in ActSet /\ st \in StSet /\ created \in Nat /\ lastStart \in Nat
      /\ StoreInv(Wild, blocks, balance, st.quar, st.job, created, ended, lastStart)
      /\ StoreInv(blocks \cup Others(p), blocks, balance, st.quar, st.job, created,
                  ended, lastStart)
  BY StateIs
<1>2. /\ act[p].pc = "transfer" /\ act[p].got /\ UNCHANGED <<now, lastStart, ledger, late>>
      /\ created' = created
  BY DEF TransferReply
<1>3. act[p].got = TRUE /\ act[p].val \in Nat /\ act[p].prior \in BOOLEAN
  <2>1. act[p].got \in BOOLEAN /\ act[p].val \in Nat /\ act[p].prior \in BOOLEAN
    BY <1>1, ActTyped
  <2>2. act[p].got = TRUE
    BY <1>2, <2>1, Zenon
  <2> QED
    BY <2>1, <2>2
<1>4. ~InFlight(act[p])
  BY <1>3 DEF InFlight
<1>5. PICK s : s = IF act[p].verdict = "badFee" THEN [st EXCEPT !.cached = act[p].val] ELSE st
  OBVIOUS
<1>6. s \in StSet /\ s.lock = st.lock /\ s.quar = st.quar /\ s.job = st.job
  <2>1. CASE act[p].verdict = "badFee"
    BY <1>1, <1>3, <1>5, <2>1, CachedIs
  <2>2. CASE act[p].verdict # "badFee"
    BY <1>1, <1>5, <2>2
  <2> QED
    BY <2>1, <2>2
<1>7. \/ End(p, act[p], st) /\ ended' = ended
      \/ /\ Owns(p) /\ act[p].verdict = "accepted"
         /\ Drive(p, act[p], st, [st.job EXCEPT !.leg[CurrentLeg(st.job)].status = "accepted"])
      \/ /\ Owns(p) /\ act[p].verdict # "accepted"
         /\ Refused(p, act[p], s, st.job, CurrentLeg(st.job))
  BY <1>5 DEF TransferReply
<1>8. CASE End(p, act[p], st) /\ ended' = ended
  <2>1. UNCHANGED history
    BY <1>2, <1>8 DEF history
  <2> QED
    BY <1>1, <1>2, <1>8, <2>1, Leaves
<1>9. CASE /\ Owns(p) /\ act[p].verdict = "accepted"
           /\ Drive(p, act[p], st, [st.job EXCEPT !.leg[CurrentLeg(st.job)].status = "accepted"])
  BY <1>2, <1>3, <1>9, AcceptedStep
<1>10. CASE /\ Owns(p) /\ act[p].verdict # "accepted"
            /\ Refused(p, act[p], s, st.job, CurrentLeg(st.job))
  <2>0. Current(p)
    BY <1>10 DEF Owns
  <2>1. PICK l : l = CurrentLeg(st.job)
    OBVIOUS
  <2>2. \/ /\ act[p].prior /\ ended' = ended
           /\ End(p, act[p], [s EXCEPT !.job.leg[l].seen = TRUE])
        \/ ~act[p].prior /\ l = 1 /\ ClearedPreSpend(p, act[p], s, st.job)
        \/ /\ ~act[p].prior /\ l = 2 /\ ended' = ended
           /\ End(p, act[p], [s EXCEPT !.job = AfterRefusal(st.job, act[p])])
    BY <1>10, <2>1 DEF Refused
  <2>3. ASSUME NEW k \in JobSet, End(p, act[p], [s EXCEPT !.job = k]), ended' = ended,
               StoreInv(Wild, blocks, balance, st.quar, k, created, ended, lastStart)
        PROVE  IInv'
    <3>1. PICK t : t = [s EXCEPT !.job = k]
      OBVIOUS
    <3>2. t \in StSet /\ t.lock = st.lock /\ t.quar = st.quar /\ t.job = k
      BY <1>6, <2>3, <3>1 DEF StSet
    <3>3. End(p, act[p], t)
      BY <2>3, <3>1
    <3>4. UNCHANGED history
      BY <1>2, <2>3 DEF history
    <3> QED
      BY <1>1, <1>2, <2>0, <2>3, <3>2, <3>3, <3>4, Leaves
  <2>4. CASE ended' = ended /\ End(p, act[p], [s EXCEPT !.job.leg[l].seen = TRUE])
    <3>1. PICK k : k = [st.job EXCEPT !.leg[CurrentLeg(st.job)].seen = TRUE]
      OBVIOUS
    <3>2. k \in JobSet /\ StoreInv(Wild, blocks, balance, st.quar, k, created, ended, lastStart)
      BY <1>2, <1>10, <3>1, SeenStored
    <3>3. [s EXCEPT !.job.leg[l].seen = TRUE] = [s EXCEPT !.job = k]
      BY <1>6, <2>1, <3>1
    <3>4. End(p, act[p], [s EXCEPT !.job = k])
      BY <2>4, <3>3
    <3> QED
      BY <2>3, <2>4, <3>2, <3>4
  <2>5. CASE ~act[p].prior /\ l = 1 /\ ClearedPreSpend(p, act[p], s, st.job)
    <3>1. act[p].prior = FALSE
      BY <1>3, <2>5, Zenon
    <3>2. \A tx \in blocks \cup Others(p) : ~(tx.job = st.job.id /\ tx.leg = 1)
      BY <1>2, <1>3, <1>10, <2>1, <2>5, <3>1, RefusedIs
    <3>3. st.job # NoJob /\ st.job.leg[1].status = "ready"
      BY <1>2, <1>10, <2>1, <2>5, TransferIs
    <3>4. /\ JobOK(st.job) /\ blocks \cup Others(p) \subseteq TxSet
          /\ JobInv(st.job, blocks \cup Others(p), blocks, balance, st.quar, created, ended)
      BY <1>1, <3>3, StoreJob
    <3>5. Untried(st.job.leg[2])
      BY <3>3, <3>4 DEF JobOK, InTurn
    <3>6. \A tx \in blocks \cup Others(p) : tx.job = st.job.id => tx.leg \in Legs /\ tx.leg # 2
      BY <3>4, <3>5 DEF JobInv, TxSet
    <3>7. \A tx \in blocks \cup Others(p) : tx.job # st.job.id
      BY <3>2, <3>6 DEF Legs
    <3>8. Runs(p, act[p], s)
      BY <1>1, <1>2, <1>4, <1>6, <2>0, CurrentRuns
    <3>9. StoreInv(blocks \cup Others(p), blocks, balance, s.quar, st.job, created', ended,
                   lastStart')
      BY <1>1, <1>2, <1>6
    <3> QED
      BY <1>1, <1>2, <2>5, <3>3, <3>7, <3>8, <3>9, ClearedSettles
  <2>6. CASE /\ ~act[p].prior /\ l = 2 /\ ended' = ended
             /\ End(p, act[p], [s EXCEPT !.job = AfterRefusal(st.job, act[p])])
    <3>1. act[p].prior = FALSE
      BY <1>3, <2>6, Zenon
    <3>2. PICK k : k = AfterRefusal(st.job, act[p])
      OBVIOUS
    <3>3. k \in JobSet /\ StoreInv(Wild, blocks, balance, st.quar, k, created, ended, lastStart)
      BY <1>2, <1>3, <1>10, <2>1, <2>6, <3>1, <3>2, AfterRefusalStored
    <3>4. End(p, act[p], [s EXCEPT !.job = k])
      BY <2>6, <3>2
    <3> QED
      BY <2>3, <2>6, <3>3, <3>4
  <2> QED
    BY <2>2, <2>4, <2>5, <2>6
<1> QED
  BY <1>7, <1>8, <1>9, <1>10

\* A new activation takes the lease.  Its time is above all that was pinned.
LEMMA StartRuns ==
  ASSUME IInv, NEW p \in Proc,
         act[p].pc = "idle", lastStart < now, lastStart' = now,
         UNCHANGED <<now, ledger, late>>,
         NEW a \in ActSet, a.start = now, a.expiry = now + Lease,
         NEW s, s = [st EXCEPT !.lock = now + Lease]
  PROVE  /\ Runs(p, a, s) /\ s.job = st.job /\ s.quar = st.quar
         /\ \A tx \in blocks \cup Others(p) : tx.cat < now
         /\ StoreInv(blocks \cup Others(p), blocks, balance, s.quar, s.job, created,
                     ended, lastStart')
         /\ s.job # NoJob => s.job.leg[2].cat < now
<1>1. /\ act \in [Proc -> ActSet] /\ st \in StSet /\ now \in Nat /\ lastStart \in Nat
      /\ Lease \in Nat /\ LeaseInv
      /\ StoreInv(blocks \cup Others(p), blocks, balance, st.quar, st.job, created,
                  ended, lastStart)
  BY StateIs, ClockAssumption DEF IInv
<1>2. lastStart + 2 < now
  BY <1>1, StrideAssumption DEF LeaseInv
<1>3. now + Lease \in Nat
  BY <1>1
<1>5. s \in StSet /\ s.lock = now + Lease /\ s.job = st.job /\ s.quar = st.quar
  BY <1>1, <1>3 DEF StSet
<1>6. \A tx \in blocks \cup Others(p) : tx.cat < now
  <2> TAKE tx \in blocks \cup Others(p)
  <2>1. tx.cat <= lastStart + 2 /\ tx.cat \in Nat
    BY <1>1 DEF StoreInv, WildInv, TxSet
  <2> QED
    BY <1>1, <1>2, <2>1
<1>7. \A q \in Proc : q # p /\ act[q].pc # "idle" => act[q].start # lastStart'
  <2> TAKE q \in Proc
  <2> HAVE q # p /\ act[q].pc # "idle"
  <2>1. act[q].start <= lastStart /\ act[q].start \in Nat
    BY <1>1, ActTyped DEF LeaseInv
  <2> QED
    BY <1>1, <2>1
<1>8. ~InFlight(act[p])
  BY DEF InFlight
<1>9. Runs(p, a, s)
  BY <1>5, <1>6, <1>7, <1>8 DEF Runs, Ahead
<1>10. st.quar \in [Splitters -> JobSet \cup {NoJob}] /\ lastStart <= now
  BY <1>1, StTyped
<1>11. StoreInv(blocks \cup Others(p), blocks, balance, st.quar, st.job, created, ended, now)
  BY <1>1, <1>10, StoreLater
<1>12. st.job # NoJob => st.job.leg[2].cat < now
  <2> HAVE st.job # NoJob
  <2>1. st.job.leg[2].cat <= lastStart + 2 /\ st.job.leg[2].cat \in Nat
    BY <1>1, StoreJob, LegTyped DEF StoreInv
  <2> QED
    BY <1>1, <1>2, <2>1
<1> QED
  BY <1>5, <1>6, <1>9, <1>11, <1>12

LEMMA StartStep ==
  ASSUME IInv, NEW p \in Proc, NEW main \in BOOLEAN, Start(p, main)
  PROVE  IInv'
<1>1. /\ created' = created /\ created \in Nat /\ act[p].pc = "idle" /\ lastStart < now
      /\ lastStart' = now /\ UNCHANGED <<now, ledger, late>> /\ ended \subseteq EndSet
      /\ now \in Nat /\ st.job \in JobSet \cup {NoJob}
  BY StateIs, StTyped DEF Start
<1>2. PICK s : s = [st EXCEPT !.lock = now + Lease]
  OBVIOUS
<1>3. PICK a : a = [Idle EXCEPT !.start = now, !.expiry = now + Lease, !.main = main]
  OBVIOUS
<1>4. a \in ActSet /\ a.start = now /\ a.expiry = now + Lease /\ a.at = 0
  <2>1. now + Lease \in Nat
    BY <1>1, ClockAssumption
  <2> QED
    BY <1>1, <1>3, <2>1 DEF Idle, ActSet
<1>5. \/ st.job = NoJob /\ Wait(p, a, s, "fee") /\ ended' = ended
      \/ st.job # NoJob /\ Drive(p, [a EXCEPT !.resumed = st.job.splitter], s, st.job)
  BY <1>2, <1>3 DEF Start, LeaseExpiry
<1>6. CASE st.job = NoJob /\ Wait(p, a, s, "fee") /\ ended' = ended
  <2>1. /\ Runs(p, a, s) /\ s.job = st.job
        /\ StoreInv(blocks \cup Others(p), blocks, balance, s.quar, s.job, created,
                    ended, lastStart')
    BY <1>1, <1>2, <1>4, StartRuns
  <2>2. a \in ActSet /\ s \in StSet
    BY <2>1 DEF Runs
  <2>3. PICK b : b = Waiting(a, "fee")
    OBVIOUS
  <2>4. /\ b \in ActSet /\ b.pc = "fee" /\ b.got = FALSE /\ b.start = a.start
        /\ b.resumed = a.resumed /\ b.at = a.at
    BY <2>2, <2>3, WaitingIs
  <2>5. Own(b) = {}
    BY <2>4 DEF Own, InFlight
  <2>6. VisitInv(b, Others(p) \cup blocks)
    BY <2>1, <2>4 DEF VisitInv, ToVisit, Runs, Ahead
  <2>7. SearchInv(b, balance, s)
    BY <1>4, <1>6, <2>1, <2>4 DEF SearchInv
  <2>8. DriveInv(b, Others(p), blocks, s)
    BY <2>4 DEF DriveInv, Driving
  <2>9. HolderOK(b, Others(p), blocks, balance, s)
    BY <2>6, <2>7, <2>8 DEF HolderOK
  <2>10. StoreInv(blocks \cup Others(p) \cup Own(b), blocks, balance, s.quar, s.job,
                  created', ended', lastStart')
    BY <1>1, <1>6, <2>1, <2>5
  <2> QED
    BY <1>1, <1>6, <2>1, <2>2, <2>3, <2>9, <2>10, WaitSettles
<1>7. CASE st.job # NoJob /\ Drive(p, [a EXCEPT !.resumed = st.job.splitter], s, st.job)
  <2>1. PICK c : c = [a EXCEPT !.resumed = st.job.splitter]
    OBVIOUS
  <2>2. st.job.splitter \in Splitters
    BY <1>1, <1>7, JobTyped
  <2>3. /\ c \in ActSet /\ c.start = now /\ c.expiry = now + Lease
        /\ c.resumed = st.job.splitter
    BY <1>4, <2>1, <2>2 DEF ActSet
  <2>4. /\ Runs(p, c, s) /\ s.job = st.job
        /\ StoreInv(blocks \cup Others(p), blocks, balance, s.quar, s.job, created,
                    ended, lastStart')
        /\ st.job.leg[2].cat < now
    BY <1>1, <1>2, <1>7, <2>3, StartRuns
  <2>5. st.job.leg[2].cat <= c.start + 1 /\ st.job.leg[2].cat < c.start
    <3>1. st.job.leg[2].cat \in Nat
      BY <1>1, <1>7, JobTyped, LegTyped
    <3> QED
      BY <1>1, <2>3, <2>4, <3>1
  <2>6. StoreInv(blocks \cup Others(p), blocks, balance, s.quar, st.job, created', ended,
                 lastStart')
    BY <1>1, <2>4
  <2>7. Drive(p, c, s, st.job)
    BY <1>7, <2>1
  <2> QED
    BY <1>1, <1>7, <2>3, <2>4, <2>5, <2>6, <2>7, DriveSettles
<1> QED
  BY <1>5, <1>6, <1>7

-----------------------------------------------------------------------------
(* Steps of the ledger, the clock and the installation.                      *)

\* Every activation goes on with what it was doing.
SameRuns ==
  \A q \in Proc : /\ act'[q].pc = act[q].pc /\ act'[q].start = act[q].start
                  /\ act'[q].expiry = act[q].expiry /\ act'[q].at = act[q].at
                  /\ act'[q].claimed = act[q].claimed

\* Whoever holds the lease still knows what it relies on.
HolderStays ==
  \A q \in Proc : act[q].pc # "idle" /\ Current(q) =>
    HolderOK(act'[q], Others(q)', blocks', balance', st)

LEMMA EnvSettles ==
  ASSUME IInv, TypeOK', UNCHANGED <<lastStart, history>>, now' \in {now, now + Stride},
         SameRuns, HolderStays,
         st'.lock \in {st.lock, Unlocked}, st'.job = st.job, st'.quar = st.quar,
         StoreInv(Wild', blocks', balance', st.quar, st.job, created, ended, lastStart)
  PROVE  IInv'
<1>1. /\ now \in Nat /\ lastStart \in Nat /\ LeaseInv /\ act \in [Proc -> ActSet]
      /\ lastStart' = lastStart /\ created' = created /\ ended' = ended
  BY DEF IInv, TypeOK, history
<1>2. LeaseInv'
  <2>1. lastStart' = now' \/ lastStart' + Stride <= now'
    BY <1>1, StrideAssumption DEF LeaseInv
  <2>2. st'.lock \in {Unlocked, lastStart' + Lease}
    BY <1>1 DEF LeaseInv
  <2>3. \A q \in Proc : act'[q].pc # "idle" =>
          /\ act'[q].expiry = act'[q].start + Lease /\ act'[q].start <= lastStart'
          /\ \A r \in Proc : r # q /\ act'[r].pc # "idle" => act'[r].start # act'[q].start
    BY <1>1 DEF LeaseInv, SameRuns
  <2> QED
    BY <2>1, <2>2, <2>3 DEF LeaseInv
<1>3. HolderInv'
  <2> SUFFICES ASSUME NEW q \in Proc, (act[q].pc # "idle" /\ Current(q))'
               PROVE  HolderOK(act[q], Others(q), blocks, balance, st)'
    BY DEF HolderInv
  <2>1. act[q].pc # "idle" /\ st'.lock = act[q].expiry /\ act[q].start \in Nat
    BY <1>1, ActTyped DEF SameRuns, Current
  <2>2. act[q].expiry # Unlocked
    BY <1>1, <2>1, ClockAssumption DEF LeaseInv, Unlocked
  <2>3. Current(q)
    BY <2>1, <2>2 DEF Current
  <2>4. HolderOK(act'[q], Others(q)', blocks', balance', st)
    BY <2>1, <2>3 DEF HolderStays
  <2>5. Others(q)' \in SUBSET Others(q)'
    OBVIOUS
  <2>6. HolderOK(act'[q], Others(q)', blocks', balance', st')
    BY <2>4, <2>5, HolderShrinks
  <2> QED
    BY <2>6
<1>4. StoreInv(Wild, blocks, balance, st.quar, st.job, created, ended, lastStart)'
  <2>1. StoreInv(Wild', blocks', balance', st'.quar, st'.job, created', ended', lastStart')
    BY <1>1
  <2> QED
    BY <2>1
<1>5. AskInv'
  BY DEF IInv, AskInv, Asks, SameRuns
<1> QED
  BY <1>2, <1>3, <1>4, <1>5 DEF IInv

\* Nothing the activations and the ledger know changes.
LEMMA QuietSettles ==
  ASSUME IInv, TypeOK', UNCHANGED <<lastStart, act, balance, blocks, late, history>>,
         now' \in {now, now + Stride},
         st'.lock \in {st.lock, Unlocked}, st'.job = st.job, st'.quar = st.quar
  PROVE  IInv'
<1>1. SameRuns
  BY DEF SameRuns
<1>2. Wild' = Wild
  BY DEF Wild, InFlight, Request, Tx, CurrentLeg
<1>3. \A q \in Proc : Others(q)' = Others(q)
  BY DEF Others, InFlight, Request, Tx, CurrentLeg
<1>4. HolderStays
  BY <1>3 DEF HolderStays, IInv, HolderInv
<1>5. StoreInv(Wild', blocks', balance', st.quar, st.job, created, ended, lastStart)
  BY <1>2 DEF IInv
<1> QED
  BY <1>1, <1>4, <1>5, EnvSettles

LEMMA TickStep ==
  ASSUME IInv, Tick
  PROVE  IInv'
<1>1. TypeOK'
  <2>1. now' \in Nat
    <3>1. now \in Nat /\ now' = now + Stride
      BY DEF IInv, TypeOK, Tick
    <3> QED
      BY <3>1, StrideAssumption
  <2> QED
    BY <2>1 DEF IInv, TypeOK, Tick, ledger, history
<1>2. /\ UNCHANGED <<lastStart, act, balance, blocks, late, history>> /\ st' = st
      /\ now' \in {now, now + Stride}
  BY DEF Tick, ledger
<1> QED
  BY <1>1, <1>2, QuietSettles

LEMMA FeeChangeStep ==
  ASSUME IInv, FeeChange
  PROVE  IInv'
<1>1. TypeOK'
  BY DEF IInv, TypeOK, FeeChange, history
<1>2. /\ UNCHANGED <<lastStart, act, balance, blocks, late, history>> /\ st' = st
      /\ now' \in {now, now + Stride}
  BY DEF FeeChange
<1> QED
  BY <1>1, <1>2, QuietSettles

LEMMA UpgradeStep ==
  ASSUME IInv, Upgrade
  PROVE  IInv'
<1>1. st \in StSet /\ st' = [st EXCEPT !.lock = Unlocked, !.cached = NoFee]
  BY DEF IInv, TypeOK, StSet, Upgrade
<1>2. st' \in StSet /\ st'.lock = Unlocked /\ st'.job = st.job /\ st'.quar = st.quar
  BY <1>1 DEF StSet, Unlocked
<1>3. TypeOK'
  BY <1>2 DEF IInv, TypeOK, StSet, Upgrade, ledger, history
<1>4. /\ UNCHANGED <<lastStart, act, balance, blocks, late, history>>
      /\ now' \in {now, now + Stride}
  BY DEF Upgrade, ledger
<1> QED
  BY <1>2, <1>3, <1>4, QuietSettles

Entry == [leg : Legs \cup {0}, amt : Nat, fee : Nat]

\* The account of splitter i and its list of transactions.
LEMMA LogTyped ==
  ASSUME NEW lg \in [Splitters -> Seq(Entry)], NEW i, NEW e \in Entry,
         NEW nl, nl = [lg EXCEPT ![i] = Append(@, e)]
  PROVE  nl \in [Splitters -> Seq(Entry)]
<1>1. CASE i \in Splitters
  <2>1. lg[i] \in Seq(Entry)
    BY <1>1
  <2>2. PICK x : x = Append(lg[i], e)
    OBVIOUS
  <2>3. x \in Seq(Entry)
    BY <2>1, <2>2
  <2>4. nl = [lg EXCEPT ![i] = x]
    BY <2>2
  <2> QED
    BY <2>3, <2>4
<1>2. CASE i \notin Splitters
  BY <1>2
<1> QED
  BY <1>1, <1>2

LEMMA HolderGrows ==
  ASSUME NEW a \in ActSet, NEW O, NEW B, NEW bal \in [Splitters -> Nat], NEW s,
         HolderOK(a, O, B, bal, s),
         NEW nb \in [Splitters -> Nat], \A i \in Splitters : bal[i] <= nb[i]
  PROVE  HolderOK(a, O, B, nb, s)
<1>1. a.val \in Nat
  BY ActTyped
<1>2. SearchInv(a, nb, s)
  <2>1. SearchInv(a, bal, s)
    BY DEF HolderOK
  <2>2. ASSUME a.pc = "balance", a.got = TRUE, a.at \in Splitters, a.val <= bal[a.at]
        PROVE  a.val <= nb[a.at]
    <3>1. bal[a.at] \in Nat /\ nb[a.at] \in Nat /\ bal[a.at] <= nb[a.at]
      BY <2>2
    <3> QED
      BY <1>1, <2>2, <3>1
  <2> QED
    BY <2>1, <2>2 DEF SearchInv
<1> QED
  BY <1>2 DEF HolderOK

LEMMA DepositStep ==
  ASSUME IInv, NEW i \in Splitters, Deposit(i)
  PROVE  IInv'
<1>0. /\ TypeOK /\ balance \in [Splitters -> Nat] /\ Amount \in Nat
      /\ act \in [Proc -> ActSet] /\ deposits \in Nat
  BY SplitAssumption DEF IInv, TypeOK
<1>1. balance' = [balance EXCEPT ![i] = @ + Amount]
  BY DEF Deposit
<1>2. balance' \in [Splitters -> Nat] /\ \A k \in Splitters : balance[k] <= balance'[k]
  BY <1>0, <1>1
<1>3. log' \in [Splitters -> Seq(Entry)]
  <2>1. PICK e : e = [leg |-> 0, amt |-> Amount, fee |-> 0]
    OBVIOUS
  <2>2. e \in Entry
    BY <1>0, <2>1 DEF Entry
  <2>3. log \in [Splitters -> Seq(Entry)] /\ log' = [log EXCEPT ![i] = Append(@, e)]
    BY <1>0, <2>1 DEF TypeOK, Entry, Deposit
  <2> QED
    BY <2>2, <2>3, LogTyped
<1>4. TypeOK'
  <2>1. deposits' = deposits + 1 /\ UNCHANGED <<now, lastStart, st, act, fee, blocks, late>>
    BY DEF Deposit
  <2>2. deposits' \in Nat /\ UNCHANGED <<created, ended>>
    BY <1>0, <2>1 DEF Deposit, history
  <2> QED
    BY <1>0, <1>2, <1>3, <2>1, <2>2 DEF TypeOK, Entry
<1>5. /\ UNCHANGED <<now, lastStart, st, act, blocks, late, history>>
  BY DEF Deposit
<1>6. SameRuns
  BY <1>5 DEF SameRuns
<1>7. Wild' = Wild
  BY <1>5 DEF Wild, InFlight, Request, Tx, CurrentLeg
<1>8. \A q \in Proc : Others(q)' = Others(q)
  BY <1>5 DEF Others, InFlight, Request, Tx, CurrentLeg
<1>9. HolderStays
  <2> SUFFICES ASSUME NEW q \in Proc, act[q].pc # "idle", Current(q)
               PROVE  HolderOK(act'[q], Others(q)', blocks', balance', st)
    BY DEF HolderStays
  <2>1. HolderOK(act[q], Others(q), blocks, balance, st)
    BY DEF IInv, HolderInv
  <2>2. HolderOK(act[q], Others(q), blocks, balance', st)
    BY <1>0, <1>2, <2>1, HolderGrows
  <2> QED
    BY <1>5, <1>8, <2>2
<1>10. StoreInv(Wild', blocks', balance', st.quar, st.job, created, ended, lastStart)
  <2>1. StoreInv(Wild, blocks, balance, st.quar, st.job, created, ended, lastStart)
    BY DEF IInv
  <2>2. StoreInv(Wild, blocks, balance', st.quar, st.job, created, ended, lastStart)
    BY <1>0, <1>2, <2>1, StoreGrows
  <2> QED
    BY <1>5, <1>7, <2>2
<1> QED
  BY <1>4, <1>5, <1>6, <1>9, <1>10, EnvSettles

\* A transfer of somebody else is executed.
LEMMA HolderExecutes ==
  ASSUME NEW a, NEW O, NEW B, NEW bal \in [Splitters -> Nat], NEW s,
         HolderOK(a, O, B, bal, s),
         NEW W, NEW n, NEW en, NEW ls, StoreInv(W, B, bal, s.quar, s.job, n, en, ls),
         NEW tx, tx \in W, tx \in O, tx \notin B, NEW Q \in SUBSET O,
         NEW nb, nb = [bal EXCEPT ![tx.splitter] = @ - (tx.amt + tx.fee)]
  PROVE  HolderOK(a, Q, B \cup {tx}, nb, s)
<1>1. VisitInv(a, Q \cup (B \cup {tx}))
  BY DEF HolderOK, VisitInv
<1>2. SearchInv(a, nb, s)
  <2>1. SearchInv(a, bal, s) /\ DeadInv(W, B, s.quar, s.job)
    BY DEF HolderOK, StoreInv
  <2>2. ASSUME a.at \in Splitters, s.job = NoJob, s.quar[a.at] = NoJob
        PROVE  nb[a.at] = bal[a.at]
    <3>1. tx.splitter # a.at
      BY <2>1, <2>2 DEF DeadInv
    <3> QED
      BY <2>2, <3>1
  <2> QED
    BY <2>1, <2>2 DEF SearchInv
<1>3. DriveInv(a, Q, B \cup {tx}, s)
  <2>1. DriveInv(a, O, B, s)
    BY DEF HolderOK
  <2> QED
    BY <2>1 DEF DriveInv
<1> QED
  BY <1>1, <1>2, <1>3 DEF HolderOK

\* The ledger after a transfer.
LEMMA ExecuteTyped ==
  ASSUME TypeOK, NEW tx \in TxSet, CanExecute(tx), Execute(tx)
  PROVE  /\ balance' \in [Splitters -> Nat] /\ blocks' \subseteq TxSet /\ fee' = fee
         /\ deposits' = deposits /\ tx \notin blocks
         /\ log' \in [Splitters -> Seq(Entry)]
         /\ balance[tx.splitter] >= tx.amt + tx.fee
<1>0. /\ tx.splitter \in Splitters /\ tx.amt \in Nat /\ tx.fee \in Nat /\ tx.leg \in Legs
      /\ balance \in [Splitters -> Nat] /\ balance[tx.splitter] \in Nat
      /\ log \in [Splitters -> Seq(Entry)] /\ blocks \subseteq TxSet
  BY DEF TxSet, TypeOK, Entry
<1>1. balance[tx.splitter] >= tx.amt + tx.fee /\ tx \notin blocks
  BY DEF CanExecute, IsExecuted
<1>2. balance' \in [Splitters -> Nat]
  <2>1. PICK x \in Nat : x = balance[tx.splitter] - (tx.amt + tx.fee)
    BY <1>0, <1>1
  <2>2. balance' = [balance EXCEPT ![tx.splitter] = x]
    BY <2>1 DEF Execute
  <2> QED
    BY <1>0, <2>1, <2>2
<1>3. log' \in [Splitters -> Seq(Entry)]
  <2>1. PICK e : e = [leg |-> tx.leg, amt |-> tx.amt, fee |-> tx.fee]
    OBVIOUS
  <2>2. e \in Entry
    BY <1>0, <2>1 DEF Entry
  <2>3. log' = [log EXCEPT ![tx.splitter] = Append(@, e)]
    BY <2>1 DEF Execute
  <2> QED
    BY <1>0, <2>2, <2>3, LogTyped
<1>4. blocks' \subseteq TxSet /\ fee' = fee /\ deposits' = deposits
  BY <1>0 DEF Execute
<1> QED
  BY <1>1, <1>2, <1>3, <1>4

LEMMA LateExecuteStep ==
  ASSUME IInv, LateExecute
  PROVE  IInv'
<1>0. TypeOK /\ late \subseteq TxSet /\ balance \in [Splitters -> Nat]
  BY DEF IInv, TypeOK
<1>1. PICK tx \in late : CanExecute(tx) /\ Execute(tx) /\ late' = late \ {tx}
  BY DEF LateExecute
<1>2. UNCHANGED <<now, lastStart, st, act, created, ended>> /\ UNCHANGED history
  BY DEF LateExecute, history
<1>3. tx \in TxSet /\ tx \in late
  BY <1>0, <1>1
<1>4. /\ balance' \in [Splitters -> Nat] /\ blocks' \subseteq TxSet /\ fee' = fee
      /\ deposits' = deposits /\ tx \notin blocks
      /\ log' \in [Splitters -> Seq(Entry)]
      /\ balance[tx.splitter] >= tx.amt + tx.fee
  BY <1>0, <1>1, <1>3, ExecuteTyped
<1>5. /\ blocks' = blocks \cup {tx}
      /\ balance' = [balance EXCEPT ![tx.splitter] = @ - (tx.amt + tx.fee)]
  BY <1>1 DEF Execute
<1>6. TypeOK'
  <2>1. late' \subseteq TxSet
    BY <1>0, <1>1
  <2> QED
    BY <1>0, <1>2, <1>4, <2>1 DEF TypeOK, Entry
<1>7. SameRuns
  BY <1>2 DEF SameRuns
<1>8. Wild' \in SUBSET Wild /\ tx \in Wild /\ blocks \subseteq Wild
  <2> DEFINE R == {Request(act[q]) : q \in {r \in Proc : InFlight(act[r])}}
  <2>1. Wild = blocks \cup late \cup R /\ Wild' = blocks' \cup late' \cup R
    BY <1>2 DEF Wild, InFlight, Request, Tx, CurrentLeg
  <2> HIDE DEF R
  <2> QED
    BY <1>1, <1>3, <1>5, <2>1
<1>9. \A q \in Proc : Others(q)' \in SUBSET Others(q) /\ tx \in Others(q)
  <2> SUFFICES ASSUME NEW p \in Proc
               PROVE  Others(p)' \in SUBSET Others(p) /\ tx \in Others(p)
    OBVIOUS
  <2> DEFINE R == {Request(act[q]) : q \in {r \in Proc \ {p} : InFlight(act[r])}}
  <2>1. Others(p) = late \cup R /\ Others(p)' = late' \cup R
    BY <1>2 DEF Others, InFlight, Request, Tx, CurrentLeg
  <2> HIDE DEF R
  <2> QED
    BY <1>1, <1>3, <2>1
<1>10. StoreInv(Wild, blocks, balance, st.quar, st.job, created, ended, lastStart)
  BY DEF IInv
<1>11. HolderStays
  <2> SUFFICES ASSUME NEW q \in Proc, act[q].pc # "idle", Current(q)
               PROVE  HolderOK(act'[q], Others(q)', blocks', balance', st)
    BY DEF HolderStays
  <2>1. HolderOK(act[q], Others(q), blocks, balance, st)
    BY DEF IInv, HolderInv
  <2>2. Others(q)' \in SUBSET Others(q) /\ tx \in Others(q)
    BY <1>9
  <2>3. HolderOK(act[q], Others(q)', blocks \cup {tx}, balance', st)
    BY <1>0, <1>4, <1>5, <1>8, <1>10, <2>1, <2>2, HolderExecutes
  <2> QED
    BY <1>2, <1>5, <2>3
<1>12. StoreInv(Wild', blocks', balance', st.quar, st.job, created, ended, lastStart)
  <2>1. StoreInv(Wild, blocks', balance', st.quar, st.job, created, ended, lastStart)
    BY <1>0, <1>4, <1>5, <1>8, <1>10, StoreExecutes
  <2> QED
    BY <1>8, <2>1, StoreShrinks
<1> QED
  BY <1>2, <1>6, <1>7, <1>11, <1>12, EnvSettles

\* Only p's own record changes, and it is not waiting for a transfer afterwards.
LEMMA AnsweredIs ==
  ASSUME IInv, NEW p \in Proc, NEW b \in ActSet, act' = [act EXCEPT ![p] = b],
         late' = late, ~InFlight(b)
  PROVE  /\ Others(p)' = Others(p)
         /\ \A q \in Proc : q # p => act'[q] = act[q] /\ Others(q)' \in SUBSET Others(q)
         /\ act'[p] = b
         /\ Wild' = blocks' \cup Others(p)
<1>1. act \in [Proc -> ActSet]
  BY DEF IInv, TypeOK
<1>2. act'[p] = b /\ \A q \in Proc : q # p => act'[q] = act[q]
  BY <1>1
<1>3. Others(p)' = Others(p)
  BY <1>1, OthersStay
<1>4. InFlight(act[p])' = InFlight(b)
  BY <1>2 DEF InFlight
<1>5. ASSUME NEW q \in Proc, q # p, NEW tx \in Others(q)'
      PROVE  tx \in Others(q)
  <2>1. CASE tx \in late'
    BY <2>1 DEF Others
  <2>2. CASE tx \notin late'
    <3>1. PICK r \in Proc : r # q /\ InFlight(act[r])' /\ tx = Request(act[r])'
      BY <1>5, <2>2 DEF Others
    <3>2. r # p
      BY <1>4, <3>1
    <3>3. InFlight(act[r]) /\ tx = Request(act[r])
      BY <1>2, <3>1, <3>2 DEF InFlight, Request, Tx, CurrentLeg
    <3> QED
      BY <3>1, <3>3 DEF Others
  <2> QED
    BY <2>1, <2>2
<1>6. Wild' = blocks' \cup Others(p)
  <2>1. Wild' = blocks' \cup Others(p)' \cup Own(act[p])'
    BY WildIs DEF Wild, Others, Own
  <2>2. Own(act[p])' = {}
    BY <1>4 DEF Own
  <2> QED
    BY <1>3, <2>1, <2>2
<1> QED
  BY <1>2, <1>3, <1>5, <1>6

LEMMA ServeBalanceStep ==
  ASSUME IInv, NEW p \in Proc, ServeBalance(p)
  PROVE  IInv'
<1>1. /\ act \in [Proc -> ActSet] /\ act[p] \in ActSet /\ TypeOK /\ Asks(act[p])
      /\ balance \in [Splitters -> Nat]
      /\ StoreInv(blocks \cup Others(p), blocks, balance, st.quar, st.job, created,
                  ended, lastStart)
  BY StateIs DEF IInv, AskInv
<1>2. /\ act[p].pc \in {"balance", "legFunds"}
      /\ UNCHANGED <<now, lastStart, st, ledger, late, history>>
  BY DEF ServeBalance
<1>3. PICK i : i = IF act[p].pc = "balance" THEN act[p].at ELSE act[p].claimed.splitter
  OBVIOUS
<1>4. act' = [act EXCEPT ![p].got = TRUE, ![p].val = balance[i]]
  BY <1>3 DEF ServeBalance
<1>5. i \in Splitters
  BY <1>1, <1>2, <1>3, JobTyped DEF Asks
<1>6. PICK x \in Nat : x = balance[i]
  BY <1>1, <1>5
<1>7. PICK b : b = [act[p] EXCEPT !.got = TRUE, !.val = x]
  OBVIOUS
<1>8. /\ b \in ActSet /\ b.pc = act[p].pc /\ b.start = act[p].start /\ b.expiry = act[p].expiry
      /\ b.at = act[p].at /\ b.claimed = act[p].claimed /\ b.resumed = act[p].resumed
      /\ b.val = x
  BY <1>1, <1>6, <1>7 DEF ActSet
<1>9. act' = [act EXCEPT ![p] = b]
  BY <1>1, <1>4, <1>6, <1>7
<1>10. ~InFlight(b)
  BY <1>2, <1>8 DEF InFlight
<1>11. /\ Others(p)' = Others(p) /\ act'[p] = b /\ Wild' = blocks' \cup Others(p)
       /\ \A q \in Proc : q # p => act'[q] = act[q] /\ Others(q)' \in SUBSET Others(q)
  BY <1>2, <1>8, <1>9, <1>10, AnsweredIs
<1>12. UNCHANGED <<fee, balance, deposits, blocks, log, created, ended>>
  BY <1>2 DEF ledger, history
<1>13. TypeOK'
  <2>1. act' \in [Proc -> ActSet]
    BY <1>1, <1>8, <1>9
  <2> QED
    BY <1>1, <1>2, <1>12, <2>1 DEF TypeOK
<1>14. SameRuns
  BY <1>8, <1>11 DEF SameRuns
<1>15. HolderStays
  <2> SUFFICES ASSUME NEW q \in Proc, act[q].pc # "idle", Current(q)
               PROVE  HolderOK(act'[q], Others(q)', blocks', balance', st)
    BY DEF HolderStays
  <2>1. HolderOK(act[q], Others(q), blocks, balance, st)
    BY DEF IInv, HolderInv
  <2>2. CASE q # p
    <3>1. HolderOK(act[q], Others(q)', blocks, balance, st)
      BY <1>11, <2>1, <2>2, HolderShrinks
    <3> QED
      BY <1>11, <1>12, <2>2, <3>1
  <2>3. CASE q = p
    <3>1. VisitInv(b, Others(p) \cup blocks)
      BY <1>8, <2>1, <2>3 DEF HolderOK, VisitInv, ToVisit
    <3>2. SearchInv(b, balance, st)
      <4>1. b.pc = "balance" => b.val <= balance[b.at]
        BY <1>3, <1>6, <1>8
      <4> QED
        BY <1>8, <2>1, <2>3, <4>1 DEF HolderOK, SearchInv
    <3>3. DriveInv(b, Others(p), blocks, st)
      BY <1>2, <1>8, <2>1, <2>3 DEF HolderOK, DriveInv, Driving
    <3> QED
      BY <1>11, <1>12, <2>3, <3>1, <3>2, <3>3 DEF HolderOK
  <2> QED
    BY <2>2, <2>3
<1>16. StoreInv(Wild', blocks', balance', st.quar, st.job, created, ended, lastStart)
  BY <1>1, <1>11, <1>12
<1> QED
  BY <1>2, <1>13, <1>14, <1>15, <1>16, EnvSettles

\* An answer that the transfer was accepted stands for the transfer itself.
LEMMA AcceptedIs ==
  ASSUME IInv, NEW tx \in Wild, IsExecuted(tx)
  PROVE  tx \in blocks
<1>1. PICK u \in blocks : Key(u) = Key(tx)
  BY DEF IsExecuted
<1>2. u \in Wild
  BY <1>1 DEF Wild
<1>3. WildInv(Wild, created, lastStart)
  BY DEF IInv, StoreInv
<1>4. u = tx
  BY <1>1, <1>2, <1>3 DEF WildInv
<1> QED
  BY <1>1, <1>4

LEMMA ServeTransferStep ==
  ASSUME IInv, NEW p \in Proc, ServeTransfer(p)
  PROVE  IInv'
<1>1. /\ act \in [Proc -> ActSet] /\ act[p] \in ActSet /\ TypeOK /\ fee \in Nat
      /\ balance \in [Splitters -> Nat] /\ Wild \subseteq TxSet
      /\ Wild = blocks \cup Others(p) \cup Own(act[p])
      /\ StoreInv(Wild, blocks, balance, st.quar, st.job, created, ended, lastStart)
      /\ StoreInv(blocks \cup Others(p), blocks, balance, st.quar, st.job, created,
                  ended, lastStart)
  BY StateIs DEF IInv
<1>2. /\ act[p].pc = "transfer" /\ UNCHANGED <<now, lastStart, st, late, history>>
      /\ ~act[p].got
  BY DEF ServeTransfer
<1>3. act[p].got = FALSE
  <2>1. act[p].got \in BOOLEAN
    BY <1>1, ActTyped
  <2> QED
    BY <1>2, <2>1, Zenon
<1>4. PICK tx : tx = Request(act[p])
  OBVIOUS
<1>5. PICK v \in VerdictsFor(tx) :
        /\ act' = [act EXCEPT ![p].got = TRUE, ![p].verdict = v, ![p].val = fee]
        /\ IF v = "accepted" /\ ~IsExecuted(tx) THEN Execute(tx) ELSE UNCHANGED ledger
  BY <1>4 DEF ServeTransfer, Request
<1>6. InFlight(act[p])
  BY <1>2, <1>3 DEF InFlight
<1>7. tx \in Wild /\ tx \in TxSet /\ Wild = blocks \cup Others(p) \cup {tx}
  BY <1>1, <1>4, <1>6 DEF Own
<1>8. /\ v \in {"accepted", "badFee", "insufficient", "refused"}
      /\ v = "accepted" => CanExecute(tx) \/ IsExecuted(tx)
  BY <1>5 DEF VerdictsFor
<1>9. PICK b : b = [act[p] EXCEPT !.got = TRUE, !.verdict = v, !.val = fee]
  OBVIOUS
<1>10. /\ b \in ActSet /\ b.pc = act[p].pc /\ b.start = act[p].start /\ b.expiry = act[p].expiry
       /\ b.at = act[p].at /\ b.claimed = act[p].claimed /\ b.resumed = act[p].resumed
       /\ b.verdict = v /\ b.got = TRUE /\ b.prior = act[p].prior
  BY <1>1, <1>8, <1>9 DEF ActSet
<1>11. act' = [act EXCEPT ![p] = b]
  BY <1>1, <1>5, <1>9
<1>12. ~InFlight(b)
  BY <1>10 DEF InFlight
<1>13. /\ Others(p)' = Others(p) /\ act'[p] = b /\ Wild' = blocks' \cup Others(p)
       /\ \A q \in Proc : q # p => act'[q] = act[q] /\ Others(q)' \in SUBSET Others(q)
  BY <1>2, <1>10, <1>11, <1>12, AnsweredIs
<1>14. act' \in [Proc -> ActSet] /\ UNCHANGED <<created, ended>>
  BY <1>1, <1>2, <1>10, <1>11 DEF history
<1>15. SameRuns
  BY <1>10, <1>13 DEF SameRuns
<1>16. Request(b) = tx
  BY <1>4, <1>10 DEF Request
\* What p itself may rely on with the answer.
<1>17. ASSUME act[p].pc # "idle", Current(p), blocks \subseteq blocks',
              blocks' \subseteq blocks \cup {tx}, v = "accepted" => tx \in blocks',
              v # "accepted" => blocks' = blocks
       PROVE  HolderOK(b, Others(p), blocks', balance', st)
  <2>1. HolderOK(act[p], Others(p), blocks, balance, st)
    BY <1>17 DEF IInv, HolderInv
  <2>2. DriveInv(act[p], Others(p), blocks, st)
    BY <2>1 DEF HolderOK
  <2>3. /\ act[p].claimed \in JobSet /\ act[p].claimed.splitter \in {b.resumed, b.at}
        /\ CurrentLeg(act[p].claimed) \in Legs
    BY <1>2, <1>10, <2>2 DEF DriveInv, Driving
  <2>4. tx.splitter = act[p].claimed.splitter
    BY <1>4, <2>3, TxIs DEF Request
  <2>5. b.at \in Nat /\ b.pc = "transfer"
    BY <1>2, <1>10, ActTyped, SplittersAre
  <2>6. tx.splitter \notin ToVisit(b)
    BY <2>3, <2>4, <2>5 DEF ToVisit
  <2>7. VisitInv(b, Others(p) \cup blocks')
    <3> SUFFICES ASSUME NEW u \in Others(p) \cup blocks', u.splitter \in ToVisit(b)
                 PROVE  u.cat < b.start
      BY DEF VisitInv
    <3>1. u \in Others(p) \cup blocks
      BY <1>17, <2>6
    <3>2. u.splitter \in ToVisit(act[p])
      BY <1>10 DEF ToVisit
    <3> QED
      BY <1>10, <2>1, <3>1, <3>2 DEF HolderOK, VisitInv
  <2>8. SearchInv(b, balance', st)
    BY <2>5 DEF SearchInv
  <2>9. b.prior = FALSE =>
          \A u \in blocks' : SameLeg(u, Request(b)) => b.got = TRUE /\ b.verdict = "accepted"
    <3>1. act[p].prior = FALSE => \A u \in blocks : ~SameLeg(u, Request(act[p]))
      BY <1>2, <1>3, <2>2 DEF DriveInv, Driving
    <3> QED
      BY <1>4, <1>10, <1>16, <1>17, <3>1
  <2>10. DriveInv(b, Others(p), blocks', st)
    <3>1. /\ st.job = b.claimed /\ b.claimed \in JobSet
          /\ b.claimed.splitter \in {b.resumed, b.at}
          /\ b.claimed.leg[2].cat <= b.start + 1
          /\ CurrentLeg(b.claimed) \in Legs
          /\ b.claimed.leg[CurrentLeg(b.claimed)].status = "ready"
          /\ b.claimed.leg[CurrentLeg(b.claimed)].started = TRUE
      BY <1>2, <1>10, <2>2 DEF DriveInv, Driving
    <3>2. b.verdict # "none" /\ (b.verdict = "accepted" => Request(b) \in blocks')
      BY <1>8, <1>10, <1>16, <1>17
    <3>3. b.prior = FALSE =>
            /\ b.claimed.leg[CurrentLeg(b.claimed)].seen = FALSE
            /\ \A u \in Others(p) : ~SameLeg(u, Request(b))
      BY <1>2, <1>4, <1>10, <1>16, <2>2 DEF DriveInv, Driving
    <3> QED
      BY <2>5, <2>9, <3>1, <3>2, <3>3 DEF DriveInv
  <2> QED
    BY <2>7, <2>8, <2>10 DEF HolderOK
<1>18. CASE v = "accepted" /\ ~IsExecuted(tx)
  <2>1. CanExecute(tx) /\ Execute(tx)
    BY <1>5, <1>8, <1>18
  <2>2. /\ balance' \in [Splitters -> Nat] /\ blocks' \subseteq TxSet /\ fee' = fee
        /\ deposits' = deposits /\ tx \notin blocks
        /\ log' \in [Splitters -> Seq(Entry)]
        /\ balance[tx.splitter] >= tx.amt + tx.fee
    BY <1>1, <1>7, <2>1, ExecuteTyped
  <2>3. /\ blocks' = blocks \cup {tx}
        /\ balance' = [balance EXCEPT ![tx.splitter] = @ - (tx.amt + tx.fee)]
    BY <2>1 DEF Execute
  <2>4. TypeOK'
    BY <1>1, <1>2, <1>14, <2>2 DEF TypeOK, Entry
  <2>5. HolderStays
    <3> SUFFICES ASSUME NEW q \in Proc, act[q].pc # "idle", Current(q)
                 PROVE  HolderOK(act'[q], Others(q)', blocks', balance', st)
      BY DEF HolderStays
    <3>1. CASE q # p
      <4>1. HolderOK(act[q], Others(q), blocks, balance, st)
        BY DEF IInv, HolderInv
      <4>2. Others(q)' \in SUBSET Others(q) /\ tx \in Others(q)
        BY <1>4, <1>6, <1>13, <3>1 DEF Others
      <4>3. HolderOK(act[q], Others(q)', blocks \cup {tx}, balance', st)
        BY <1>1, <1>7, <2>2, <2>3, <4>1, <4>2, HolderExecutes
      <4> QED
        BY <1>13, <2>3, <3>1, <4>3
    <3>2. CASE q = p
      <4>1. HolderOK(b, Others(p), blocks', balance', st)
        BY <1>17, <1>18, <2>3, <3>2
      <4> QED
        BY <1>13, <3>2, <4>1
    <3> QED
      BY <3>1, <3>2
  <2>6. StoreInv(Wild', blocks', balance', st.quar, st.job, created, ended, lastStart)
    <3>1. blocks \subseteq Wild /\ Wild' \in SUBSET Wild
      BY <1>7, <1>13, <2>3
    <3>2. StoreInv(Wild, blocks', balance', st.quar, st.job, created, ended, lastStart)
      BY <1>1, <1>7, <2>2, <2>3, <3>1, StoreExecutes
    <3> QED
      BY <3>1, <3>2, StoreShrinks
  <2> QED
    BY <1>2, <1>15, <2>4, <2>5, <2>6, EnvSettles
<1>19. CASE ~(v = "accepted" /\ ~IsExecuted(tx))
  <2>1. UNCHANGED <<fee, balance, deposits, blocks, log>>
    BY <1>5, <1>19 DEF ledger
  <2>2. TypeOK'
    BY <1>1, <1>2, <1>14, <2>1 DEF TypeOK
  <2>3. v = "accepted" => tx \in blocks
    BY <1>7, <1>19, AcceptedIs
  <2>4. HolderStays
    <3> SUFFICES ASSUME NEW q \in Proc, act[q].pc # "idle", Current(q)
                 PROVE  HolderOK(act'[q], Others(q)', blocks', balance', st)
      BY DEF HolderStays
    <3>1. CASE q # p
      <4>1. HolderOK(act[q], Others(q), blocks, balance, st)
        BY DEF IInv, HolderInv
      <4>2. HolderOK(act[q], Others(q)', blocks, balance, st)
        BY <1>13, <3>1, <4>1, HolderShrinks
      <4> QED
        BY <1>13, <2>1, <3>1, <4>2
    <3>2. CASE q = p
      <4>1. HolderOK(b, Others(p), blocks', balance', st)
        BY <1>17, <2>1, <2>3, <3>2
      <4> QED
        BY <1>13, <3>2, <4>1
    <3> QED
      BY <3>1, <3>2
  <2>5. StoreInv(Wild', blocks', balance', st.quar, st.job, created, ended, lastStart)
    BY <1>1, <1>13, <2>1
  <2> QED
    BY <1>2, <1>15, <2>2, <2>4, <2>5, EnvSettles
<1> QED
  BY <1>18, <1>19

-----------------------------------------------------------------------------
(* The theorems.                                                             *)

LEMMA InitHolds ==
  ASSUME Init
  PROVE  IInv
<1>1. TypeOK
  <2>1. Min(Fees) \in Fees
    BY SplitAssumption, MinIs
  <2>2. st \in StSet
    <3>1. [i \in Splitters |-> NoJob] \in [Splitters -> JobSet \cup {NoJob}]
      OBVIOUS
    <3> QED
      BY <3>1 DEF Init, StSet, Unlocked
  <2>3. act \in [Proc -> ActSet]
    BY IdleTyped DEF Init
  <2>4. log \in [Splitters -> Seq(Entry)]
    BY DEF Init
  <2>5. balance \in [Splitters -> Nat]
    BY DEF Init
  <2>6. now \in Nat /\ lastStart \in Nat /\ deposits \in Nat /\ created \in Nat
    BY StrideAssumption DEF Init
  <2>7. blocks = {} /\ late = {} /\ ended = {} /\ fee \in Fees
    BY <2>1 DEF Init
  <2> QED
    BY <2>2, <2>3, <2>4, <2>5, <2>6, <2>7 DEF TypeOK, StSet, Entry
<1>2. \A p \in Proc : act[p].pc = "idle"
  BY IdleTyped DEF Init
<1>3. LeaseInv
  BY <1>2, StrideAssumption DEF Init, LeaseInv
<1>4. HolderInv /\ AskInv
  BY <1>2 DEF HolderInv, AskInv, Asks
<1>5. Wild = {}
  BY <1>2 DEF Init, Wild, InFlight
<1>6. st.job = NoJob /\ \A i \in Splitters : st.quar[i] = NoJob
  BY DEF Init
<1>7. QuarInv(st.quar, lastStart)
  BY <1>6 DEF QuarInv
<1>8. WildInv({}, created, lastStart)
  BY DEF WildInv
<1>9. EndedInv({}, blocks, st.job, created, ended)
  BY DEF EndedInv, Init
<1>10. DeadInv({}, blocks, st.quar, st.job)
  BY DEF DeadInv
<1> QED
  BY <1>1, <1>3, <1>4, <1>5, <1>6, <1>7, <1>8, <1>9, <1>10 DEF IInv, StoreInv

LEMMA StutterHolds ==
  ASSUME IInv, UNCHANGED vars
  PROVE  IInv'
<1>1. UNCHANGED <<now, lastStart, st, act, ledger, late, history>>
  BY DEF vars
<1>2. TypeOK'
  BY <1>1 DEF IInv, TypeOK, ledger, history
<1>3. UNCHANGED <<lastStart, act, balance, blocks, late, history>>
  BY <1>1 DEF ledger
<1> QED
  BY <1>1, <1>2, <1>3, QuietSettles

\* The inductive invariant of the splitters holds in every reachable state:
\* one transfer for each leg of each job is executed or on its way, whoever
\* sent it, and the ledger can tell them apart.
THEOREM SplitterInvariant == Spec => []IInv
<1>1. Init => IInv
  BY InitHolds
<1>2. IInv /\ [Next]_vars => IInv'
  <2> SUFFICES ASSUME IInv, [Next]_vars PROVE IInv'
    OBVIOUS
  <2>1. CASE UNCHANGED vars
    BY <2>1, StutterHolds
  <2>2. CASE Tick \/ FeeChange \/ LateExecute \/ Upgrade
    BY <2>2, TickStep, FeeChangeStep, LateExecuteStep, UpgradeStep
  <2>3. CASE \E i \in Splitters : Deposit(i)
    BY <2>3, DepositStep
  <2>4. ASSUME NEW p \in Proc, MainStart(p) \/ RetryStart(p) PROVE IInv'
    <3>1. TRUE \in BOOLEAN /\ FALSE \in BOOLEAN
      OBVIOUS
    <3>2. Start(p, TRUE) \/ Start(p, FALSE)
      BY <2>4 DEF MainStart, RetryStart
    <3> QED
      BY <3>1, <3>2, StartStep
  <2>5. ASSUME NEW p \in Proc, \/ Trap(p) \/ ServeTransfer(p) \/ ServeBalance(p)
                               \/ FeeReply(p) \/ BalanceFailed(p) \/ BalanceReply(p)
        PROVE  IInv'
    BY <2>5, TrapStep, ServeTransferStep, ServeBalanceStep, FeeReplyStep,
       BalanceFailedStep, BalanceReplyStep
  <2>6. ASSUME NEW p \in Proc, \/ LegFundsReply(p) \/ LegFeeReply(p)
                               \/ TransferReply(p) \/ TransferUnknown(p)
        PROVE  IInv'
    BY <2>6, LegFundsReplyStep, LegFeeReplyStep, TransferReplyStep, TransferUnknownStep
  <2> QED
    BY <2>1, <2>2, <2>3, <2>4, <2>5, <2>6 DEF Next
<1> QED
  BY <1>1, <1>2, PTL DEF Spec

\* A leg of a splitter job is paid once, under whichever identity, however
\* leases, lost replies, refusals and late executions are interleaved.
THEOREM LegIsPaidOnce == Spec => []LegPaidOnce
<1>1. IInv => LegPaidOnce
  BY DEF IInv, StoreInv, WildInv, LegPaidOnce, SameLeg, Wild
<1> QED
  BY <1>1, SplitterInvariant, PTL

\* The splitter account always covers the shares the active job has not moved
\* yet: nothing else spends them.
THEOREM SharesAreCovered == Spec => []Covered
<1>1. IInv => Covered
  <2> SUFFICES ASSUME IInv, st.job # NoJob
               PROVE  Owed(st.job, 1) + Owed(st.job, 2) <= balance[st.job.splitter]
    BY DEF Covered
  <2>1. JobInv(st.job, Wild, blocks, balance, st.quar, created, ended)
    BY DEF IInv, StoreInv
  <2> QED
    BY <2>1 DEF JobInv, OwedOf, Owed
<1> QED
  BY <1>1, SplitterInvariant, PTL

\* Every stored job ends, and ends as what the ledger did allows: none is
\* overwritten, a dropped one moved nothing, a completed one everything, and
\* only an expired identity in doubt is quarantined.
THEOREM JobsEndJustified == Spec => []EndsJustified
<1>1. IInv => EndsJustified
  <2> SUFFICES ASSUME IInv PROVE EndsJustified
    OBVIOUS
  <2>1. /\ EndedInv(Wild, blocks, st.job, created, ended) /\ QuarInv(st.quar, lastStart)
        /\ blocks \subseteq Wild
    BY DEF IInv, StoreInv, Wild
  <2>2. NoJobLost
    BY <2>1 DEF EndedInv, NoJobLost
  <2>3. ClearedIsUnpaid
    BY <2>1 DEF EndedInv, ClearedIsUnpaid, BlocksOf
  <2>4. CompletedConserves
    BY <2>1 DEF EndedInv, CompletedConserves, Conserved, BlocksOf
  <2>5. QuarantineJustified
    BY <2>1 DEF QuarInv, QuarantineJustified
  <2> QED
    BY <2>2, <2>3, <2>4, <2>5 DEF EndsJustified
<1> QED
  BY <1>1, SplitterInvariant, PTL
=============================================================================

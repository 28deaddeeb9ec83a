------------------------ MODULE HistorianIndexProofs ------------------------
(* Theorems about the historian's indexing for every number of ticks, pokes  *)
(* and transactions, every page size, page budget, retention and lease.      *)
EXTENDS HistorianIndex, FiniteSetTheorems, TLAPS

-----------------------------------------------------------------------------
(* Pages.                                                                    *)

LEMMA MaxIs ==
  ASSUME NEW S \in SUBSET Int, NEW m \in S, \A y \in S : y <= m
  PROVE  Max(S) = m
<1>1. \E x \in S : \A y \in S : x >= y
  <2>1. \A y \in S : m >= y
    OBVIOUS
  <2> QED
    BY <2>1
<1>2. Max(S) \in S /\ \A y \in S : Max(S) >= y
  BY <1>1 DEF Max
<1>3. Max(S) \in Int /\ m \in Int /\ Max(S) >= m /\ Max(S) <= m
  BY <1>2
<1> QED
  BY <1>3

LEMMA MinIs ==
  ASSUME NEW S \in SUBSET Int, NEW m \in S, \A y \in S : m <= y
  PROVE  Min(S) = m
<1>1. Min(S) \in S /\ \A y \in S : Min(S) <= y
  BY DEF Min
<1>2. Min(S) \in Int /\ m \in Int /\ Min(S) <= m /\ m <= Min(S)
  BY <1>1
<1> QED
  BY <1>2

\* Where a page ends and begins.
Top(n, start) == IF start = 0 THEN n ELSE start - 1
Low(top) == IF top >= PageSize THEN top - PageSize + 1 ELSE 1

LEMMA TopLow ==
  ASSUME NEW n \in Nat, NEW start \in Nat
  PROVE  /\ Top(n, start) \in Nat /\ Low(Top(n, start)) \in Nat \ {0}
         /\ PageSize \in Nat \ {0}
<1>1. PageSize \in Nat \ {0}
  BY IndexAssumption
<1>2. Top(n, start) \in Nat
  BY DEF Top
<1> QED
  BY <1>1, <1>2 DEF Low

\* The Index answers a gapless run, and a short page reaches the first id.
LEMMA PageIsInterval ==
  ASSUME NEW n \in Nat, NEW start \in Nat
  PROVE  LET top == Top(n, start) IN
         /\ Page(n, start) = Low(top)..top
         /\ Cardinality(Page(n, start)) < PageSize <=> top < PageSize
<1> DEFINE top == Top(n, start)
<1>1. top \in Nat /\ PageSize \in Nat \ {0} /\ Low(top) \in Nat \ {0}
  BY TopLow
<1>2. Page(n, start) = {i \in 1..top : i + PageSize > top}
  BY DEF Page, Top
<1> HIDE DEF top
<1>3. Page(n, start) = Low(top)..top
  BY <1>1, <1>2 DEF Low
<1>4. Cardinality(Low(top)..top) = IF Low(top) > top THEN 0 ELSE top - Low(top) + 1
  <2>1. Low(top) \in Int /\ top \in Int
    BY <1>1
  <2> QED
    BY <2>1, FS_Interval
<1>5. Cardinality(Page(n, start)) < PageSize <=> top < PageSize
  BY <1>1, <1>3, <1>4 DEF Low
<1> QED
  BY <1>3, <1>5 DEF top

\* The cursors of an account that has had n transactions enclose a gapless
\* run, which reaches back to the first one once the backfill is complete; a
\* catch-up has walked a second run above it.
WellFormed(c, n) ==
  /\ c.oldest <= c.latest /\ c.latest <= n /\ (c.latest = 0 => c.oldest = 0)
  /\ c.oldest = 0 => c.latest = 0
  /\ ~c.known => c.latest = 0 /\ ~c.complete
  /\ c.complete /\ c.latest # 0 => c.oldest = 1
  /\ c.catchUp # NoCatchUp =>
       /\ c.complete /\ c.latest # 0 /\ c.catchUp.boundary = c.latest
       /\ c.latest < c.catchUp.next /\ c.catchUp.next <= c.catchUp.head
       /\ c.catchUp.head <= n

\* An account is walked again from its head while it is empty.
Walkable(c) == ~(c.complete /\ c.latest = 0)

\* The head of the account was at n or below when its cursors were saved.
Reaches(n, c) == c.latest <= n /\ (c.catchUp # NoCatchUp => c.catchUp.head <= n)

\* What one page does to the cursors: they cover exactly the page's fresh
\* transactions more than before.
PageExact(c, r) ==
  /\ r.cursors \in Cursors
  /\ \A i \in Nat : Covered(r.cursors, i) <=> Covered(c, i) \/ i \in r.fresh
  /\ \A i \in r.fresh : i \in Nat /\ ~Covered(c, i)
  /\ c.complete => r.cursors.complete
  /\ ~r.over => Walkable(r.cursors)

LEMMA BackfillExact ==
  ASSUME NEW c \in Cursors, NEW n \in Nat, NEW N \in Nat, n <= N,
         WellFormed(c, N), Reaches(n, c), ~c.complete
  PROVE  LET r == BackfillPage(c, Page(n, StartOf(c)))
         IN  PageExact(c, r) /\ WellFormed(r.cursors, N)
<1> DEFINE start == StartOf(c)
           top == Top(n, start)
           lo == Low(top)
           page == Page(n, start)
           r == BackfillPage(c, page)
           d == r.cursors
<1>1. /\ c.latest \in Nat /\ c.oldest \in Nat /\ start = c.oldest
      /\ c.catchUp = NoCatchUp
  BY DEF StartOf, WellFormed, Cursors
<1>2. /\ top = (IF c.oldest = 0 THEN n ELSE c.oldest - 1) /\ top \in Nat
      /\ PageSize \in Nat \ {0} /\ lo \in Nat \ {0}
      /\ lo = (IF top >= PageSize THEN top - PageSize + 1 ELSE 1)
  <2>1. start \in Nat /\ top = (IF c.oldest = 0 THEN n ELSE c.oldest - 1)
    BY <1>1 DEF Top
  <2>2. top \in Nat /\ PageSize \in Nat \ {0} /\ lo \in Nat \ {0}
    <3> HIDE DEF start
    <3> QED
      BY <2>1, TopLow
  <2> QED
    BY <2>1, <2>2 DEF Low
<1>3. page = lo..top /\ (Cardinality(page) < PageSize <=> top < PageSize)
  <2>1. start \in Nat
    BY <1>1
  <2> HIDE DEF start
  <2> QED
    BY <2>1, PageIsInterval
<1> DEFINE older == IF c.oldest = 0 THEN page ELSE {i \in page : i < c.oldest}
<1>4. older = page
  <2> HIDE DEF page, top, lo
  <2>1. ASSUME c.oldest # 0, NEW i \in page PROVE i < c.oldest
    <3>1. i \in Int /\ i <= top /\ top = c.oldest - 1
      BY <1>2, <1>3, <2>1
    <3> QED
      BY <1>1, <3>1
  <2> QED
    BY <2>1
<1>5. /\ r.fresh = page /\ (r.over <=> page = {} \/ Cardinality(page) < PageSize)
      /\ d = [c EXCEPT !.known = TRUE,
                       !.complete = (page = {} \/ Cardinality(page) < PageSize),
                       !.latest = Greatest(page \cup {c.latest}),
                       !.oldest = IF page = {} THEN c.oldest ELSE Min(page)]
  <2> HIDE DEF page
  <2> QED
    BY <1>4 DEF BackfillPage
<1> HIDE DEF page, top, lo, start, older
<1>6. page = {} <=> top = 0
  <2>1. top # 0 => lo \in page
    <3>1. top # 0 => lo <= top
      <4>1. /\ top \in Nat /\ PageSize \in Nat \ {0}
            /\ lo = (IF top >= PageSize THEN top - PageSize + 1 ELSE 1)
        BY <1>2
      <4> QED
        BY <4>1
    <3> QED
      BY <1>2, <1>3, <3>1
  <2>2. ASSUME top = 0, NEW i \in page PROVE FALSE
    BY <1>2, <1>3, <2>2
  <2> QED
    BY <2>1, <2>2
<1>7. Greatest(page \cup {c.latest}) = IF c.oldest = 0 THEN top ELSE c.latest
  <2> DEFINE S == page \cup {c.latest}
             m == IF c.oldest = 0 THEN top ELSE c.latest
  <2>1. S \in SUBSET Int /\ m \in S
    BY <1>1, <1>2, <1>3, <1>6 DEF WellFormed
  <2>2. \A y \in S : y <= m
    BY <1>1, <1>2, <1>3 DEF WellFormed
  <2>3. Max(S) = m
    <3> HIDE DEF S, m
    <3> QED
      BY <2>1, <2>2, MaxIs
  <2> QED
    BY <2>3 DEF Greatest
<1>8. page # {} => Min(page) = lo
  <2>1. page # {} => lo \in page /\ (\A y \in page : lo <= y) /\ page \in SUBSET Int
    BY <1>2, <1>3
  <2> QED
    BY <2>1, MinIs
<1>9. /\ d.known = TRUE /\ (d.complete <=> r.over)
      /\ d.latest = (IF c.oldest = 0 THEN top ELSE c.latest)
      /\ d.oldest = (IF top = 0 THEN c.oldest ELSE lo)
      /\ d.catchUp = NoCatchUp /\ d \in Cursors
  <2> HIDE DEF r
  <2>1. /\ d.latest = Greatest(page \cup {c.latest})
        /\ d.oldest = IF page = {} THEN c.oldest ELSE Min(page)
        /\ d.catchUp = c.catchUp
    BY <1>5 DEF Cursors
  <2>2. d.known = TRUE
    BY <1>5 DEF Cursors
  <2>3. d.complete = (page = {} \/ Cardinality(page) < PageSize)
    BY <1>5 DEF Cursors
  <2>4. d.latest \in Nat /\ d.oldest \in Nat
    BY <1>1, <1>2, <1>6, <1>7, <1>8, <2>1
  <2>5. d \in Cursors
    <3>1. Greatest(page \cup {c.latest}) \in Nat
      BY <1>1, <1>2, <1>7
    <3>2. (IF page = {} THEN c.oldest ELSE Min(page)) \in Nat
      BY <1>1, <1>2, <1>8
    <3> QED
      BY <1>5, <3>1, <3>2 DEF Cursors
  <2> QED
    BY <1>1, <1>5, <1>6, <1>7, <1>8, <2>1, <2>2, <2>3, <2>5
<1>10. r.over <=> top < PageSize
  BY <1>2, <1>3, <1>5, <1>6
<1> HIDE DEF d, r
<1>11. \A i \in Nat : Covered(d, i) <=> Covered(c, i) \/ i \in r.fresh
  BY <1>1, <1>2, <1>3, <1>5, <1>9, SMTT(30) DEF Covered, WellFormed
<1>12. \A i \in r.fresh : i \in Nat /\ ~Covered(c, i)
  BY <1>1, <1>2, <1>3, <1>5 DEF Covered, WellFormed
<1>13. WellFormed(d, N)
  BY <1>1, <1>2, <1>9, <1>10 DEF WellFormed, Reaches
<1>14. ~r.over => Walkable(d)
  BY <1>9 DEF Walkable
<1> QED
  BY <1>9, <1>11, <1>12, <1>13, <1>14 DEF PageExact, d, r, page, start

LEMMA CatchUpExact ==
  ASSUME NEW c \in Cursors, NEW n \in Nat, NEW N \in Nat, n <= N,
         WellFormed(c, N), Reaches(n, c), c.complete, Walkable(c)
  PROVE  LET r == CatchUpPage(c, Page(n, StartOf(c)))
         IN  PageExact(c, r) /\ WellFormed(r.cursors, N)
<1> DEFINE q == CatchUpOf(c)
           start == StartOf(c)
           top == Top(n, start)
           lo == Low(top)
           page == Page(n, start)
           r == CatchUpPage(c, page)
           d == r.cursors
<1>1. /\ c.latest \in Nat \ {0} /\ c.oldest = 1 /\ start = q.next /\ q \in CatchUps
      /\ q.boundary = c.latest
      /\ IF c.catchUp = NoCatchUp THEN q.next = 0 /\ q.head = c.latest
         ELSE /\ q = c.catchUp /\ c.latest < q.next /\ q.next <= q.head /\ q.head <= N
  <2>1. c.latest \in Nat \ {0} /\ c.oldest = 1 /\ start = q.next
    BY DEF StartOf, WellFormed, Cursors, Walkable
  <2>2. CASE c.catchUp = NoCatchUp
    BY <2>1, <2>2 DEF CatchUpOf, CatchUps
  <2>3. CASE c.catchUp # NoCatchUp
    BY <2>1, <2>3 DEF CatchUpOf, WellFormed, Cursors
  <2> QED
    BY <2>1, <2>2, <2>3
<1> HIDE DEF q, start
<1>2. /\ top = (IF c.catchUp = NoCatchUp THEN n ELSE q.next - 1) /\ top \in Nat
      /\ PageSize \in Nat \ {0} /\ lo \in Nat \ {0} /\ top >= c.latest
      /\ lo = (IF top >= PageSize THEN top - PageSize + 1 ELSE 1)
  <2>1. start \in Nat /\ q.next \in Nat /\ q.head \in Nat
    BY <1>1 DEF CatchUps
  <2>2. top = (IF c.catchUp = NoCatchUp THEN n ELSE q.next - 1)
    BY <1>1, <2>1 DEF Top
  <2>3. top >= c.latest
    BY <1>1, <2>1, <2>2 DEF Reaches
  <2>4. top \in Nat /\ PageSize \in Nat \ {0} /\ lo \in Nat \ {0}
    BY <2>1, TopLow
  <2> QED
    BY <2>2, <2>3, <2>4 DEF Low
<1>3. page = lo..top /\ (Cardinality(page) < PageSize <=> top < PageSize)
  <2>1. start \in Nat
    BY <1>1 DEF CatchUps
  <2> QED
    BY <2>1, PageIsInterval
<1> HIDE DEF page, top, lo
<1> DEFINE fresh == {i \in page : i > c.latest}
           over == fresh # page \/ Cardinality(page) < PageSize
           head == Greatest(fresh \cup {q.head})
<1>4. /\ r.fresh = fresh /\ r.over = over
      /\ d = [c EXCEPT !.known = TRUE,
                       !.latest = IF over THEN head ELSE @,
                       !.catchUp = IF over THEN NoCatchUp
                                   ELSE [q EXCEPT !.head = head, !.next = Min(page)]]
  BY <1>1 DEF CatchUpPage, q
<1>5. over <=> lo <= c.latest
  <2>1. lo \in page
    BY <1>1, <1>2, <1>3
  <2>2. ASSUME lo <= c.latest PROVE over
    BY <2>1, <2>2, <1>1, <1>2
  <2>3. ASSUME lo > c.latest PROVE ~over
    <3>1. \A i \in page : i > c.latest
      BY <1>1, <1>2, <1>3, <2>3
    <3>2. ~(top < PageSize)
      BY <1>1, <1>2, <2>3
    <3> QED
      BY <3>1, <3>2, <1>3
  <2> QED
    BY <2>2, <2>3, <1>1, <1>2
<1>6. head = IF c.catchUp = NoCatchUp THEN top ELSE q.head
  <2> DEFINE S == fresh \cup {q.head}
             m == IF c.catchUp = NoCatchUp THEN top ELSE q.head
  <2>0. q.next \in Nat /\ q.head \in Nat
    BY <1>1 DEF CatchUps
  <2>1. S \in SUBSET Int
    BY <1>2, <1>3, <2>0
  <2>2. m \in S
    <3>1. CASE c.catchUp = NoCatchUp /\ top = c.latest
      BY <3>1, <1>1
    <3>2. CASE c.catchUp = NoCatchUp /\ top # c.latest
      BY <3>2, <1>1, <1>2, <1>3
    <3>3. CASE c.catchUp # NoCatchUp
      BY <3>3
    <3> QED
      BY <3>1, <3>2, <3>3
  <2>3. \A y \in S : y <= m
    BY <1>1, <1>2, <1>3, <2>0
  <2>4. Max(S) = m
    <3> HIDE DEF S, m
    <3> QED
      BY <2>1, <2>2, <2>3, MaxIs
  <2> QED
    BY <2>4 DEF Greatest
<1>7. Min(page) = lo
  <2>1. lo \in page /\ (\A y \in page : lo <= y) /\ page \in SUBSET Int
    BY <1>1, <1>2, <1>3
  <2> QED
    BY <2>1, MinIs
<1>8. \A i \in Nat : i \in fresh <=> lo <= i /\ i <= top /\ i > c.latest
  BY <1>2, <1>3
<1>9. \A i \in fresh : i \in Nat
  BY <1>2, <1>3
<1>10. head \in Nat /\ head <= N /\ head >= top
  <2>1. q.next \in Nat /\ q.head \in Nat
    BY <1>1 DEF CatchUps
  <2> HIDE DEF head
  <2> QED
    BY <1>1, <1>2, <1>6, <2>1
<1> DEFINE p == [q EXCEPT !.head = head, !.next = Min(page)]
<1>11. p \in CatchUps /\ p.boundary = c.latest /\ p.head = head /\ p.next = lo
  <2> HIDE DEF head
  <2> QED
    BY <1>1, <1>2, <1>7, <1>10 DEF CatchUps
<1> HIDE DEF p, head, fresh, over
<1>12. /\ d.oldest = 1 /\ d.latest = (IF over THEN head ELSE c.latest)
       /\ d.catchUp = (IF over THEN NoCatchUp ELSE p) /\ d \in Cursors
  <2>1. d = [c EXCEPT !.known = TRUE, !.latest = IF over THEN head ELSE @,
                      !.catchUp = IF over THEN NoCatchUp ELSE p]
    BY <1>4 DEF p
  <2>2. (IF over THEN head ELSE c.latest) \in Nat
        /\ (IF over THEN NoCatchUp ELSE p) \in CatchUps \cup {NoCatchUp}
    BY <1>1, <1>10, <1>11
  <2> HIDE DEF d
  <2> QED
    BY <1>1, <2>1, <2>2 DEF Cursors
<1>13. d.known /\ d.complete
  <2> HIDE DEF r
  <2> QED
    BY <1>4 DEF Cursors
<1>14. p # NoCatchUp
  BY <1>11, NoneAssumption
<1> HIDE DEF d, r
<1>15. \A i \in Nat : Covered(d, i) <=> Covered(c, i) \/ i \in fresh
  <2> TAKE i \in Nat
  <2>0. q.next \in Nat /\ q.head \in Nat
    BY <1>1 DEF CatchUps
  <2>1. Covered(c, i) <=> \/ 1 <= i /\ i <= c.latest
                          \/ c.catchUp # NoCatchUp /\ q.next <= i /\ i <= q.head
    BY <1>1, <2>0 DEF Covered
  <2>2. Covered(d, i) <=> \/ 1 <= i /\ i <= d.latest
                          \/ ~over /\ lo <= i /\ i <= head
    BY <1>1, <1>2, <1>10, <1>11, <1>12, <1>14 DEF Covered
  <2>3. CASE c.catchUp = NoCatchUp
    BY <1>1, <1>2, <1>5, <1>6, <1>8, <1>10, <1>12, <2>1, <2>2, <2>3
  <2>4. CASE c.catchUp # NoCatchUp
    BY <1>1, <1>2, <1>5, <1>6, <1>8, <1>10, <1>12, <2>0, <2>1, <2>2, <2>4
  <2> QED
    BY <2>3, <2>4
<1>16. \A i \in fresh : ~Covered(c, i)
  <2>0. q.next \in Nat /\ q.head \in Nat
    BY <1>1 DEF CatchUps
  <2> QED
    BY <1>1, <1>2, <1>8, <1>9, <2>0 DEF Covered
<1>17. WellFormed(d, N)
  <2>1. CASE over
    BY <1>1, <1>2, <1>10, <1>12, <1>13, <2>1 DEF WellFormed
  <2>2. CASE ~over
    BY <1>1, <1>2, <1>5, <1>10, <1>11, <1>12, <1>13, <2>2 DEF WellFormed
  <2> QED
    BY <2>1, <2>2
<1>18. Walkable(d)
  BY <1>1, <1>2, <1>10, <1>12 DEF Walkable
<1>19. r.fresh = fresh
  BY <1>4
<1> QED
  BY <1>9, <1>12, <1>13, <1>15, <1>16, <1>17, <1>18, <1>19 DEF PageExact, d, r, page, start

\* One page, whichever walk reads it.
LEMMA ReadPageExact ==
  ASSUME NEW c \in Cursors, NEW n \in Nat, NEW N \in Nat, n <= N,
         WellFormed(c, N), Reaches(n, c), Walkable(c)
  PROVE  LET r == ReadPage(c, Page(n, StartOf(c)))
         IN  PageExact(c, r) /\ WellFormed(r.cursors, N)
<1>1. CASE c.complete
  BY <1>1, CatchUpExact DEF ReadPage
<1>2. CASE ~c.complete
  BY <1>2, BackfillExact DEF ReadPage
<1> QED
  BY <1>1, <1>2

-----------------------------------------------------------------------------
(* The inductive invariant.                                                  *)

\* Main leases of ticks in flight differ, and all but the newest have expired.
MainInv ==
  \A w \in Ticks : work[w].pc # "idle" =>
    /\ work[w].main > 0
    /\ main = work[w].main \/ work[w].main <= now
    /\ \A u \in Ticks : u # w /\ work[u].pc # "idle" => work[u].main # work[w].main

\* So do the generations of the index lease.
GenInv ==
  \A w \in Workers : work[w].pc = "staking" =>
    /\ work[w].gen <= ix.gen
    /\ \A u \in Workers : u # w /\ work[u].pc = "staking" => work[u].gen # work[w].gen

\* The walk of call w goes on from the cursors that are saved, and the page it
\* asked for is no older than they are.
Walks(w, a) ==
  work[w].local = cur[a] /\ Walkable(cur[a]) /\ Reaches(work[w].asked, cur[a])

\* The call that holds the lease of an account is the one that walks it.
StakingInv ==
  \A w \in Workers : work[w].pc = "staking" /\ work[w].gen = ix.gen => Walks(w, "staking")

RouteInv ==
  \A w \in Ticks :
    work[w].pc \in {"output", "rewards"} /\ work[w].main = main =>
      Walks(w, work[w].pc) /\ work[w].sweep \in Sweeps

CursorInv == \A a \in Accounts : WellFormed(cur[a], chain[a])

LoadInv == \A a \in Accounts : chain[a] <= load[a]

\* Histories hold transactions the cursors cover.
KeptInv ==
  \A g \in Targets : \A i \in kept[g] : Target[i] = g /\ Covered(cur["staking"], i)

GenesisInv == genesis => cur["staking"].complete

IInv ==
  /\ TypeOK /\ MainInv /\ GenInv /\ StakingInv /\ RouteInv
  /\ CursorInv /\ LoadInv /\ KeptInv /\ GenesisInv /\ TotalsExact

-----------------------------------------------------------------------------
(* The stages of a call.                                                     *)

LEMMA RouteNames ==
  /\ Len(Routes) = 2
  /\ \A k \in 1..Len(Routes) : Routes[k] \in {"output", "rewards"}
  BY DEF Routes

LEMMA NewCursorsTyped == NewCursors \in Cursors /\ WellFormed(NewCursors, 0)
  BY DEF NewCursors, Cursors, WellFormed

LEMMA IdleTyped == Idle \in Works /\ Idle.pc = "idle"
  BY NewCursorsTyped DEF Idle, Works

\* Reopening changes the completeness of an empty account and nothing else.
LEMMA ReopenedIs ==
  ASSUME NEW c \in Cursors, NEW n \in Nat, WellFormed(c, n)
  PROVE  LET l == Reopened(c)
         IN  /\ l \in Cursors /\ l = [c EXCEPT !.complete = l.complete]
             /\ WellFormed(l, n) /\ Walkable(l)
             /\ (l.complete => c.complete) /\ l.latest = c.latest
             /\ \A i : Covered(l, i) <=> Covered(c, i)
             /\ \A m : Reaches(m, l) <=> Reaches(m, c)
<1> DEFINE l == Reopened(c)
<1>1. ~(c.latest # 0 /\ c.oldest = 0)
  BY DEF WellFormed
<1>2. CASE c.complete /\ c.latest = 0
  <2>1. l = [c EXCEPT !.complete = FALSE]
    BY <1>1, <1>2 DEF Reopened
  <2>2. l \in Cursors
    BY <2>1 DEF Cursors
  <2>3. l.complete = FALSE
    BY <2>1 DEF Cursors
  <2>4. /\ l.latest = c.latest /\ l.oldest = c.oldest /\ l.catchUp = c.catchUp
    BY <2>1 DEF Cursors
  <2>5. l.known = c.known
    BY <2>1 DEF Cursors
  <2> HIDE DEF l
  <2>6. l = [c EXCEPT !.complete = l.complete]
    BY <2>1, <2>3
  <2>7. WellFormed(l, n) /\ Walkable(l)
    BY <1>2, <2>3, <2>4, <2>5 DEF WellFormed, Walkable
  <2>8. (\A i : Covered(l, i) <=> Covered(c, i)) /\ \A m : Reaches(m, l) <=> Reaches(m, c)
    BY <2>4 DEF Covered, Reaches
  <2> QED
    BY <2>2, <2>3, <2>4, <2>6, <2>7, <2>8 DEF l
<1>3. CASE ~(c.complete /\ c.latest = 0)
  <2>1. l = c
    BY <1>1, <1>3 DEF Reopened
  <2>2. c = [c EXCEPT !.complete = c.complete]
    BY DEF Cursors
  <2> QED
    BY <1>3, <2>1, <2>2 DEF Walkable
<1> QED
  BY <1>2, <1>3

\* The end of a tick: the other calls go on, and it leaves no new holder.
LEMMA FinishTickEffect ==
  ASSUME TypeOK, MainInv, NEW w \in Ticks, work[w].pc # "idle", FinishTick(w), now' = now
  PROVE  /\ MainInv'
         /\ work'[w] = Idle /\ \A u \in Workers \ {w} : work'[u] = work[u]
         /\ \A u \in Ticks : work'[u].pc # "idle" /\ work'[u].main = main' =>
              u # w /\ work[w].main # main /\ main' = main
         /\ main' \in Nat /\ lastRun' \in Nat /\ work' \in [Workers -> Works]
<1>1. /\ main' = Released(main, work[w].main) /\ work' = [work EXCEPT ![w] = Idle]
      /\ w \in Workers /\ work[w] \in Works
  BY DEF FinishTick, Workers, TypeOK
<1>2. work'[w] = Idle /\ \A u \in Workers \ {w} : work'[u] = work[u]
  BY <1>1 DEF TypeOK
<1>3. main' \in Nat /\ lastRun' \in Nat /\ work' \in [Workers -> Works]
  BY <1>1, IdleTyped DEF FinishTick, TypeOK, Released, Unlocked, Works
<1>4. \A u \in Ticks : work'[u].pc # "idle" => u # w /\ u \in Workers /\ work'[u] = work[u]
                                                /\ work[u].main \in Nat
  BY <1>2, IdleTyped DEF Workers, TypeOK, Works
<1>5. MainInv'
  <2>1. CASE main = work[w].main
    <3>1. main' = 0
      BY <1>1, <2>1 DEF Released, Unlocked
    <3>2. \A u \in Ticks : work'[u].pc # "idle" => work[u].main <= now /\ work[u].main > 0
      BY <1>4, <2>1 DEF MainInv
    <3> QED
      BY <1>4, <3>1, <3>2 DEF MainInv
  <2>2. CASE main # work[w].main
    <3>1. main' = main
      BY <1>1, <2>2 DEF Released
    <3> QED
      BY <1>4, <3>1 DEF MainInv
  <2> QED
    BY <2>1, <2>2
<1>6. \A u \in Ticks : work'[u].pc # "idle" /\ work'[u].main = main' =>
              u # w /\ work[w].main # main /\ main' = main
  <2> SUFFICES ASSUME NEW u \in Ticks, work'[u].pc # "idle", work'[u].main = main'
               PROVE  work[w].main # main /\ main' = main
    BY <1>4
  <2>1. CASE main = work[w].main
    <3>1. main' = 0 /\ work[u].main > 0
      BY <1>1, <1>4, <2>1 DEF Released, Unlocked, MainInv
    <3> QED
      BY <1>4, <3>1
  <2>2. CASE main # work[w].main
    BY <1>1, <2>2 DEF Released
  <2> QED
    BY <2>1, <2>2
<1> QED
  BY <1>2, <1>3, <1>5, <1>6

\* Cursors d stand for the same transactions as cursors c.
SameCover(d, c) ==
  /\ d \in [Accounts -> Cursors]
  /\ \A a \in Accounts : /\ WellFormed(d[a], chain[a])
                         /\ \A i : Covered(d[a], i) <=> Covered(c[a], i)

\* The route stage of the tick that holds the main lease begins.
LEMMA BeginRouteEffect ==
  ASSUME TypeOK, MainInv, NEW w \in Ticks, work[w].pc # "idle", HoldsMain(w),
         NEW c \in [Accounts -> Cursors], \A a \in Accounts : WellFormed(c[a], chain[a]),
         BeginRoute(w, c), now' = now, main' = main
  PROVE  /\ MainInv' /\ RouteInv' /\ SameCover(cur', c) /\ cur'["staking"] = c["staking"]
         /\ work'[w].pc \in {"output", "rewards"}
         /\ \A u \in Workers \ {w} : work'[u] = work[u]
         /\ sweep' \in Sweeps /\ work' \in [Workers -> Works]
<1> DEFINE s == IF sweep # NoSweep THEN sweep ELSE [started |-> work[w].start, next |-> 1]
           a == Routes[s.next]
           l == Reopened(c[a])
           v == [work[w] EXCEPT !.pc = a, !.local = l, !.left = MaxPages,
                                !.asked = chain[a], !.sweep = s]
<1>1. /\ sweep' = s /\ cur' = [c EXCEPT ![a].complete = l.complete]
      /\ work' = [work EXCEPT ![w] = v]
  BY DEF BeginRoute
<1>2. /\ w \in Workers /\ work[w] \in Works /\ MaxPages \in Nat
      /\ \A x \in Accounts : chain[x] \in Nat
  BY IndexAssumption DEF Workers, TypeOK
<1>3. s \in Sweeps
  BY <1>2, RouteNames DEF TypeOK, Sweeps, Works
<1>4. a \in {"output", "rewards"} /\ a \in Accounts
  <2>1. s.next \in 1..Len(Routes)
    BY <1>3 DEF Sweeps
  <2> HIDE DEF s
  <2> QED
    BY <2>1, RouteNames DEF Accounts
<1> HIDE DEF s, a
<1>5. /\ l \in Cursors /\ l = [c[a] EXCEPT !.complete = l.complete]
      /\ WellFormed(l, chain[a]) /\ Walkable(l)
      /\ \A i : Covered(l, i) <=> Covered(c[a], i)
  BY <1>2, <1>4, ReopenedIs
<1> HIDE DEF l
<1>6. cur'[a] = l /\ \A x \in Accounts \ {a} : cur'[x] = c[x]
  BY <1>1, <1>4, <1>5
<1>7. SameCover(cur', c) /\ cur'["staking"] = c["staking"]
  <2>1. cur' \in [Accounts -> Cursors]
    <3>1. cur' = [c EXCEPT ![a] = l]
      BY <1>1, <1>5
    <3> QED
      BY <3>1, <1>5
  <2> QED
    BY <1>4, <1>5, <1>6, <2>1 DEF SameCover, Accounts
<1>8. /\ v \in Works /\ v.pc = a /\ v.local = l /\ v.asked = chain[a]
      /\ v.main = work[w].main /\ v.sweep = s
  BY <1>2, <1>3, <1>4, <1>5 DEF Works
<1> HIDE DEF v
<1>9. work'[w] = v /\ (\A u \in Workers \ {w} : work'[u] = work[u]) /\ work' \in [Workers -> Works]
  BY <1>1, <1>2, <1>8 DEF TypeOK
<1>10. \A u \in Ticks : u \in Workers
  BY DEF Workers
<1>11. \A u \in Ticks \ {w} : work[u].pc # "idle" => work[u].main # main
  BY DEF MainInv, HoldsMain
<1>12. MainInv'
  BY <1>4, <1>8, <1>9, <1>10 DEF MainInv
<1>13. Reaches(chain[a], l)
  BY <1>5 DEF Reaches, WellFormed
<1>14. RouteInv'
  BY <1>3, <1>4, <1>5, <1>6, <1>8, <1>9, <1>10, <1>11, <1>13 DEF RouteInv, Walks
<1> QED
  BY <1>1, <1>3, <1>4, <1>7, <1>8, <1>9, <1>12, <1>14

\* A tick after its commitment stage, with the cursors c that it leaves.
LEMMA AfterCommitmentsEffect ==
  ASSUME TypeOK, MainInv, RouteInv, NEW w \in Ticks, work[w].pc = "staking",
         NEW c \in [Accounts -> Cursors], \A a \in Accounts : WellFormed(c[a], chain[a]),
         \A a \in Accounts \ {"staking"} : c[a] = cur[a],
         AfterCommitments(w, c), now' = now
  PROVE  /\ MainInv' /\ RouteInv' /\ SameCover(cur', c) /\ cur'["staking"] = c["staking"]
         /\ work'[w].pc # "staking"
         /\ \A u \in Workers \ {w} : work'[u] = work[u]
         /\ sweep' \in Sweeps \cup {NoSweep} /\ work' \in [Workers -> Works]
         /\ main' \in Nat /\ lastRun' \in Nat
<1>1. CASE HoldsMain(w) /\ BeginRoute(w, c) /\ UNCHANGED <<main, lastRun>>
  BY <1>1, BeginRouteEffect DEF TypeOK
<1>2. CASE ~HoldsMain(w) /\ FinishTick(w) /\ cur' = c /\ UNCHANGED sweep
  <2>1. /\ MainInv' /\ work'[w] = Idle /\ \A u \in Workers \ {w} : work'[u] = work[u]
        /\ \A u \in Ticks : work'[u].pc # "idle" /\ work'[u].main = main' =>
              u # w /\ work[w].main # main /\ main' = main
        /\ main' \in Nat /\ lastRun' \in Nat /\ work' \in [Workers -> Works]
    BY <1>2, FinishTickEffect
  <2>2. RouteInv'
    <3>1. \A u \in Ticks : u \in Workers
      BY DEF Workers
    <3> QED
      BY <1>2, <2>1, <3>1 DEF RouteInv, Walks, Accounts
  <2>3. SameCover(cur', c)
    BY <1>2 DEF SameCover
  <2> QED
    BY <1>2, <2>1, <2>2, <2>3, IdleTyped DEF TypeOK
<1> QED
  BY <1>1, <1>2 DEF AfterCommitments

\* The end of a commitment stage, with the cursors c that it leaves: they are
\* new only where the call still holds the index lease.
LEMMA EndStakingEffect ==
  ASSUME IInv, NEW w \in Workers, work[w].pc = "staking",
         NEW c \in [Accounts -> Cursors], \A a \in Accounts : WellFormed(c[a], chain[a]),
         \A a \in Accounts \ {"staking"} : c[a] = cur[a],
         c["staking"] = cur["staking"] \/ work[w].gen = ix.gen,
         EndStaking(w, c), now' = now
  PROVE  /\ MainInv' /\ RouteInv' /\ GenInv' /\ StakingInv'
         /\ SameCover(cur', c) /\ cur'["staking"] = c["staking"]
         /\ sweep' \in Sweeps \cup {NoSweep} /\ work' \in [Workers -> Works]
         /\ main' \in Nat /\ lastRun' \in Nat /\ pokeAt' \in Nat
         /\ ix' \in [expires : Nat, gen : Nat, owner : {"none", "tick", "poke"}]
<1>1. TypeOK /\ MainInv /\ RouteInv /\ GenInv /\ StakingInv
  BY DEF IInv
<1>2. /\ ix' \in [expires : Nat, gen : Nat, owner : {"none", "tick", "poke"}]
      /\ ix'.gen = ix.gen
  BY <1>1 DEF EndStaking, ReleasedIndex, TypeOK
<1>3. /\ MainInv' /\ RouteInv' /\ SameCover(cur', c) /\ cur'["staking"] = c["staking"]
      /\ work'[w].pc # "staking"
      /\ \A u \in Workers \ {w} : work'[u] = work[u]
      /\ sweep' \in Sweeps \cup {NoSweep} /\ work' \in [Workers -> Works]
      /\ main' \in Nat /\ lastRun' \in Nat /\ pokeAt' \in Nat
  <2>1. CASE w \in Ticks /\ AfterCommitments(w, c) /\ UNCHANGED pokeAt
    BY <1>1, <2>1, AfterCommitmentsEffect DEF TypeOK
  <2>2. CASE /\ w \in Pokes
             /\ pokeAt' = IF HoldsIndex(w) THEN work[w].start + PokeGap ELSE pokeAt
             /\ work' = [work EXCEPT ![w] = Idle]
             /\ cur' = c /\ UNCHANGED <<sweep, main, lastRun>>
    <3>1. /\ work'[w] = Idle /\ \A u \in Workers \ {w} : work'[u] = work[u]
      BY <1>1, <2>2 DEF TypeOK
    <3>2. work' \in [Workers -> Works]
      BY <1>1, <2>2, IdleTyped DEF TypeOK
    <3>3. \A u \in Ticks : u \in Workers /\ u # w
      BY <2>2, IndexAssumption DEF Workers
    <3>4. MainInv' /\ RouteInv'
      BY <1>1, <2>2, <3>1, <3>3 DEF MainInv, RouteInv, Walks, Accounts
    <3>5. pokeAt' \in Nat
      <4>1. work[w].start \in Nat /\ PokeGap \in Nat /\ pokeAt \in Nat
        BY <1>1, IndexAssumption DEF TypeOK, Works
      <4> QED
        BY <2>2, <4>1
    <3> QED
      BY <1>1, <2>2, <3>1, <3>2, <3>4, <3>5, IdleTyped DEF SameCover, TypeOK
  <2> QED
    BY <2>1, <2>2 DEF EndStaking
<1>4. GenInv'
  BY <1>1, <1>2, <1>3 DEF GenInv
<1>5. StakingInv'
  <2> SUFFICES ASSUME NEW u \in Workers, work'[u].pc = "staking", work'[u].gen = ix'.gen
               PROVE  Walks(u, "staking")'
    BY DEF StakingInv
  <2>1. u # w /\ work'[u] = work[u] /\ work[u].gen = ix.gen
    BY <1>2, <1>3
  <2>2. work[w].gen # ix.gen
    BY <1>1, <2>1 DEF GenInv
  <2> QED
    BY <1>1, <1>3, <2>1, <2>2 DEF StakingInv, Walks
<1> QED
  BY <1>2, <1>3, <1>4, <1>5

-----------------------------------------------------------------------------
(* The totals.                                                               *)

\* Steps that apply no page.
LEMMA NothingApplied ==
  ASSUME IInv, SameCover(cur', cur), UNCHANGED <<counted, kept, chain>>
  PROVE  CursorInv' /\ KeptInv' /\ TotalsExact'
<1>1. KeptInv /\ TotalsExact
  BY DEF IInv
<1>2. CursorInv'
  BY DEF SameCover, CursorInv
<1>3. KeptInv'
  BY <1>1 DEF SameCover, KeptInv, Accounts
<1>4. TotalsExact'
  BY <1>1 DEF SameCover, TotalsExact, Counts, Qualifies
<1> QED
  BY <1>2, <1>3, <1>4

LEMMA IdsAreNatural == Ids \subseteq Nat
  BY IndexAssumption DEF Ids

\* A page of a route account goes into its total.
LEMMA TransfersApplied ==
  ASSUME IInv, NEW a \in {"output", "rewards"}, NEW r, PageExact(cur[a], r),
         WellFormed(r.cursors, chain[a]),
         cur' = [cur EXCEPT ![a] = r.cursors], ApplyTransfers(a, r.fresh), chain' = chain
  PROVE  /\ CursorInv' /\ KeptInv' /\ TotalsExact'
         /\ cur' \in [Accounts -> Cursors] /\ counted' \in [Accounts -> [Ids -> Nat]]
         /\ kept' = kept
<1>1. /\ TypeOK /\ CursorInv /\ KeptInv /\ TotalsExact /\ a \in Accounts /\ a # "staking"
      /\ kept' = kept
  BY DEF IInv, Accounts, ApplyTransfers
<1>2. /\ r.cursors \in Cursors
      /\ \A i \in Nat : Covered(r.cursors, i) <=> Covered(cur[a], i) \/ i \in r.fresh
      /\ \A i \in r.fresh : i \in Nat /\ ~Covered(cur[a], i)
  BY DEF PageExact
<1>3. /\ cur'[a] = r.cursors /\ \A x \in Accounts \ {a} : cur'[x] = cur[x]
      /\ cur' \in [Accounts -> Cursors]
  BY <1>1, <1>2 DEF TypeOK
<1>4. CursorInv'
  BY <1>1, <1>3 DEF CursorInv
<1>5. KeptInv'
  BY <1>1, <1>3 DEF KeptInv, Accounts
<1>6. counted' = [counted EXCEPT ![a] =
                    [i \in Ids |-> IF i \in r.fresh THEN counted[a][i] + 1 ELSE counted[a][i]]]
  BY DEF ApplyTransfers
<1>7. counted' \in [Accounts -> [Ids -> Nat]]
  BY <1>1, <1>6 DEF TypeOK
<1>8. TotalsExact'
  <2> SUFFICES ASSUME NEW x \in Accounts, NEW i \in Ids
               PROVE  counted'[x][i] = IF Counts(x, i) /\ Covered(cur'[x], i) THEN 1 ELSE 0
    BY DEF TotalsExact, Counts, Qualifies
  <2>1. counted[x][i] = (IF Counts(x, i) /\ Covered(cur[x], i) THEN 1 ELSE 0)
    BY <1>1 DEF TotalsExact
  <2>2. CASE x # a
    <3>1. counted'[x] = counted[x]
      BY <1>1, <1>6, <2>2 DEF TypeOK
    <3> QED
      BY <1>3, <2>1, <2>2, <3>1
  <2>3. CASE x = a
    <3>1. counted'[x][i] = IF i \in r.fresh THEN counted[a][i] + 1 ELSE counted[a][i]
      BY <1>1, <1>6, <2>3 DEF TypeOK
    <3>2. Counts(a, i) /\ i \in Nat
      BY <1>1, IdsAreNatural DEF Counts
    <3> QED
      BY <1>2, <1>3, <2>1, <2>3, <3>1, <3>2
  <2> QED
    BY <2>2, <2>3
<1> QED
  BY <1>1, <1>3, <1>4, <1>5, <1>7, <1>8

\* A page of the staking account goes into histories and rollups.
LEMMA CommitmentsApplied ==
  ASSUME IInv, NEW r, PageExact(cur["staking"], r),
         SameCover(cur', [cur EXCEPT !["staking"] = r.cursors]),
         ApplyCommitments(r.fresh), chain' = chain
  PROVE  /\ CursorInv' /\ KeptInv' /\ TotalsExact'
         /\ counted' \in [Accounts -> [Ids -> Nat]] /\ kept' \in [Targets -> SUBSET Nat]
<1> DEFINE S == "staking"
<1>1. /\ TypeOK /\ KeptInv /\ TotalsExact /\ S \in Accounts
  BY DEF IInv, Accounts
<1>2. /\ r.cursors \in Cursors
      /\ \A i \in Nat : Covered(r.cursors, i) <=> Covered(cur[S], i) \/ i \in r.fresh
      /\ \A i \in r.fresh : i \in Nat /\ ~Covered(cur[S], i)
  BY DEF PageExact
<1>3. /\ \A i : Covered(cur'[S], i) <=> Covered(r.cursors, i)
      /\ \A x \in Accounts \ {S} : \A i : Covered(cur'[x], i) <=> Covered(cur[x], i)
  BY <1>1 DEF SameCover, TypeOK
<1>4. CursorInv'
  BY DEF SameCover, CursorInv
<1>5. kept' = [g \in Targets |-> Newest(kept[g] \cup {i \in r.fresh : Target[i] = g})]
  BY DEF ApplyCommitments
<1>6. counted' = [counted EXCEPT ![S] =
                    [i \in Ids |-> IF i \in Inserted(r.fresh) THEN counted[S][i] + 1
                                   ELSE counted[S][i]]]
  BY DEF ApplyCommitments
<1>7. counted' \in [Accounts -> [Ids -> Nat]]
  BY <1>1, <1>6 DEF TypeOK
<1>8. KeptInv'
  <2> SUFFICES ASSUME NEW g \in Targets, NEW i \in kept'[g]
               PROVE  Target[i] = g /\ Covered(cur'[S], i)
    BY DEF KeptInv
  <2>1. i \in kept[g] \/ (i \in r.fresh /\ Target[i] = g)
    BY <1>5 DEF Newest
  <2>2. CASE i \in kept[g]
    BY <1>1, <1>2, <1>3, <2>2, IdsAreNatural DEF KeptInv, TypeOK
  <2>3. CASE i \in r.fresh /\ Target[i] = g
    BY <1>2, <1>3, <2>3
  <2> QED
    BY <2>1, <2>2, <2>3
<1>9. TotalsExact'
  <2> SUFFICES ASSUME NEW x \in Accounts, NEW i \in Ids
               PROVE  counted'[x][i] = IF Counts(x, i) /\ Covered(cur'[x], i) THEN 1 ELSE 0
    BY DEF TotalsExact, Counts, Qualifies
  <2>1. counted[x][i] = (IF Counts(x, i) /\ Covered(cur[x], i) THEN 1 ELSE 0) /\ i \in Nat
    BY <1>1, IdsAreNatural DEF TotalsExact
  <2>2. CASE x # S
    <3>1. counted'[x] = counted[x]
      BY <1>1, <1>6, <2>2 DEF TypeOK
    <3> QED
      BY <1>3, <2>1, <2>2, <3>1
  <2>3. CASE x = S
    <3>1. counted'[x][i] = IF i \in Inserted(r.fresh) THEN counted[S][i] + 1 ELSE counted[S][i]
      BY <1>1, <1>6, <2>3 DEF TypeOK
    <3>2. i \in Inserted(r.fresh) <=> i \in r.fresh /\ Counts(S, i)
      <4>1. ASSUME i \in r.fresh, Qualifies(i) PROVE i \notin kept[Target[i]]
        <5>1. Target[i] \in Targets
          BY <4>1, NoneAssumption DEF Qualifies
        <5> QED
          BY <1>1, <1>2, <4>1, <5>1 DEF KeptInv
      <4> QED
        BY <4>1 DEF Inserted, Counts
    <3> QED
      BY <1>2, <1>3, <2>1, <2>3, <3>1, <3>2
  <2> QED
    BY <2>2, <2>3
<1>10. kept' \in [Targets -> SUBSET Nat]
  BY <1>1, <1>2, <1>5 DEF Newest, TypeOK
<1> QED
  BY <1>4, <1>7, <1>8, <1>9, <1>10

-----------------------------------------------------------------------------
(* Every step keeps the invariant.                                           *)

\* A tick takes the main lease.
LEMMA MainTickKeeps ==
  ASSUME IInv, NEW w \in Ticks, NEW force, MainTick(w, force), boot' \in BOOLEAN
  PROVE  IInv'
<1> DEFINE v == [Idle EXCEPT !.pc = "rate", !.start = now, !.main = now + MainLease]
<1>1. /\ TypeOK /\ MainInv /\ GenInv /\ StakingInv /\ RouteInv /\ CursorInv /\ LoadInv
      /\ KeptInv /\ GenesisInv /\ TotalsExact /\ now \in Nat /\ MainLease \in Nat \ {0}
  BY IndexAssumption DEF IInv, TypeOK
<1>2. /\ work[w].pc = "idle" /\ main <= now /\ main' = now + MainLease
      /\ work' = [work EXCEPT ![w] = v] /\ boot' \in BOOLEAN
      /\ UNCHANGED <<world, totals, sweep, lastRun, ix, pokeAt>>
  BY DEF MainTick, CanAcquire, LeaseExpiry
<1>3. /\ v \in Works /\ v.pc = "rate" /\ v.main = now + MainLease
  <2>1. Idle \in Works /\ now \in Nat /\ now + MainLease \in Nat
    BY <1>1, IdleTyped
  <2> QED
    BY <2>1 DEF Works
<1> HIDE DEF v
<1>4. /\ work'[w] = v /\ \A u \in Workers \ {w} : work'[u] = work[u]
      /\ work' \in [Workers -> Works] /\ \A u \in Ticks : u \in Workers
      /\ \A u \in Workers : work[u].main \in Nat
  BY <1>1, <1>2, <1>3 DEF TypeOK, Workers, Works
<1>5. TypeOK'
  BY <1>1, <1>2, <1>4 DEF TypeOK, world, totals
<1>6. \A u \in Ticks \ {w} : work[u].pc # "idle" => work[u].main <= now
  BY <1>1, <1>2 DEF MainInv
<1>7. MainInv'
  BY <1>1, <1>2, <1>3, <1>4, <1>6 DEF MainInv, world
<1>8. GenInv' /\ StakingInv'
  BY <1>1, <1>2, <1>3, <1>4 DEF GenInv, StakingInv, Walks, totals
<1>9. RouteInv'
  BY <1>1, <1>2, <1>3, <1>4, <1>6 DEF RouteInv, Walks, totals
<1>10. CursorInv' /\ LoadInv' /\ KeptInv' /\ GenesisInv' /\ TotalsExact'
  BY <1>1, <1>2 DEF CursorInv, LoadInv, KeptInv, GenesisInv, TotalsExact, Counts, Qualifies,
                    totals, world
<1> QED
  BY <1>5, <1>7, <1>8, <1>9, <1>10 DEF IInv

\* A tick that comes too early takes the lease from a tick whose time is up and
\* gives it back.
LEMMA TickTooEarlyKeeps ==
  ASSUME IInv, TickTooEarly, boot' = boot
  PROVE  IInv'
<1>1. /\ TypeOK /\ MainInv /\ GenInv /\ StakingInv /\ RouteInv /\ CursorInv /\ LoadInv
      /\ KeptInv /\ GenesisInv /\ TotalsExact /\ now \in Nat /\ main \in Nat
  BY DEF IInv, TypeOK
<1>2. /\ main <= now /\ main' = 0 /\ lastRun' = now
      /\ UNCHANGED <<world, totals, sweep, ix, pokeAt, work, boot>>
  BY DEF TickTooEarly, CanAcquire, Unlocked
<1>3. TypeOK'
  BY <1>1, <1>2 DEF TypeOK, world, totals
<1>4. \A u \in Ticks : work[u].pc # "idle" => work[u].main <= now /\ work[u].main > 0
  BY <1>1, <1>2 DEF MainInv
<1>5. MainInv'
  BY <1>1, <1>2, <1>4 DEF MainInv, world
<1>6. GenInv' /\ StakingInv'
  BY <1>1, <1>2 DEF GenInv, StakingInv, Walks, totals
<1>7. RouteInv'
  BY <1>1, <1>2, <1>4 DEF RouteInv, Walks, totals
<1>8. CursorInv' /\ LoadInv' /\ KeptInv' /\ GenesisInv' /\ TotalsExact'
  BY <1>1, <1>2 DEF CursorInv, LoadInv, KeptInv, GenesisInv, TotalsExact, Counts, Qualifies,
                    totals, world
<1> QED
  BY <1>3, <1>5, <1>6, <1>7, <1>8 DEF IInv

LEMMA TimerKeeps ==
  ASSUME IInv, NEW w \in Ticks, Timer(w)
  PROVE  IInv'
<1>1. boot' \in BOOLEAN
  BY DEF Timer, IInv, TypeOK
<1>2. CASE MainTick(w, FALSE) \/ MainTick(w, TRUE)
  BY <1>1, <1>2, MainTickKeeps
<1>3. CASE TickTooEarly /\ boot' = boot
  BY <1>3, TickTooEarlyKeeps
<1> QED
  BY <1>2, <1>3 DEF Timer

LEMMA ReceiveKeeps ==
  ASSUME IInv, NEW a \in Accounts, Receive(a)
  PROVE  IInv'
<1>1. /\ TypeOK /\ MainInv /\ GenInv /\ StakingInv /\ RouteInv /\ CursorInv /\ LoadInv
      /\ KeptInv /\ GenesisInv /\ TotalsExact /\ load[a] \in Nat
  BY IndexAssumption DEF IInv, TypeOK
<1>2. /\ chain[a] < load[a] /\ chain' = [chain EXCEPT ![a] = @ + 1]
      /\ UNCHANGED <<now, load, upgrades, totals, sweep, locks, work>>
  BY DEF Receive
<1>3. /\ chain' \in [Accounts -> Nat] /\ chain'[a] = chain[a] + 1
      /\ \A x \in Accounts \ {a} : chain'[x] = chain[x]
  BY <1>1, <1>2 DEF TypeOK
<1>4. TypeOK'
  BY <1>1, <1>2, <1>3 DEF TypeOK, totals, locks
<1>5. CursorInv'
  <2> SUFFICES ASSUME NEW x \in Accounts PROVE WellFormed(cur[x], chain'[x])
    BY <1>2 DEF CursorInv, totals
  <2>1. cur[x] \in Cursors /\ WellFormed(cur[x], chain[x]) /\ chain[x] \in Nat
        /\ chain'[x] \in Nat /\ chain[x] <= chain'[x]
    BY <1>1, <1>3 DEF CursorInv, TypeOK
  <2>2. /\ cur[x].latest \in Nat
        /\ cur[x].catchUp # NoCatchUp => cur[x].catchUp.head \in Nat
    BY <2>1 DEF Cursors, CatchUps
  <2> QED
    BY <2>1, <2>2 DEF WellFormed
<1>6. LoadInv'
  BY <1>1, <1>2, <1>3 DEF LoadInv, TypeOK
<1>7. MainInv' /\ GenInv' /\ StakingInv' /\ RouteInv'
  BY <1>1, <1>2 DEF MainInv, GenInv, StakingInv, RouteInv, Walks, totals, locks
<1>8. KeptInv' /\ GenesisInv' /\ TotalsExact'
  BY <1>1, <1>2 DEF KeptInv, GenesisInv, TotalsExact, Counts, Qualifies, totals
<1> QED
  BY <1>4, <1>5, <1>6, <1>7, <1>8 DEF IInv

LEMMA AdvanceKeeps ==
  ASSUME IInv, Advance
  PROVE  IInv'
<1>1. /\ TypeOK /\ MainInv /\ GenInv /\ StakingInv /\ RouteInv /\ CursorInv /\ LoadInv
      /\ KeptInv /\ GenesisInv /\ TotalsExact /\ now \in Nat
  BY DEF IInv, TypeOK
<1>2. /\ now' = now + 1
      /\ UNCHANGED <<load, chain, upgrades, totals, sweep, locks, work>>
  BY DEF Advance
<1>3. TypeOK'
  BY <1>1, <1>2 DEF TypeOK, totals, locks
<1>4. MainInv'
  <2>1. \A u \in Ticks : work[u].main \in Nat
    BY <1>1 DEF TypeOK, Works, Workers
  <2> QED
    BY <1>1, <1>2, <2>1 DEF MainInv, locks
<1>5. GenInv' /\ StakingInv' /\ RouteInv' /\ CursorInv' /\ LoadInv'
  BY <1>1, <1>2 DEF GenInv, StakingInv, RouteInv, CursorInv, LoadInv, Walks, totals, locks
<1>6. KeptInv' /\ GenesisInv' /\ TotalsExact'
  BY <1>1, <1>2 DEF KeptInv, GenesisInv, TotalsExact, Counts, Qualifies, totals
<1> QED
  BY <1>3, <1>4, <1>5, <1>6 DEF IInv

LEMMA UpgradeKeeps ==
  ASSUME IInv, Upgrade
  PROVE  IInv'
<1>1. /\ TypeOK /\ CursorInv /\ LoadInv
      /\ KeptInv /\ GenesisInv /\ TotalsExact
  BY DEF IInv
<1>2. /\ work' = [w \in Workers |-> Idle] /\ main' = 0 /\ boot' = TRUE
      /\ ix' = [expires |-> 0, gen |-> ix.gen + 1, owner |-> "none"]
      /\ upgrades' = upgrades + 1
      /\ UNCHANGED <<now, load, chain, totals, sweep, lastRun, pokeAt>>
  BY DEF Upgrade, Unlocked
<1>3. TypeOK'
  <2>1. ix' \in [expires : Nat, gen : Nat, owner : {"none", "tick", "poke"}]
    BY <1>1, <1>2 DEF TypeOK
  <2> QED
    BY <1>1, <1>2, <2>1, IdleTyped DEF TypeOK, totals
<1>4. \A w \in Workers : work'[w].pc = "idle"
  BY <1>2, IdleTyped
<1>5. MainInv' /\ GenInv' /\ StakingInv' /\ RouteInv'
  BY <1>4 DEF MainInv, GenInv, StakingInv, RouteInv, Workers
<1>6. CursorInv' /\ LoadInv' /\ KeptInv' /\ GenesisInv' /\ TotalsExact'
  BY <1>1, <1>2 DEF CursorInv, LoadInv, KeptInv, GenesisInv, TotalsExact, Counts, Qualifies,
                    totals
<1> QED
  BY <1>3, <1>5, <1>6 DEF IInv

\* A commitment stage begins under a new generation of the index lease.
LEMMA BeginStakingEffect ==
  ASSUME IInv, NEW w \in Workers, NEW r \in Works, NEW owner \in {"tick", "poke"},
         r.main = work[w].main \/ w \in Pokes, w \in Ticks => work[w].pc = "rate",
         BeginStaking(w, r, owner), UNCHANGED <<now, chain, main, counted, kept>>
  PROVE  /\ MainInv' /\ GenInv' /\ StakingInv' /\ RouteInv' /\ CursorInv' /\ KeptInv'
         /\ GenesisInv' /\ TotalsExact'
         /\ cur' \in [Accounts -> Cursors] /\ genesis' \in BOOLEAN
         /\ ix' \in [expires : Nat, gen : Nat, owner : {"none", "tick", "poke"}]
         /\ work' \in [Workers -> Works]
<1> DEFINE S == "staking"
           l == Reopened(cur[S])
           e == now + IndexLease
           v == [r EXCEPT !.pc = "staking", !.expires = e, !.gen = ix.gen + 1, !.local = l,
                          !.left = IF owner = "poke" THEN PokePages ELSE MaxPages,
                          !.asked = chain[S]]
<1>1. /\ TypeOK /\ MainInv /\ GenInv /\ StakingInv /\ RouteInv /\ CursorInv
      /\ GenesisInv /\ S \in Accounts
  BY DEF IInv, Accounts
<1>2. /\ cur[S] \in Cursors /\ WellFormed(cur[S], chain[S]) /\ chain[S] \in Nat
      /\ now \in Nat /\ e \in Nat /\ ix.gen \in Nat /\ ix.gen + 1 \in Nat
      /\ (IF owner = "poke" THEN PokePages ELSE MaxPages) \in Nat
  BY <1>1, IndexAssumption DEF TypeOK, CursorInv
<1>3. /\ l \in Cursors /\ l = [cur[S] EXCEPT !.complete = l.complete]
      /\ WellFormed(l, chain[S]) /\ Walkable(l) /\ (l.complete => cur[S].complete)
      /\ \A i : Covered(l, i) <=> Covered(cur[S], i)
  BY <1>2, ReopenedIs
<1> HIDE DEF l, e
<1>4. /\ cur' = [cur EXCEPT ![S].complete = l.complete]
      /\ genesis' = (genesis /\ (cur[S].complete = l.complete))
      /\ ix' = [expires |-> e, gen |-> ix.gen + 1, owner |-> owner]
      /\ work' = [work EXCEPT ![w] = v]
  BY DEF BeginStaking, LeaseExpiry, l, e
<1>5. cur'[S] = l /\ (\A x \in Accounts \ {S} : cur'[x] = cur[x]) /\ cur' \in [Accounts -> Cursors]
  <2>1. cur' = [cur EXCEPT ![S] = l]
    BY <1>3, <1>4
  <2> QED
    BY <1>1, <1>3, <2>1 DEF TypeOK
<1>6. CursorInv' /\ KeptInv' /\ TotalsExact'
  <2>1. SameCover(cur', cur)
    BY <1>1, <1>3, <1>5 DEF SameCover, CursorInv
  <2> QED
    BY <2>1, NothingApplied
<1>7. genesis' \in BOOLEAN /\ GenesisInv'
  <2>1. genesis' \in BOOLEAN
    BY <1>4
  <2>2. genesis' => genesis /\ (cur[S].complete = l.complete)
    BY <1>4
  <2>3. GenesisInv'
    BY <1>1, <1>5, <2>2 DEF GenesisInv
  <2> QED
    BY <2>1, <2>3
<1>8. /\ v \in Works /\ v.pc = "staking" /\ v.gen = ix.gen + 1 /\ v.local = l
      /\ v.asked = chain[S] /\ v.main = r.main
  BY <1>2, <1>3 DEF Works
<1> HIDE DEF v
<1>9. /\ work'[w] = v /\ \A u \in Workers \ {w} : work'[u] = work[u]
      /\ work' \in [Workers -> Works]
  BY <1>1, <1>4, <1>8 DEF TypeOK
<1>10. ix' \in [expires : Nat, gen : Nat, owner : {"none", "tick", "poke"}] /\ ix'.gen = ix.gen + 1
  BY <1>2, <1>4
<1>11. \A u \in Workers \ {w} : work'[u].pc = "staking" =>
          work'[u].gen \in Nat /\ work'[u].gen <= ix.gen
  BY <1>1, <1>9 DEF GenInv, TypeOK, Works
<1>12. GenInv'
  BY <1>1, <1>2, <1>8, <1>9, <1>10, <1>11 DEF GenInv
<1>13. Reaches(chain[S], l)
  BY <1>3 DEF Reaches, WellFormed
<1>14. StakingInv'
  <2>1. \A u \in Workers \ {w} : work'[u].pc = "staking" => work'[u].gen # ix'.gen
    BY <1>2, <1>10, <1>11
  <2> QED
    BY <1>3, <1>5, <1>8, <1>9, <1>13, <2>1 DEF StakingInv, Walks
<1>15. \A u \in Ticks : u \in Workers /\ (u = w => v.main = work[w].main /\ work[w].pc = "rate")
  BY <1>8, IndexAssumption DEF Workers
<1>16. MainInv'
  BY <1>1, <1>8, <1>9, <1>15 DEF MainInv
<1>17. RouteInv'
  BY <1>1, <1>5, <1>8, <1>9, <1>15 DEF RouteInv, Walks, Accounts
<1> QED
  BY <1>5, <1>6, <1>7, <1>9, <1>10, <1>12, <1>14, <1>16, <1>17

LEMMA PokeKeeps ==
  ASSUME IInv, NEW w \in Pokes, Poke(w)
  PROVE  IInv'
<1> DEFINE r == [Idle EXCEPT !.start = now]
<1>1. /\ BeginStaking(w, r, "poke")
      /\ UNCHANGED <<world, counted, kept, sweep, main, lastRun, pokeAt, boot>>
  BY DEF Poke
<1>2. r \in Works /\ w \in Workers /\ w \notin Ticks
  BY IdleTyped, IndexAssumption DEF Works, Workers, IInv, TypeOK
<1> HIDE DEF r
<1>3. UNCHANGED <<now, chain, main, counted, kept>>
  BY <1>1 DEF world
<1>4. /\ MainInv' /\ GenInv' /\ StakingInv' /\ RouteInv' /\ CursorInv' /\ KeptInv'
      /\ GenesisInv' /\ TotalsExact'
      /\ cur' \in [Accounts -> Cursors] /\ genesis' \in BOOLEAN
      /\ ix' \in [expires : Nat, gen : Nat, owner : {"none", "tick", "poke"}]
      /\ work' \in [Workers -> Works]
  BY <1>1, <1>2, <1>3, BeginStakingEffect
<1>5. TypeOK' /\ LoadInv'
  BY <1>1, <1>4 DEF IInv, TypeOK, LoadInv, world
<1> QED
  BY <1>4, <1>5 DEF IInv

\* A tick ends, and with it whatever it had in hand.
LEMMA FinishTickKeeps ==
  ASSUME IInv, NEW w \in Ticks, work[w].pc # "idle", FinishTick(w),
         UNCHANGED <<world, totals, ix, pokeAt, boot>>, sweep' \in Sweeps \cup {NoSweep}
  PROVE  IInv'
<1>1. /\ TypeOK /\ MainInv /\ GenInv /\ StakingInv /\ RouteInv /\ CursorInv /\ LoadInv
      /\ KeptInv /\ GenesisInv /\ TotalsExact /\ now' = now
  BY DEF IInv, world
<1>2. /\ MainInv' /\ work'[w] = Idle /\ \A u \in Workers \ {w} : work'[u] = work[u]
      /\ \A u \in Ticks : work'[u].pc # "idle" /\ work'[u].main = main' =>
            u # w /\ work[w].main # main /\ main' = main
      /\ main' \in Nat /\ lastRun' \in Nat /\ work' \in [Workers -> Works]
  BY <1>1, FinishTickEffect
<1>3. TypeOK'
  BY <1>1, <1>2 DEF TypeOK, world, totals
<1>4. GenInv' /\ StakingInv'
  BY <1>1, <1>2, IdleTyped DEF GenInv, StakingInv, Walks, totals
<1>5. RouteInv'
  <2>1. \A u \in Ticks : u \in Workers
    BY DEF Workers
  <2> QED
    BY <1>1, <1>2, <2>1 DEF RouteInv, Walks, totals
<1>6. CursorInv' /\ LoadInv' /\ KeptInv' /\ GenesisInv' /\ TotalsExact'
  BY <1>1 DEF CursorInv, LoadInv, KeptInv, GenesisInv, TotalsExact, Counts, Qualifies,
              totals, world
<1> QED
  BY <1>2, <1>3, <1>4, <1>5, <1>6 DEF IInv

LEMMA RateReplyKeeps ==
  ASSUME IInv, NEW w \in Ticks, RateReply(w)
  PROVE  IInv'
<1>1. /\ TypeOK /\ MainInv /\ GenInv /\ StakingInv /\ CursorInv /\ LoadInv /\ GenesisInv
      /\ work[w].pc = "rate" /\ w \in Workers /\ work[w] \in Works
      /\ UNCHANGED <<world, pokeAt, boot>>
  BY DEF IInv, RateReply, Workers, TypeOK
<1>2. CASE /\ BeginStaking(w, work[w], "tick")
           /\ UNCHANGED <<counted, kept, sweep, main, lastRun>>
  <2>1. UNCHANGED <<now, chain, main, counted, kept>>
    BY <1>1, <1>2 DEF world
  <2>2. /\ MainInv' /\ GenInv' /\ StakingInv' /\ RouteInv' /\ CursorInv' /\ KeptInv'
        /\ GenesisInv' /\ TotalsExact'
        /\ cur' \in [Accounts -> Cursors] /\ genesis' \in BOOLEAN
        /\ ix' \in [expires : Nat, gen : Nat, owner : {"none", "tick", "poke"}]
        /\ work' \in [Workers -> Works]
    BY <1>1, <1>2, <2>1, BeginStakingEffect
  <2>3. TypeOK' /\ LoadInv'
    BY <1>1, <1>2, <2>2 DEF TypeOK, LoadInv, world
  <2> QED
    BY <2>2, <2>3 DEF IInv
<1>3. CASE /\ HoldsMain(w) /\ BeginRoute(w, cur)
           /\ UNCHANGED <<counted, kept, genesis, main, lastRun, ix>>
  <2>1. now' = now /\ main' = main /\ cur \in [Accounts -> Cursors]
        /\ \A a \in Accounts : WellFormed(cur[a], chain[a])
    BY <1>1, <1>3 DEF world, TypeOK, CursorInv
  <2>2. /\ MainInv' /\ RouteInv' /\ SameCover(cur', cur) /\ cur'["staking"] = cur["staking"]
        /\ work'[w].pc \in {"output", "rewards"}
        /\ \A u \in Workers \ {w} : work'[u] = work[u]
        /\ sweep' \in Sweeps /\ work' \in [Workers -> Works]
    BY <1>1, <1>3, <2>1, BeginRouteEffect
  <2>3. TypeOK' /\ LoadInv'
    BY <1>1, <1>3, <2>2 DEF TypeOK, LoadInv, world, SameCover
  <2>4. CursorInv' /\ KeptInv' /\ TotalsExact'
    BY <1>1, <1>3, <2>2, NothingApplied DEF world
  <2>5. GenInv' /\ StakingInv'
    BY <1>1, <1>3, <2>2 DEF GenInv, StakingInv, Walks
  <2>6. GenesisInv'
    BY <1>1, <1>3, <2>2 DEF GenesisInv
  <2> QED
    BY <2>2, <2>3, <2>4, <2>5, <2>6 DEF IInv
<1>4. CASE FinishTick(w) /\ UNCHANGED <<totals, sweep, ix>>
  <2>1. sweep' \in Sweeps \cup {NoSweep}
    BY <1>1, <1>4 DEF TypeOK
  <2> QED
    BY <1>1, <1>4, <2>1, FinishTickKeeps
<1> QED
  BY <1>2, <1>3, <1>4 DEF RateReply, CommitmentStage

\* What the record of a call becomes between two pages.
RouteOn(z, k, m, p) == [z EXCEPT !.local = k, !.left = m, !.asked = p]
StakingOn(z, k, m, p, x) ==
  [z EXCEPT !.expires = x, !.local = k, !.left = m, !.asked = p]

LEMMA RouteReplyKeeps ==
  ASSUME IInv, NEW w \in Ticks, RouteReply(w)
  PROVE  IInv'
<1> DEFINE a == work[w].pc
<1>1. /\ TypeOK /\ MainInv /\ GenInv /\ StakingInv /\ RouteInv /\ CursorInv /\ LoadInv
      /\ GenesisInv /\ w \in Workers /\ work[w] \in Works /\ UNCHANGED world
  BY DEF IInv, RouteReply, Workers, TypeOK
<1>2. a \in {"output", "rewards"} /\ a \in Accounts /\ a # "staking" /\ a # "idle"
  BY RouteNames DEF RouteReply, Accounts
<1>3. CASE FinishTick(w) /\ UNCHANGED <<totals, sweep, ix, pokeAt, boot>>
  <2>1. sweep' \in Sweeps \cup {NoSweep}
    BY <1>1, <1>3 DEF TypeOK
  <2> QED
    BY <1>1, <1>2, <1>3, <2>1, FinishTickKeeps
<1>4. ASSUME RouteWorkIsCurrent(w), NEW n \in work[w].asked .. chain[a], RoutePage(w, a, n)
      PROVE  IInv'
  <2> DEFINE r == ReadPage(work[w].local, Page(n, StartOf(work[w].local)))
  <2>1. /\ work[w].main = main /\ work[w].local = cur[a] /\ Walkable(cur[a])
        /\ Reaches(work[w].asked, cur[a]) /\ sweep = work[w].sweep /\ work[w].sweep \in Sweeps
    BY <1>1, <1>2, <1>4 DEF RouteWorkIsCurrent, HoldsMain, RouteInv, Walks
  <2>2. /\ cur[a] \in Cursors /\ WellFormed(cur[a], chain[a]) /\ chain[a] \in Nat
        /\ work[w].asked \in Nat /\ n \in Nat /\ n <= chain[a] /\ work[w].asked <= n
    <3>1. cur[a] \in Cursors /\ WellFormed(cur[a], chain[a]) /\ chain[a] \in Nat
          /\ work[w].asked \in Nat
      BY <1>1, <1>2 DEF TypeOK, CursorInv, Works
    <3> HIDE DEF a
    <3> QED
      BY <1>4, <3>1
  <2>3. Reaches(n, cur[a])
    <3>1. /\ cur[a].latest \in Nat
          /\ cur[a].catchUp # NoCatchUp => cur[a].catchUp.head \in Nat
      BY <2>2 DEF Cursors, CatchUps
    <3> QED
      BY <2>1, <2>2, <3>1 DEF Reaches
  <2>4. PageExact(cur[a], r) /\ WellFormed(r.cursors, chain[a])
    <3> HIDE DEF a
    <3> QED
      BY <2>1, <2>2, <2>3, ReadPageExact
  <2>5. /\ cur' = [cur EXCEPT ![a] = r.cursors] /\ ApplyTransfers(a, r.fresh)
        /\ UNCHANGED <<genesis, ix, pokeAt, boot>>
        /\ \/ /\ ~r.over
              /\ work' = [work EXCEPT ![w] = [@ EXCEPT !.local = r.cursors, !.left = work[w].left - 1,
                                                 !.asked = chain[a]]]
              /\ UNCHANGED <<sweep, main, lastRun>> /\ work[w].left > 1
           \/ FinishTick(w) /\ sweep' = sweep
           \/ FinishTick(w) /\ sweep' = NextRoute
    BY <1>4 DEF RoutePage
  <2> HIDE DEF r
  <2>6. /\ CursorInv' /\ KeptInv' /\ TotalsExact'
        /\ cur' \in [Accounts -> Cursors] /\ counted' \in [Accounts -> [Ids -> Nat]]
        /\ kept' = kept
    <3>1. chain' = chain
      BY <1>1 DEF world
    <3> HIDE DEF a
    <3> QED
      BY <1>2, <2>4, <2>5, <3>1, TransfersApplied
  <2>7. cur'[a] = r.cursors /\ (\A x \in Accounts \ {a} : cur'[x] = cur[x])
        /\ cur'["staking"] = cur["staking"]
    BY <1>1, <1>2, <2>5 DEF TypeOK, Accounts
  <2>8. LoadInv' /\ GenesisInv'
    BY <1>1, <2>5, <2>7 DEF LoadInv, GenesisInv, world
  <2>9. \A u \in Ticks : u \in Workers
    BY DEF Workers
  <2>10. \A u \in Ticks \ {w} : work[u].pc # "idle" => work[u].main # main
    BY <1>1, <1>2, <2>1 DEF MainInv
  <2>11. CASE /\ ~r.over
              /\ work' = [work EXCEPT ![w] = [@ EXCEPT !.local = r.cursors, !.left = work[w].left - 1,
                                                 !.asked = chain[a]]]
              /\ UNCHANGED <<sweep, main, lastRun>> /\ work[w].left > 1
    <3> DEFINE v == RouteOn(work[w], r.cursors, work[w].left - 1, chain[a])
    <3>1. r.cursors \in Cursors /\ Walkable(r.cursors) /\ Reaches(chain[a], r.cursors)
      BY <2>4, <2>11 DEF PageExact, Reaches, WellFormed
    <3>2. /\ v \in Works /\ v.pc = a /\ v.main = work[w].main /\ v.local = r.cursors
          /\ v.asked = chain[a] /\ v.gen = work[w].gen /\ v.sweep = work[w].sweep
      <4>1. /\ work[w].left - 1 \in Nat /\ chain[a] \in Nat /\ work[w] \in Works
            /\ r.cursors \in Cursors
        <5>1. work[w].left \in Nat
          BY <1>1 DEF Works
        <5> QED
          BY <1>1, <2>2, <2>11, <3>1, <5>1
      <4> DEFINE m == work[w].left - 1
                 k == r.cursors
                 p == chain[a]
                 z == work[w]
      <4>2. z \in Works /\ k \in Cursors /\ m \in Nat /\ p \in Nat
        BY <4>1
      <4>3. z.pc = a
        OBVIOUS
      <4> HIDE DEF m, k, p, z, v, a
      <4>4. LET u == RouteOn(z, k, m, p)
            IN  /\ u \in Works /\ u.pc = z.pc /\ u.main = z.main /\ u.local = k
                /\ u.asked = p /\ u.gen = z.gen /\ u.sweep = z.sweep
        BY <4>2 DEF RouteOn, Works
      <4> QED
        BY <4>3, <4>4 DEF m, k, p, z, v
    <3>3. work' = [work EXCEPT ![w] = v]
      BY <2>11 DEF RouteOn
    <3> HIDE DEF v
    <3>4. /\ work'[w] = v /\ \A u \in Workers \ {w} : work'[u] = work[u]
          /\ work' \in [Workers -> Works]
      BY <1>1, <3>2, <3>3 DEF TypeOK
    <3>5. TypeOK'
      BY <1>1, <2>5, <2>6, <2>11, <3>4 DEF TypeOK, world
    <3>6. MainInv'
      BY <1>1, <1>2, <2>9, <2>11, <3>2, <3>4 DEF MainInv, world
    <3>7. GenInv' /\ StakingInv'
      BY <1>1, <1>2, <2>5, <2>7, <3>2, <3>4 DEF GenInv, StakingInv, Walks
    <3>8. RouteInv'
      BY <1>2, <2>1, <2>7, <2>9, <2>10, <2>11, <3>1, <3>2, <3>4 DEF RouteInv, Walks
    <3> QED
      BY <2>6, <2>8, <3>5, <3>6, <3>7, <3>8 DEF IInv
  <2>12. CASE FinishTick(w) /\ sweep' \in Sweeps \cup {NoSweep}
    <3>1. /\ MainInv' /\ work'[w] = Idle /\ \A u \in Workers \ {w} : work'[u] = work[u]
          /\ \A u \in Ticks : work'[u].pc # "idle" /\ work'[u].main = main' =>
                u # w /\ work[w].main # main /\ main' = main
          /\ main' \in Nat /\ lastRun' \in Nat /\ work' \in [Workers -> Works]
      BY <1>1, <1>2, <2>12, FinishTickEffect DEF world
    <3>2. TypeOK'
      BY <1>1, <2>5, <2>6, <2>12, <3>1 DEF TypeOK, world
    <3>3. GenInv' /\ StakingInv'
      BY <1>1, <2>5, <2>7, <3>1, IdleTyped DEF GenInv, StakingInv, Walks
    <3>4. RouteInv'
      BY <2>1, <3>1 DEF RouteInv
    <3> QED
      BY <2>6, <2>8, <3>1, <3>2, <3>3, <3>4 DEF IInv
  <2>13. sweep \in Sweeps \cup {NoSweep} /\ NextRoute \in Sweeps \cup {NoSweep}
    <3>1. sweep \in Sweeps
      BY <2>1
    <3> QED
      BY <3>1, RouteNames DEF NextRoute, Sweeps
  <2> QED
    BY <2>5, <2>11, <2>12, <2>13
<1> QED
  BY <1>3, <1>4 DEF RouteReply

\* A page of the staking account, or what becomes of a call that lost its lease.
LEMMA StakingReplyKeeps ==
  ASSUME IInv, NEW w \in Workers, StakingReply(w)
  PROVE  IInv'
<1> DEFINE S == "staking"
<1>1. /\ TypeOK /\ MainInv /\ GenInv /\ StakingInv /\ RouteInv /\ CursorInv /\ LoadInv
      /\ GenesisInv /\ work[w] \in Works /\ work[w].pc = S /\ S \in Accounts
      /\ UNCHANGED world
  BY DEF IInv, StakingReply, TypeOK, Accounts
<1>2. now' = now /\ chain' = chain /\ load' = load /\ upgrades' = upgrades
  BY <1>1 DEF world
<1>3. CASE EndStaking(w, cur) /\ UNCHANGED <<counted, kept, genesis, boot>>
  <2>1. cur \in [Accounts -> Cursors] /\ \A a \in Accounts : WellFormed(cur[a], chain[a])
    BY <1>1 DEF TypeOK, CursorInv
  <2>2. /\ MainInv' /\ RouteInv' /\ GenInv' /\ StakingInv'
        /\ SameCover(cur', cur) /\ cur'[S] = cur[S]
        /\ sweep' \in Sweeps \cup {NoSweep} /\ work' \in [Workers -> Works]
        /\ main' \in Nat /\ lastRun' \in Nat /\ pokeAt' \in Nat
        /\ ix' \in [expires : Nat, gen : Nat, owner : {"none", "tick", "poke"}]
    BY <1>1, <1>2, <1>3, <2>1, EndStakingEffect
  <2>3. CursorInv' /\ KeptInv' /\ TotalsExact'
    BY <1>2, <1>3, <2>2, NothingApplied
  <2>4. TypeOK' /\ LoadInv' /\ GenesisInv'
    BY <1>1, <1>2, <1>3, <2>2 DEF TypeOK, LoadInv, GenesisInv, SameCover
  <2> QED
    BY <2>2, <2>3, <2>4 DEF IInv
<1>4. ASSUME HoldsIndex(w), NEW n \in work[w].asked .. chain[S], StakingPage(w, n)
      PROVE  IInv'
  <2> DEFINE r == ReadPage(work[w].local, Page(n, StartOf(work[w].local)))
             c == [cur EXCEPT ![S] = r.cursors]
             goes == /\ cur' = c /\ ix' = Renewed(w)
                     /\ work' = [work EXCEPT ![w] =
                          [@ EXCEPT !.expires = Renewed(w).expires, !.local = r.cursors,
                                    !.left = work[w].left - 1, !.asked = chain[S]]]
                     /\ UNCHANGED <<genesis, sweep, main, lastRun, pokeAt>>
  <2>1. /\ work[w].gen = ix.gen /\ work[w].local = cur[S] /\ Walkable(cur[S])
        /\ Reaches(work[w].asked, cur[S])
    BY <1>1, <1>4 DEF HoldsIndex, StakingInv, Walks
  <2>2. /\ cur[S] \in Cursors /\ WellFormed(cur[S], chain[S]) /\ chain[S] \in Nat
        /\ work[w].asked \in Nat /\ n \in Nat /\ n <= chain[S] /\ work[w].asked <= n
    <3>1. cur[S] \in Cursors /\ WellFormed(cur[S], chain[S]) /\ chain[S] \in Nat
          /\ work[w].asked \in Nat
      BY <1>1 DEF TypeOK, CursorInv, Works
    <3> QED
      BY <1>4, <3>1
  <2>3. Reaches(n, cur[S])
    <3>1. /\ cur[S].latest \in Nat
          /\ cur[S].catchUp # NoCatchUp => cur[S].catchUp.head \in Nat
      BY <2>2 DEF Cursors, CatchUps
    <3> QED
      BY <2>1, <2>2, <3>1 DEF Reaches
  <2>4. PageExact(cur[S], r) /\ WellFormed(r.cursors, chain[S])
    BY <2>1, <2>2, <2>3, ReadPageExact
  <2>5. /\ ApplyCommitments(r.fresh) /\ UNCHANGED boot
        /\ \/ ~r.over /\ work[w].left > 1 /\ goes
           \/ genesis' = (genesis \/ r.cursors.complete) /\ EndStaking(w, c)
    BY <1>4 DEF StakingPage
  <2> HIDE DEF r
  <2>6. /\ c \in [Accounts -> Cursors] /\ c[S] = r.cursors
        /\ \A a \in Accounts \ {S} : c[a] = cur[a]
        /\ \A a \in Accounts : WellFormed(c[a], chain[a])
    BY <1>1, <2>4 DEF TypeOK, CursorInv, PageExact
  <2>7. SameCover(c, c) /\ r.cursors.complete \in BOOLEAN
        /\ (cur[S].complete => r.cursors.complete)
    BY <2>4, <2>6 DEF SameCover, PageExact, Cursors
  <2>8. CASE genesis' = (genesis \/ r.cursors.complete) /\ EndStaking(w, c)
    <3>1. /\ MainInv' /\ RouteInv' /\ GenInv' /\ StakingInv'
          /\ SameCover(cur', c) /\ cur'[S] = c[S]
          /\ sweep' \in Sweeps \cup {NoSweep} /\ work' \in [Workers -> Works]
          /\ main' \in Nat /\ lastRun' \in Nat /\ pokeAt' \in Nat
          /\ ix' \in [expires : Nat, gen : Nat, owner : {"none", "tick", "poke"}]
      <4> HIDE DEF c
      <4> QED
        BY <1>1, <1>2, <2>1, <2>6, <2>8, EndStakingEffect
    <3>2. /\ CursorInv' /\ KeptInv' /\ TotalsExact'
          /\ counted' \in [Accounts -> [Ids -> Nat]] /\ kept' \in [Targets -> SUBSET Nat]
      BY <1>2, <2>4, <2>5, <3>1, CommitmentsApplied
    <3>3. GenesisInv' /\ genesis' \in BOOLEAN
      <4>1. genesis' \in BOOLEAN
        BY <2>8
      <4>2. genesis' => r.cursors.complete
        BY <1>1, <2>7, <2>8 DEF GenesisInv
      <4> QED
        BY <2>6, <3>1, <4>1, <4>2 DEF GenesisInv
    <3>4. TypeOK' /\ LoadInv'
      BY <1>1, <1>2, <2>5, <3>1, <3>2, <3>3 DEF TypeOK, LoadInv, SameCover
    <3> QED
      BY <3>1, <3>2, <3>3, <3>4 DEF IInv
  <2>9. CASE ~r.over /\ work[w].left > 1 /\ goes
    <3> DEFINE e == Renewed(w).expires
               v == StakingOn(work[w], r.cursors, work[w].left - 1, chain[S], e)
    <3>1. /\ ix' \in [expires : Nat, gen : Nat, owner : {"none", "tick", "poke"}]
          /\ ix'.gen = ix.gen /\ e \in Nat
      <4>1. LeaseExpiry(LeaseClock(w), IndexLease) \in Nat
        BY <1>1, IndexAssumption DEF TypeOK, Works, LeaseClock, LeaseExpiry
      <4> QED
        BY <1>1, <2>9, <4>1 DEF TypeOK, Renewed
    <3>2. r.cursors \in Cursors /\ Walkable(r.cursors) /\ Reaches(chain[S], r.cursors)
      BY <2>4, <2>9 DEF PageExact, Reaches, WellFormed
    <3> HIDE DEF e
    <3>3. work' = [work EXCEPT ![w] = v]
      BY <2>9 DEF StakingOn, e
    <3>4. /\ v \in Works /\ v.pc = S /\ v.main = work[w].main /\ v.local = r.cursors
          /\ v.asked = chain[S] /\ v.gen = work[w].gen
      <4>1. work[w].left - 1 \in Nat
        <5>1. work[w].left \in Nat
          BY <1>1 DEF Works
        <5> QED
          BY <2>9, <5>1
      <4> DEFINE m == work[w].left - 1
                 k == r.cursors
                 p == chain[S]
                 z == work[w]
      <4>2. z \in Works /\ k \in Cursors /\ m \in Nat /\ p \in Nat /\ e \in Nat
        BY <1>1, <2>2, <3>1, <3>2, <4>1
      <4>3. z.pc = S
        BY <1>1
      <4> HIDE DEF m, k, p, z, v, c, goes
      <4>4. LET u == StakingOn(z, k, m, p, e)
            IN  /\ u \in Works /\ u.pc = z.pc /\ u.main = z.main /\ u.local = k
                /\ u.asked = p /\ u.gen = z.gen
        BY <4>2 DEF StakingOn, Works
      <4> QED
        BY <4>3, <4>4 DEF m, k, p, z, v
    <3> HIDE DEF v, c
    <3>5. /\ work'[w] = v /\ \A u \in Workers \ {w} : work'[u] = work[u]
          /\ work' \in [Workers -> Works]
      BY <1>1, <3>3, <3>4 DEF TypeOK
    <3>6. /\ cur' = c /\ cur'[S] = r.cursors /\ \A a \in Accounts \ {S} : cur'[a] = cur[a]
      BY <2>6, <2>9
    <3>7. /\ CursorInv' /\ KeptInv' /\ TotalsExact'
          /\ counted' \in [Accounts -> [Ids -> Nat]] /\ kept' \in [Targets -> SUBSET Nat]
      <4>1. SameCover(cur', [cur EXCEPT ![S] = r.cursors])
        BY <2>7, <3>6 DEF c
      <4> QED
        BY <1>2, <2>4, <2>5, <4>1, CommitmentsApplied
    <3>8. GenesisInv'
      BY <1>1, <2>7, <2>9, <3>6 DEF GenesisInv
    <3>9. TypeOK' /\ LoadInv'
      BY <1>1, <1>2, <2>5, <2>6, <2>9, <3>1, <3>5, <3>6, <3>7 DEF TypeOK, LoadInv
    <3>10. GenInv'
      BY <1>1, <3>1, <3>4, <3>5 DEF GenInv
    <3>11. StakingInv'
      <4>1. \A u \in Workers \ {w} : work[u].pc = S => work[u].gen # ix.gen
        BY <1>1, <2>1 DEF GenInv
      <4> QED
        BY <3>1, <3>2, <3>4, <3>5, <3>6, <4>1 DEF StakingInv, Walks
    <3>12. \A u \in Ticks : u \in Workers
      BY DEF Workers
    <3>13. MainInv'
      BY <1>1, <1>2, <2>9, <3>4, <3>5, <3>12 DEF MainInv
    <3>14. RouteInv'
      BY <1>1, <2>9, <3>4, <3>5, <3>6, <3>12 DEF RouteInv, Walks, Accounts
    <3> QED
      BY <3>7, <3>8, <3>9, <3>10, <3>11, <3>13, <3>14 DEF IInv
  <2> QED
    BY <2>5, <2>8, <2>9
<1> QED
  BY <1>3, <1>4 DEF StakingReply

LEMMA InitIInv == Init => IInv
<1> SUFFICES ASSUME Init PROVE IInv
  OBVIOUS
<1>1. NewCursors \in Cursors /\ Idle \in Works
  BY IdleTyped DEF NewCursors, Cursors
<1>2. TypeOK
  <2>1. cur \in [Accounts -> Cursors] /\ work \in [Workers -> Works]
    BY <1>1 DEF Init
  <2> QED
    BY <2>1 DEF Init, TypeOK, Unlocked
<1>3. \A w \in Workers : work[w].pc = "idle"
  BY IdleTyped DEF Init
<1>4. MainInv /\ GenInv /\ StakingInv /\ RouteInv
  BY <1>3 DEF MainInv, GenInv, StakingInv, RouteInv, Workers
<1>5. CursorInv
  BY DEF Init, CursorInv, WellFormed, NewCursors
<1>6. LoadInv
  BY <1>2, IndexAssumption DEF Init, LoadInv, TypeOK
<1>7. KeptInv /\ GenesisInv
  BY DEF Init, KeptInv, GenesisInv
<1>8. TotalsExact
  BY DEF Init, TotalsExact, Covered, NewCursors
<1> QED
  BY <1>2, <1>4, <1>5, <1>6, <1>7, <1>8 DEF IInv

LEMMA StepIInv == IInv /\ [Next]_vars => IInv'
<1> SUFFICES ASSUME IInv, [Next]_vars PROVE IInv'
  OBVIOUS
<1>1. ASSUME NEW w \in Ticks, Timer(w) PROVE IInv'
  BY <1>1, TimerKeeps
<1>2. ASSUME NEW w \in Ticks, RateReply(w) PROVE IInv'
  BY <1>2, RateReplyKeeps
<1>3. ASSUME NEW w \in Ticks, RouteReply(w) PROVE IInv'
  BY <1>3, RouteReplyKeeps
<1>4. ASSUME NEW w \in Pokes, Poke(w) PROVE IInv'
  BY <1>4, PokeKeeps
<1>5. ASSUME NEW w \in Workers, StakingReply(w) PROVE IInv'
  BY <1>5, StakingReplyKeeps
<1>6. ASSUME NEW a \in Accounts, Receive(a) PROVE IInv'
  BY <1>6, ReceiveKeeps
<1>7. CASE Advance
  BY <1>7, AdvanceKeeps
<1>8. CASE Upgrade
  BY <1>8, UpgradeKeeps
<1>9. CASE UNCHANGED vars
  <2>1. /\ TypeOK /\ MainInv /\ GenInv /\ StakingInv /\ RouteInv /\ CursorInv /\ LoadInv
        /\ KeptInv /\ GenesisInv /\ TotalsExact
    BY DEF IInv
  <2>2. TypeOK'
    BY <1>9, <2>1 DEF TypeOK, vars, world, totals, locks
  <2>3. MainInv' /\ GenInv' /\ StakingInv' /\ RouteInv'
    BY <1>9, <2>1 DEF MainInv, GenInv, StakingInv, RouteInv, Walks, vars, world, totals, locks
  <2>4. CursorInv' /\ LoadInv' /\ KeptInv' /\ GenesisInv' /\ TotalsExact'
    BY <1>9, <2>1 DEF CursorInv, LoadInv, KeptInv, GenesisInv, TotalsExact, Counts, Qualifies,
                      vars, world, totals
  <2> QED
    BY <2>2, <2>3, <2>4 DEF IInv
<1> QED
  BY <1>1, <1>2, <1>3, <1>4, <1>5, <1>6, <1>7, <1>8, <1>9 DEF Next

-----------------------------------------------------------------------------
(* The theorems.                                                             *)

\* Ticks, pokes and upgrades in any order keep the invariant of the historian's
\* indexing: one call at most walks an account, and it walks on from the cursors
\* that are saved.
THEOREM IndexInvariant == Spec => []IInv
  BY InitIInv, StepIInv, PTL DEF Spec

\* The totals hold every transaction the cursors cover exactly once and no
\* other, whatever was interrupted, superseded or pruned.
THEOREM TotalsAreExact == Spec => []TotalsExact
<1>1. IInv => TotalsExact
  BY DEF IInv
<1> QED
  BY <1>1, IndexInvariant, PTL

\* A commitment that is not in the totals is not covered by the cursors.
LEMMA ClaimsFollow == IInv => ClaimsTrue
<1> DEFINE S == "staking"
           c == cur[S]
<1> SUFFICES ASSUME IInv, NEW i \in 1..chain[S], Qualifies(i), counted[S][i] = 0
             PROVE  /\ ~NotFoundInRetainedEvidence(i)
                    /\ CommitmentIndexIsComplete => i > c.latest
  BY DEF ClaimsTrue
<1>1. /\ S \in Accounts /\ chain[S] \in Nat /\ c \in Cursors /\ WellFormed(c, chain[S])
      /\ (genesis => c.complete) /\ load \in Loads /\ load[S] \in Nat /\ chain[S] <= load[S]
      /\ TotalsExact
  BY IndexAssumption DEF IInv, TypeOK, CursorInv, GenesisInv, LoadInv, Accounts
<1>2. i \in Ids /\ i \in Nat /\ i >= 1
  <2>1. i \in Nat /\ i >= 1 /\ i \in 1..load[S]
    BY <1>1
  <2> DEFINE U == {1..l[a] : l \in Loads, a \in Accounts}
  <2>2. 1..load[S] \in U
    BY <1>1
  <2>3. Ids = UNION U
    BY DEF Ids
  <2> HIDE DEF U
  <2> QED
    BY <2>1, <2>2, <2>3
<1>3. ~Covered(c, i)
  BY <1>1, <1>2 DEF TotalsExact, Counts
<1>4. /\ c.latest \in Nat /\ c.oldest \in Nat
      /\ c.catchUp # NoCatchUp => /\ c.catchUp.head \in Nat /\ c.catchUp.next \in Nat
                                  /\ c.catchUp.boundary \in Nat
  BY <1>1 DEF Cursors, CatchUps
<1>5. /\ c.complete /\ c.latest # 0 => c.oldest = 1
      /\ c.oldest = 0 => c.latest = 0
      /\ c.catchUp # NoCatchUp => c.complete /\ c.latest # 0 /\ c.catchUp.boundary = c.latest
  BY <1>1 DEF WellFormed
<1>6. /\ ~(c.oldest # 0 /\ i \in c.oldest .. c.latest)
      /\ c.catchUp # NoCatchUp => i \notin c.catchUp.next .. c.catchUp.head
  BY <1>3 DEF Covered
<1>7. NotFoundInRetainedEvidence(i) =>
        /\ c.catchUp # NoCatchUp => /\ ~(i > c.catchUp.head)
                                    /\ ~(i > c.catchUp.boundary /\ i < c.catchUp.next)
        /\ c.catchUp = NoCatchUp => /\ c.latest # 0 /\ i <= c.latest
                                    /\ c.complete \/ i >= c.oldest
  BY DEF NotFoundInRetainedEvidence
<1> HIDE DEF c
<1>8. c.complete => i > c.latest
  BY <1>2, <1>4, <1>5, <1>6
<1>9. ~NotFoundInRetainedEvidence(i)
  <2>1. CASE c.catchUp # NoCatchUp
    BY <1>2, <1>4, <1>5, <1>6, <1>7, <1>8, <2>1
  <2>2. CASE c.catchUp = NoCatchUp
    BY <1>2, <1>4, <1>5, <1>6, <1>7, <1>8, <2>2
  <2> QED
    BY <2>1, <2>2
<1>10. CommitmentIndexIsComplete => i > c.latest
  BY <1>1, <1>8 DEF CommitmentIndexIsComplete
<1> QED
  BY <1>9, <1>10

\* What the historian tells its callers is true at every instant: what it says
\* it cannot find was gone through, and rollups it calls complete are.
THEOREM ClaimsAreTrue == Spec => []ClaimsTrue
  BY IndexInvariant, ClaimsFollow, PTL
=============================================================================

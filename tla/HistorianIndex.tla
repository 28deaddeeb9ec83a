--------------------------- MODULE HistorianIndex ---------------------------
(***************************************************************************)
(* canisters/historian/src/scheduler: the totals the historian derives from *)
(* the history of three Ledger accounts.  The Index serves pages newest     *)
(* first; per account two cursors enclose what was backfilled, and a        *)
(* persisted catch-up walks from the head down to the newer cursor.         *)
(*                                                                          *)
(* The staking account is indexed by the main tick and by pokes, under a    *)
(* renewable, generation-fenced lease that a tick may take from a poke; the *)
(* two route accounts by the main tick alone, under the main lease and the  *)
(* identity of the route sweep.  Steps follow the awaits.                   *)
(***************************************************************************)
EXTENDS TimerLease, Sequences, FiniteSetsExt

CONSTANTS Ticks, Pokes, \* calls of main_tick and of the poke handler in flight
          Loads,        \* bound: transactions each account may get, and upgrades
          Targets,      \* beneficiaries with a commitment history
          Target,       \* of each staking transaction; NoTarget: under threshold
          PageSize,     \* PAGE_SIZE
          MaxPages,     \* config.max_index_pages_per_tick
          PokePages,    \* ENDOWMENT_POKE_MAX_PAGES
          Retained,     \* config.max_commitment_entries_per_canister
          MainLease,    \* MAIN_TICK_LEASE_SECONDS
          IndexLease,   \* COMMITMENT_INDEX_LEASE_SECONDS
          MinGap,       \* config.scan_interval_seconds - 5
          PokeGap,      \* ENDOWMENT_POKE_MIN_INTERVAL_SECONDS
          MaxTime,      \* bound: the clock stops here
          NoTarget, NoCatchUp, NoSweep \* None

Routes == <<"output", "rewards">>
Accounts == {"staking", "output", "rewards"}

ASSUME IndexAssumption ==
  /\ Loads \subseteq [Accounts \cup {"upgrades"} -> Nat]
  /\ {PageSize, MaxPages, PokePages, MainLease, IndexLease} \subseteq Nat \ {0}
  /\ {Retained, MinGap, PokeGap} \subseteq Nat
  /\ Ticks \cap Pokes = {}

Ids == UNION {1..l[a] : l \in Loads, a \in Accounts}
Workers == Ticks \cup Pokes

CatchUps == [boundary : Nat, head : Nat, next : Nat]
Cursors  == [latest : Nat, oldest : Nat, known : BOOLEAN, complete : BOOLEAN,
             catchUp : CatchUps \cup {NoCatchUp}]
Sweeps   == [started : Nat, next : 1..Len(Routes)]

ASSUME NoneAssumption ==
  /\ Target \in [Ids -> Targets \cup {NoTarget}] /\ NoTarget \notin Targets
  /\ NoCatchUp \notin CatchUps /\ NoSweep \notin Sweeps

VARIABLES
  now,
  load,     \* the bounds of this behaviour; never changes
  chain,    \* how many it has: their ids are 1..chain[a]
  cur,      \* per account: cursors, order known, backfill and catch-up
  counted,  \* how often a transaction went into the totals
  kept,     \* commitment histories, as sets of ids
  genesis,  \* commitment_route_rollups_complete_from_genesis
  sweep,    \* active_route_sweep
  main,     \* main_lock_state_ts
  lastRun,  \* last_main_run_ts
  ix,       \* commitment_index_lock_*
  pokeAt,   \* endowment_refresh_next_allowed_ts
  boot,     \* the forced tick that install_timers arms is still to come
  work,     \* the calls in flight
  upgrades

totals == <<cur, counted, kept, genesis>>
locks  == <<main, lastRun, ix, pokeAt, boot>>
world  == <<now, load, chain, upgrades>>
vars   == <<world, totals, sweep, locks, work>>

\* 0 stands for an absent cursor.
NewCursors == [latest |-> 0, oldest |-> 0, known |-> FALSE,
               complete |-> FALSE, catchUp |-> NoCatchUp]

Idle == [pc |-> "idle", start |-> 0, main |-> 0, expires |-> 0, gen |-> 0,
         local |-> NewCursors, left |-> 0, asked |-> 0, sweep |-> NoSweep]

Works == [pc : {"idle", "rate", "staking", "output", "rewards"}, start : Nat,
          main : Nat, expires : Nat, gen : Nat, local : Cursors, left : Nat,
          asked : Nat, sweep : Sweeps \cup {NoSweep}]

TypeOK ==
  /\ now \in Nat /\ load \in Loads /\ upgrades \in Nat
  /\ chain \in [Accounts -> Nat] /\ cur \in [Accounts -> Cursors]
  /\ counted \in [Accounts -> [Ids -> Nat]] /\ kept \in [Targets -> SUBSET Nat]
  /\ genesis \in BOOLEAN /\ boot \in BOOLEAN /\ sweep \in Sweeps \cup {NoSweep}
  /\ main \in Nat /\ lastRun \in Nat /\ pokeAt \in Nat
  /\ ix \in [expires : Nat, gen : Nat, owner : {"none", "tick", "poke"}]
  /\ work \in [Workers -> Works]

Init ==
  /\ now = 1 /\ load \in Loads /\ upgrades = 0
  /\ chain = [a \in Accounts |-> 0]
  /\ cur = [a \in Accounts |-> NewCursors]
  /\ counted = [a \in Accounts |-> [i \in Ids |-> 0]]
  /\ kept = [g \in Targets |-> {}]
  /\ genesis = FALSE /\ sweep = NoSweep
  /\ main = Unlocked /\ lastRun = 0 /\ pokeAt = 0 /\ boot = TRUE
  /\ ix = [expires |-> 0, gen |-> 0, owner |-> "none"]
  /\ work = [w \in Workers |-> Idle]

-----------------------------------------------------------------------------
(* Pages.                                                                   *)

\* The Index: the newest PageSize ids of 1..n that come before start.
Page(n, start) ==
  LET top == IF start = 0 THEN n ELSE start - 1
  IN {i \in 1..top : i + PageSize > top}

\* The walk down from the head that a complete account continues or begins.
CatchUpOf(c) ==
  IF c.catchUp # NoCatchUp THEN c.catchUp
  ELSE [boundary |-> c.latest, head |-> c.latest, next |-> 0]

\* The cursor of the next request.
StartOf(c) ==
  CASE ~c.known   -> 0
    [] c.complete -> CatchUpOf(c).next
    [] OTHER      -> c.oldest

Greatest(S) == IF S = {} THEN 0 ELSE Max(S)

\* A page of the catch-up: what is new in it, and the cursors after it.
CatchUpPage(c, page) ==
  LET p == CatchUpOf(c)
      fresh == {i \in page : i > p.boundary}
      head == Greatest(fresh \cup {p.head})
      over == fresh # page \/ Cardinality(page) < PageSize
  IN [fresh |-> fresh, over |-> over,
      cursors |-> [c EXCEPT !.known = TRUE,
                     !.latest = IF over THEN head ELSE @,
                     !.catchUp = IF over THEN NoCatchUp
                                 ELSE [p EXCEPT !.head = head, !.next = Min(page)]]]

\* A page of the backfill.
BackfillPage(c, page) ==
  LET older == IF c.oldest = 0 THEN page ELSE {i \in page : i < c.oldest}
      over == older = {} \/ Cardinality(page) < PageSize
  IN [fresh |-> older, over |-> over,
      cursors |-> [c EXCEPT !.known = TRUE, !.complete = over,
                     !.latest = Greatest(older \cup {@}),
                     !.oldest = IF older = {} THEN @ ELSE Min(older)]]

ReadPage(c, page) == IF c.complete THEN CatchUpPage(c, page) ELSE BackfillPage(c, page)

\* Histories keep the greatest ids.
Newest(S) == {i \in S : Cardinality({j \in S : j > i}) < Retained}

\* apply_indexed_commitment_tx: the others go to lists of recent entries only.
Qualifies(i) == Target[i] # NoTarget

\* push_commitment: a transaction the history still holds is not inserted.
Inserted(fresh) == {i \in fresh : Qualifies(i) /\ i \notin kept[Target[i]]}

\* apply_commitment_transactions_in_chronological_order: histories and rollups.
ApplyCommitments(fresh) ==
  /\ counted' = [counted EXCEPT !["staking"] =
       [i \in Ids |-> IF i \in Inserted(fresh) THEN @[i] + 1 ELSE @[i]]]
  /\ kept' = [g \in Targets |-> Newest(kept[g] \cup {i \in fresh : Target[i] = g})]

\* add_indexed_route_amount for every transfer of the page.
ApplyTransfers(a, fresh) ==
  /\ counted' = [counted EXCEPT ![a] =
       [i \in Ids |-> IF i \in fresh THEN @[i] + 1 ELSE @[i]]]
  /\ UNCHANGED kept

-----------------------------------------------------------------------------
(* Leases.                                                                  *)

HoldsMain(w) == main = work[w].main

\* CommitmentIndexGuard::acquire
CanIndex(owner) ==
  CanAcquire(ix.expires, now) \/ (owner = "tick" /\ ix.owner = "poke")

\* Mutant: whoever holds the lease, the page is applied.
HoldsIndexAnyway(w) == TRUE

\* CommitmentIndexLeaseToken::is_current
HoldsIndex(w) == ix.expires = work[w].expires /\ ix.gen = work[w].gen

\* CommitmentIndexGuard::release
ReleasedIndex(w) ==
  IF ix.gen = work[w].gen THEN [ix EXCEPT !.expires = 0, !.owner = "none"] ELSE ix

\* The clock a worker renews its lease by: a poke keeps the second it began.
LeaseClock(w) == IF w \in Pokes THEN work[w].start ELSE now

-----------------------------------------------------------------------------
(* The route stage of a tick.                                               *)

\* An account that was empty when its backfill ended is walked again.
Reopened(c) ==
  LET d == IF c.latest # 0 /\ c.oldest = 0 THEN [c EXCEPT !.oldest = c.latest] ELSE c
  IN IF d.complete /\ d.latest = 0 THEN [d EXCEPT !.complete = FALSE] ELSE d

\* MainGuard::finish, and the end of the call.
FinishTick(w) ==
  /\ main' = Released(main, work[w].main)
  /\ lastRun' = IF HoldsMain(w) THEN work[w].start ELSE lastRun
  /\ work' = [work EXCEPT ![w] = Idle]

\* process_route_indexing up to its first call.  c are the cursors of the
\* accounts as the earlier stage of this step leaves them.
BeginRoute(w, c) ==
  LET s == IF sweep # NoSweep THEN sweep ELSE [started |-> work[w].start, next |-> 1]
      a == Routes[s.next]
      l == Reopened(c[a]) IN
  /\ sweep' = s
  /\ cur' = [c EXCEPT ![a].complete = l.complete]
  /\ work' = [work EXCEPT ![w] = [@ EXCEPT !.pc = a, !.local = l, !.left = MaxPages,
                                           !.asked = chain[a], !.sweep = s]]

\* The tick after its commitment stage.
AfterCommitments(w, c) ==
  \/ HoldsMain(w) /\ BeginRoute(w, c) /\ UNCHANGED <<main, lastRun>>
  \/ ~HoldsMain(w) /\ FinishTick(w) /\ cur' = c /\ UNCHANGED sweep

\* route_work_is_current
RouteWorkIsCurrent(w) == HoldsMain(w) /\ sweep = work[w].sweep

\* The sweep once its current route is done.
NextRoute == IF sweep.next = Len(Routes) THEN NoSweep ELSE [sweep EXCEPT !.next = @ + 1]

\* process_route_indexing resumes with a page of account a.
RoutePage(w, a, n) ==
  LET r == ReadPage(work[w].local, Page(n, StartOf(work[w].local))) IN
  /\ cur' = [cur EXCEPT ![a] = r.cursors]
  /\ ApplyTransfers(a, r.fresh)
  /\ UNCHANGED <<genesis, ix, pokeAt, boot>>
  /\ \/ /\ ~r.over /\ work[w].left > 1
        /\ work' = [work EXCEPT ![w] = [@ EXCEPT !.local = r.cursors,
                                                 !.left = work[w].left - 1,
                                                 !.asked = chain[a]]]
        /\ UNCHANGED <<sweep, main, lastRun>>
     \/ /\ ~r.over /\ work[w].left = 1
        /\ FinishTick(w) /\ UNCHANGED sweep
     \/ /\ r.over /\ sweep' = NextRoute /\ FinishTick(w)

RouteReply(w) ==
  /\ work[w].pc \in {Routes[k] : k \in 1..Len(Routes)}
  /\ \/ /\ RouteWorkIsCurrent(w)
        /\ \E n \in work[w].asked .. chain[work[w].pc] : RoutePage(w, work[w].pc, n)
     \/ \* The work was superseded, or the call failed.
        FinishTick(w) /\ UNCHANGED <<totals, sweep, ix, pokeAt, boot>>
  /\ UNCHANGED world

-----------------------------------------------------------------------------
(* The commitment stage.                                                    *)

\* process_commitment_indexing_bounded up to its first call, for call record r,
\* with the lease it took renewed.
BeginStaking(w, r, owner) ==
  LET l == Reopened(cur["staking"])
      e == LeaseExpiry(now, IndexLease) IN
  /\ cur' = [cur EXCEPT !["staking"].complete = l.complete]
  /\ genesis' = (genesis /\ (cur["staking"].complete = l.complete))
  /\ ix' = [expires |-> e, gen |-> ix.gen + 1, owner |-> owner]
  /\ work' = [work EXCEPT ![w] =
       [r EXCEPT !.pc = "staking", !.expires = e, !.gen = ix.gen + 1, !.local = l,
                 !.left = IF owner = "poke" THEN PokePages ELSE MaxPages,
                 !.asked = chain["staking"]]]

\* CommitmentIndexLeaseToken::renew
Renewed(w) == [ix EXCEPT !.expires = LeaseExpiry(LeaseClock(w), IndexLease)]

\* Both ends of the stage: the lease is given back; a poke that still held it
\* delays the next one, a tick goes on to the routes.  c as in BeginRoute.
EndStaking(w, c) ==
  /\ ix' = ReleasedIndex(w)
  /\ \/ /\ w \in Pokes
        /\ pokeAt' = IF HoldsIndex(w) THEN work[w].start + PokeGap ELSE pokeAt
        /\ work' = [work EXCEPT ![w] = Idle]
        /\ cur' = c /\ UNCHANGED <<sweep, main, lastRun>>
     \/ w \in Ticks /\ AfterCommitments(w, c) /\ UNCHANGED pokeAt

\* The walk resumes with a page.
StakingPage(w, n) ==
  LET r == ReadPage(work[w].local, Page(n, StartOf(work[w].local)))
      c == [cur EXCEPT !["staking"] = r.cursors] IN
  /\ ApplyCommitments(r.fresh)
  /\ UNCHANGED boot
  /\ \/ /\ ~r.over /\ work[w].left > 1
        /\ cur' = c /\ ix' = Renewed(w)
        /\ work' = [work EXCEPT ![w] = [@ EXCEPT !.expires = Renewed(w).expires,
                      !.local = r.cursors, !.left = work[w].left - 1,
                      !.asked = chain["staking"]]]
        /\ UNCHANGED <<genesis, sweep, main, lastRun, pokeAt>>
     \/ /\ r.over \/ work[w].left = 1
        /\ genesis' = (genesis \/ r.cursors.complete)
        /\ EndStaking(w, c)

StakingReply(w) ==
  /\ work[w].pc = "staking"
  /\ \/ /\ HoldsIndex(w)
        /\ \E n \in work[w].asked .. chain["staking"] : StakingPage(w, n)
     \/ \* The lease was superseded, or the call failed.
        EndStaking(w, cur) /\ UNCHANGED <<counted, kept, genesis, boot>>
  /\ UNCHANGED world

-----------------------------------------------------------------------------
(* What callers are told.                                                   *)

\* Mutant: without regard for the gap of a catch-up.
NotFoundByHead(i) ==
  /\ cur["staking"].latest # 0
  /\ i <= (IF cur["staking"].catchUp # NoCatchUp THEN cur["staking"].catchUp.head
           ELSE cur["staking"].latest)
  /\ cur["staking"].complete \/ i >= cur["staking"].oldest

\* expected_transaction_status answers NotFoundInRetainedEvidence for a
\* transaction that none of the recent lists holds.
NotFoundInRetainedEvidence(i) ==
  LET c == cur["staking"] IN
  IF c.catchUp # NoCatchUp
  THEN ~(i > c.catchUp.head \/ (i > c.catchUp.boundary /\ i < c.catchUp.next))
  ELSE c.latest # 0 /\ i <= c.latest /\ (c.complete \/ i >= c.oldest)

\* commitment_index_is_complete
CommitmentIndexIsComplete == genesis /\ cur["staking"].catchUp = NoCatchUp

-----------------------------------------------------------------------------
(* Ticks and pokes.                                                         *)

\* run_main_tick_with_clients from the exchange rate on, for call record r.
CommitmentStage(w, r) ==
  \/ /\ CanIndex("tick") /\ BeginStaking(w, r, "tick")
     /\ UNCHANGED <<counted, kept, sweep, main, lastRun>>
  \/ /\ ~CanIndex("tick") /\ BeginRoute(w, cur)
     /\ UNCHANGED <<counted, kept, genesis, main, lastRun, ix>>

\* main_tick up to the call for the exchange rate, which is due or cached;
\* a cached one is an answer that comes at once.
MainTick(w, force) ==
  /\ work[w].pc = "idle" /\ CanAcquire(main, now)
  /\ force \/ now >= lastRun + MinGap
  /\ main' = LeaseExpiry(now, MainLease)
  /\ work' = [work EXCEPT ![w] = [Idle EXCEPT !.pc = "rate", !.start = now, !.main = main']]
  /\ UNCHANGED <<world, totals, sweep, lastRun, ix, pokeAt>>

\* main_tick soon after the last run: the lease is given back at once, but the
\* time counts as that of the last run, so the gap begins anew.
TickTooEarly ==
  /\ CanAcquire(main, now) /\ now < lastRun + MinGap
  /\ lastRun' = now /\ main' = Unlocked
  /\ UNCHANGED <<world, totals, sweep, ix, pokeAt, work>>

\* The timers of install_timers.  A tick that finds the lease taken leaves
\* nothing behind.
Timer(w) ==
  \/ ~boot /\ (MainTick(w, FALSE) \/ TickTooEarly) /\ UNCHANGED boot
  \/ boot /\ MainTick(w, TRUE) /\ boot' = FALSE

\* The exchange rate arrives, or the call for it fails.
RateReply(w) ==
  /\ work[w].pc = "rate"
  /\ \/ HoldsMain(w) /\ CommitmentStage(w, work[w])
     \/ ~HoldsMain(w) /\ FinishTick(w) /\ UNCHANGED <<totals, sweep, ix>>
  /\ UNCHANGED <<world, pokeAt, boot>>

\* handle_endowment_poke_with_client, for a poke or for its trailing timer.
Poke(w) ==
  /\ work[w].pc = "idle" /\ pokeAt <= now /\ CanIndex("poke")
  /\ BeginStaking(w, [Idle EXCEPT !.start = now], "poke")
  /\ UNCHANGED <<world, counted, kept, sweep, main, lastRun, pokeAt, boot>>

\* An account receives a transaction and the Index has it.
Receive(a) ==
  /\ chain[a] < load[a]
  /\ chain' = [chain EXCEPT ![a] = @ + 1]
  /\ UNCHANGED <<now, load, upgrades, totals, sweep, locks, work>>

Advance ==
  /\ now < MaxTime /\ now' = now + 1
  /\ UNCHANGED <<load, chain, upgrades, totals, sweep, locks, work>>

\* post_upgrade: calls in flight never return, the locks are free again.
Upgrade ==
  /\ upgrades < load.upgrades /\ upgrades' = upgrades + 1
  /\ main' = Unlocked /\ boot' = TRUE
  /\ ix' = [expires |-> 0, gen |-> ix.gen + 1, owner |-> "none"]
  /\ work' = [w \in Workers |-> Idle]
  /\ UNCHANGED <<now, load, chain, totals, sweep, lastRun, pokeAt>>

Next ==
  \/ \E w \in Ticks : Timer(w) \/ RateReply(w) \/ RouteReply(w)
  \/ \E w \in Pokes : Poke(w)
  \/ \E w \in Workers : StakingReply(w)
  \/ \E a \in Accounts : Receive(a)
  \/ Advance \/ Upgrade

Spec == Init /\ [][Next]_vars

-----------------------------------------------------------------------------
(* Properties.                                                              *)

Counts(a, i) == a # "staking" \/ Qualifies(i)

\* The cursors of c say that transaction i was gone through.
Covered(c, i) ==
  \/ c.oldest # 0 /\ i \in c.oldest .. c.latest
  \/ c.catchUp # NoCatchUp /\ i \in c.catchUp.next .. c.catchUp.head

\* Whatever was interrupted, superseded, retried or pruned, the totals hold every
\* transaction the cursors cover exactly once and no other.  Histories forget
\* their oldest entries, so what push_commitment would refuse twice is counted
\* twice when two walks overlap: only leases and cursors prevent it
\* (commitment_indexer_apply.rs, route_transfer_indexer.rs).
TotalsExact ==
  \A a \in Accounts : \A i \in Ids :
    counted[a][i] = IF Counts(a, i) /\ Covered(cur[a], i) THEN 1 ELSE 0

\* What the historian tells its callers is true at every instant, between the
\* pages of a walk too: a commitment it says it cannot find was gone through
\* (it is never one the walk has yet to reach), and while it says that its
\* rollups are complete from genesis they hold every commitment up to the
\* cursor it reports (endowment_poke.rs, state/mod.rs).
ClaimsTrue ==
  \A i \in 1..chain["staking"] :
    Qualifies(i) /\ counted["staking"][i] = 0 =>
      /\ ~NotFoundInRetainedEvidence(i)
      /\ CommitmentIndexIsComplete => i > cur["staking"].latest
=============================================================================

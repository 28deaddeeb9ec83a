----------------------------- MODULE OwnerScan -----------------------------
(***************************************************************************)
(* canisters/sns-rewards: the daily scan of the neurons of one SNS.  Pages  *)
(* are read one per tick into the staging slot of a pair; the last page     *)
(* makes the slot the active snapshot, under a new id.  Everything but the  *)
(* timers and the calls in flight is written through to stable memory.      *)
(*                                                                          *)
(* Steps follow the awaits: a tick runs up to its call, the callee answers, *)
(* and the reply runs up to the next call or to the end.  Delays of minutes *)
(* are shorter than the clock's step and are due at once.                   *)
(***************************************************************************)
EXTENDS TimerLease, Integers, FiniteSetsExt

CONSTANTS Ticks,       \* calls of scan_tick that may be in flight together
          Roots,       \* SNS roots an upgrade may configure
          Neurons,     \* neuron ids, in the order of the cursor
          Kinds,       \* what a neuron may look like
          Starts,      \* the neurons of each root when the canister is installed
          PageSize,    \* SNS_NEURON_PAGE_SIZE
          MaxPages,    \* SNS_OWNER_SCAN_MAX_PAGES
          Lease,       \* SCAN_LEASE_SECONDS
          Interval,    \* SNS_OWNER_SCAN_INTERVAL_SECONDS
          MaxTime,     \* bound: the clock stops here
          MaxChanges,  \* bound: changes of a neuron
          MaxUpgrades, \* bound: upgrades
          MaxStarts,   \* bound: scans begun
          Absent,      \* a neuron that does not exist yet
          NoRoot, NoOwner, NoScan, NoSnap, NoDir \* None

ASSUME ScanAssumption ==
  /\ Neurons \subseteq Nat \ {0} /\ PageSize \in Nat \ {0}
  /\ MaxPages \in Nat \ {0} /\ Lease \in Nat \ {0} /\ Interval \in Nat \ {0}
  /\ Starts \subseteq [Roots -> [Neurons -> Kinds \cup {Absent}]]
  /\ IsFiniteSet(Neurons)

\* A principal is a number; permission types are finitely many numbers.
ASSUME KindAssumption ==
  \A k \in Kinds : /\ k.perms \subseteq Nat \X SUBSET Nat
                    /\ IsFiniteSet(k.perms)
                    /\ \A e \in k.perms : IsFiniteSet(e[2])

Slots == {"A", "B"}
NoTimer == -1

\* The principals a neuron may name, staged scans, active snapshots and the
\* directories they stand for.
Owners == UNION {{e[1] : e \in k.perms} : k \in Kinds}
Scans  == [slot : Slots, root : Roots, started : Nat, nth : Nat, cursor : Nat,
           pages : Nat]
Snaps  == [id : Nat, slot : Slots, root : Roots, started : Nat, completed : Nat]
Dirs   == [id : Nat, root : Roots, owners : SUBSET Owners, started : Nat,
           completed : Nat]

ASSUME NoneAssumption ==
  /\ Absent \notin Kinds /\ NoRoot \notin Roots
  /\ NoScan \notin Scans /\ NoSnap \notin Snaps /\ NoDir \notin Dirs

VARIABLES
  now,
  root,     \* config.reward_sns_root_canister_id
  snap,     \* active_snapshot
  nextId,   \* next_snapshot_id
  scan,     \* scan
  slots,    \* the two owner maps
  last,     \* last_scan_started_at, 0 for never
  starts,   \* number of scans begun: their starts differ in nanoseconds
  lock,     \* scan_lock_state_ts
  timer,    \* when NEXT_SCAN_TIMER is due
  conts,    \* continuation timers
  act,      \* the ticks in flight
  gov,      \* the governance canister of each root
  changes, upgrades,
  seen      \* history: owners during the scan, and during the active one's

stable == <<root, snap, nextId, scan, slots, last, starts>>
timers == <<timer, conts>>
world  == <<gov, changes, upgrades>>
vars   == <<now, stable, lock, timers, act, world, seen>>

-----------------------------------------------------------------------------
(* Owners.                                                                  *)

\* Permissions are a set of pairs <<principal, permission types>>.
TypesOf(perms, p) == UNION {e[2] : e \in {x \in perms : x[1] = p}}

\* select_owner: most permission types, and of those the least principal.
SelectOwner(perms) ==
  LET ps == {e[1] : e \in perms}
      best == {p \in ps : \A q \in ps : Cardinality(TypesOf(perms, q))
                                          <= Cardinality(TypesOf(perms, p))}
  IN IF ps = {} THEN NoOwner ELSE Min(best)

\* effective_stake_is_positive
Staked(k) == k.stake > k.fees

\* owner_for_neuron
OwnerForNeuron(k) == IF Staked(k) THEN SelectOwner(k.perms) ELSE NoOwner

Exists(r) == {n \in Neurons : gov[r][n] # Absent}

OwnerOf(r, n) == IF gov[r][n] = Absent THEN NoOwner ELSE OwnerForNeuron(gov[r][n])

\* The neurons ns of r with the owners they have, unless they have none.
Holdings(r, ns) ==
  {<<n, OwnerOf(r, n)>> : n \in ns} \ (Neurons \X {NoOwner})

HeldBy(pairs) == {h[2] : h \in pairs}

-----------------------------------------------------------------------------
(* Ticks.                                                                   *)

Idle == [pc |-> "idle", expiry |-> 0, root |-> NoRoot, scan |-> NoScan,
         asked |-> 0, page |-> {}, ids |-> {}]

OtherSlot(s) == IF s = "A" THEN "B" ELSE "A"

\* Mutant: any scan of the same root will do.
OwnsScanLease(t, r, expected) ==
  root = r /\ (scan = NoScan) = (expected = NoScan)

\* ScanGuard::owns_scan
OwnsScan(t, r, expected) ==
  lock = act[t].expiry /\ root = r /\ scan = expected

\* The tick ends: ScanGuard::drop.
End(t) ==
  /\ lock' = Released(lock, act[t].expiry)
  /\ act' = [act EXCEPT ![t] = Idle]

\* schedule_scan_check replaces the timer that is armed.
CheckAt(due) == timer' = due

\* Mutant: a failed page leaves the next attempt to the daily timer.
FailScanQuiet == scan' = NoScan /\ UNCHANGED timer

\* fail_scan, and the recheck the tick arms for a failed page.
FailScan == scan' = NoScan /\ CheckAt(now)

\* process_one_page up to its call, with scan record s.  A scan at the page
\* cap is failed by the page that reaches it, so none is found here.
RequestPage(t, a, s) ==
  act' = [act EXCEPT ![t] = [a EXCEPT !.pc = "page", !.scan = s, !.asked = now]]

\* scan_tick: the lease, whether a scan is due, and the first call.  rest is
\* what is left armed of NEXT_SCAN_TIMER.
Tick(t, rest) ==
  LET a == [Idle EXCEPT !.expiry = LeaseExpiry(now, Lease)]
      due == last = 0 \/ now - last >= Interval IN
  /\ UNCHANGED <<stable, seen>>
  /\ \/ /\ ~CanAcquire(lock, now)
        /\ CheckAt(now) /\ UNCHANGED <<lock, act>>
     \/ /\ CanAcquire(lock, now) /\ scan = NoScan /\ ~due
        /\ lock' = Unlocked /\ CheckAt(last + Interval) /\ UNCHANGED act
     \/ /\ CanAcquire(lock, now) /\ scan = NoScan /\ due /\ root = NoRoot
        /\ lock' = Unlocked /\ timer' = rest /\ UNCHANGED act
     \/ /\ CanAcquire(lock, now) /\ scan = NoScan /\ due /\ root # NoRoot
        /\ starts < MaxStarts
        /\ lock' = a.expiry /\ timer' = rest
        /\ act' = [act EXCEPT ![t] = [a EXCEPT !.pc = "list", !.root = root]]
     \/ /\ CanAcquire(lock, now) /\ scan # NoScan
        /\ lock' = a.expiry /\ timer' = rest
        /\ RequestPage(t, a, scan)

TimerFires(t) ==
  /\ act[t] = Idle /\ timer # NoTimer /\ timer <= now
  /\ Tick(t, NoTimer)
  /\ UNCHANGED <<now, conts, world>>

ContinuationFires(t) ==
  /\ act[t] = Idle /\ conts > 0
  /\ Tick(t, timer) /\ conts' = conts - 1
  /\ UNCHANGED <<now, world>>

\* Mutant: the slot the active snapshot is read from is staged again.
StagingSame == IF snap = NoSnap THEN "A" ELSE snap.slot

\* The slot a new scan stages: not the one that is answered from.
StagingSlot == IF snap = NoSnap THEN "A" ELSE OtherSlot(snap.slot)

\* finish_start_scan: a scan is begun and its first page is asked for.
ScanBegins(t) ==
  LET a == act[t]
      s == [slot |-> StagingSlot, root |-> a.root, started |-> now,
            nth |-> starts + 1, cursor |-> 0, pages |-> 0] IN
  /\ a.pc = "list" /\ OwnsScan(t, a.root, NoScan)
  /\ slots' = [slots EXCEPT ![s.slot] = {}]
  /\ scan' = s /\ last' = now /\ starts' = starts + 1
  /\ CheckAt(now + Interval)
  /\ RequestPage(t, a, s)
  /\ seen' = [seen EXCEPT !.held = HeldBy(Holdings(a.root, Neurons)),
                          !.kept = Holdings(a.root, Neurons)]
  /\ UNCHANGED <<now, root, snap, nextId, lock, conts, world>>

\* The root canister fails or names other components.
ScanNotBegun(t) ==
  /\ act[t].pc = "list" /\ OwnsScan(t, act[t].root, NoScan)
  /\ CheckAt(now) /\ End(t)
  /\ UNCHANGED <<now, stable, conts, world, seen>>

\* StartScanResult::Stale, PageResult::Stale
ReplyIsStale(t) ==
  LET a == act[t] IN
  /\ \/ a.pc = "list" /\ ~OwnsScan(t, a.root, NoScan)
     \/ a.pc \in {"page", "answered"} /\ ~OwnsScan(t, a.scan.root, a.scan)
  /\ End(t)
  /\ UNCHANGED <<now, stable, timers, world, seen>>

\* The governance canister reads a page: at most PageSize neurons above the
\* cursor.
PageAnswered(t) ==
  LET a == act[t]
      above == {n \in Exists(a.scan.root) : n > a.scan.cursor}
      ns == {n \in above : Cardinality({m \in above : m < n}) < PageSize} IN
  /\ a.pc = "page"
  /\ act' = [act EXCEPT ![t] = [a EXCEPT !.pc = "answered",
                                  !.page = Holdings(a.scan.root, ns),
                                  !.ids = ns]]
  /\ UNCHANGED <<now, stable, lock, timers, world, seen>>

\* The call fails, or validate_page refuses what it returned.
PageFails(t) ==
  /\ act[t].pc = "page" /\ OwnsScan(t, act[t].scan.root, act[t].scan)
  /\ FailScan /\ End(t)
  /\ UNCHANGED <<now, root, snap, nextId, slots, last, starts, conts, world, seen>>

\* finish_page stores the owners of a page ...
Stored(a) == [slots EXCEPT ![a.scan.slot] = @ \cup HeldBy(a.page)]

\* ... that is not the last one: the scan goes on, unless it is too long,
PageContinues(t) ==
  LET a == act[t] IN
  /\ a.pc = "answered" /\ OwnsScan(t, a.scan.root, a.scan)
  /\ Cardinality(a.ids) = PageSize
  /\ slots' = Stored(a)
  /\ \/ /\ scan.pages + 1 < MaxPages
        /\ scan' = [scan EXCEPT !.pages = @ + 1, !.cursor = Max(a.ids)]
        /\ conts' = conts + 1 /\ UNCHANGED timer
     \/ /\ scan.pages + 1 = MaxPages /\ FailScan /\ UNCHANGED conts
  /\ End(t)
  /\ UNCHANGED <<now, root, snap, nextId, last, starts, world, seen>>

\* ... or that completes the scan: the staging slot becomes the active one.
ScanCompletes(t) ==
  LET a == act[t] IN
  /\ a.pc = "answered" /\ OwnsScan(t, a.scan.root, a.scan)
  /\ Cardinality(a.ids) < PageSize
  /\ slots' = Stored(a)
  /\ snap' = [id |-> nextId, slot |-> scan.slot, root |-> scan.root,
              started |-> scan.started, completed |-> a.asked]
  /\ nextId' = nextId + 1 /\ scan' = NoScan
  /\ CheckAt(last + Interval) /\ End(t)
  /\ seen' = [seen EXCEPT !.snapHeld = seen.held,
                          !.snapKept = HeldBy(seen.kept)]
  /\ UNCHANGED <<now, root, last, starts, conts, world>>

-----------------------------------------------------------------------------
(* The canister is upgraded; neurons change hands.                          *)

\* invalidate_for_root
Invalidate(r) ==
  /\ slots' = [s \in Slots |-> {}] /\ root' = r
  /\ snap' = NoSnap /\ scan' = NoScan /\ last' = 0 /\ UNCHANGED nextId

\* post_upgrade: timers and calls in flight are gone, the lease is free, a
\* scan that was under way stays; another root discards everything.
Upgrade(r) ==
  /\ upgrades < MaxUpgrades /\ upgrades' = upgrades + 1
  /\ act' = [t \in Ticks |-> Idle]
  /\ lock' = Unlocked /\ CheckAt(now) /\ conts' = 0
  /\ \/ r = root /\ UNCHANGED <<root, snap, nextId, scan, slots, last>>
     \/ r # root /\ Invalidate(r)
  /\ UNCHANGED <<now, starts, gov, changes, seen>>

NeuronChanges(r, n, k) ==
  LET o == OwnerForNeuron(k) IN
  /\ changes < MaxChanges /\ changes' = changes + 1
  /\ gov[r][n] # k /\ gov' = [gov EXCEPT ![r][n] = k]
  /\ seen' = IF scan # NoScan /\ scan.root = r
             THEN [seen EXCEPT !.held = @ \cup ({o} \ {NoOwner}),
                               !.kept = {h \in @ : h[1] # n \/ h[2] = o}]
             ELSE seen
  /\ UNCHANGED <<now, stable, lock, timers, act, upgrades>>

Advance ==
  /\ now < MaxTime /\ now' = now + 1
  /\ UNCHANGED <<stable, lock, timers, act, world, seen>>

-----------------------------------------------------------------------------
\* The canister is installed: init.
Init ==
  /\ now = 1 /\ root \in Roots \cup {NoRoot}
  /\ snap = NoSnap /\ nextId = 1 /\ scan = NoScan
  /\ slots = [s \in Slots |-> {}] /\ last = 0 /\ starts = 0
  /\ lock = Unlocked /\ timer = now /\ conts = 0
  /\ act = [t \in Ticks |-> Idle]
  /\ gov \in Starts
  /\ changes = 0 /\ upgrades = 0
  /\ seen = [held |-> {}, kept |-> {}, snapHeld |-> {}, snapKept |-> {}]

Next ==
  \/ \E t \in Ticks :
       \/ TimerFires(t) \/ ContinuationFires(t)
       \/ ScanBegins(t) \/ ScanNotBegun(t) \/ ReplyIsStale(t)
       \/ PageAnswered(t) \/ PageFails(t) \/ PageContinues(t)
       \/ ScanCompletes(t)
  \/ \E r \in Roots \cup {NoRoot} : Upgrade(r)
  \/ \E r \in Roots, n \in Neurons, k \in Kinds : NeuronChanges(r, n, k)
  \/ Advance

Spec == Init /\ [][Next]_vars

-----------------------------------------------------------------------------
(* Properties.                                                              *)

Activities ==
  [pc : {"idle", "list", "page", "answered"}, expiry : Nat,
   root : Roots \cup {NoRoot}, scan : Scans \cup {NoScan}, asked : Nat,
   page : SUBSET (Neurons \X Owners), ids : SUBSET Neurons]

\* The stable state of state.rs, the timers and the calls in flight.
TypeOK ==
  /\ now \in Nat /\ root \in Roots \cup {NoRoot}
  /\ snap \in Snaps \cup {NoSnap} /\ nextId \in Nat \ {0}
  /\ scan \in Scans \cup {NoScan} /\ slots \in [Slots -> SUBSET Owners]
  /\ last \in Nat /\ starts \in Nat /\ lock \in Nat
  /\ timer \in Nat \cup {NoTimer} /\ conts \in Nat
  /\ act \in [Ticks -> Activities]
  /\ gov \in [Roots -> [Neurons -> Kinds \cup {Absent}]]
  /\ changes \in Nat /\ upgrades \in Nat
  /\ seen \in [held : SUBSET Owners, kept : SUBSET (Neurons \X Owners),
              snapHeld : SUBSET Owners, snapKept : SUBSET Owners]

\* The directory that is answered is that of one whole scan: it holds every
\* principal that owned one and the same neuron from the start of the scan to
\* its end, and only principals that owned a neuron during it.  A page of an
\* earlier scan, a page read twice or left out, or a slot staged while it is
\* answered from breaks this.
SnapshotFaithful ==
  snap # NoSnap =>
    seen.snapKept \subseteq slots[snap.slot] /\ slots[snap.slot] \subseteq seen.snapHeld

\* The work never stops: a configured canister has a timer armed, a
\* continuation due or a tick under way that holds the lease; and a scan that
\* was begun is never left waiting for the next day's timer.
ScanMovesOn ==
  LET running == \E t \in Ticks : act[t] # Idle /\ act[t].expiry = lock IN
  /\ root # NoRoot => timer # NoTimer \/ conts > 0 \/ running
  /\ scan # NoScan => (timer # NoTimer /\ timer <= now) \/ conts > 0 \/ running

Directory == INSTANCE OwnerDirectory WITH
  dir    <- IF snap = NoSnap THEN NoDir
            ELSE [id |-> snap.id, root |-> snap.root,
                  owners |-> slots[snap.slot], started |-> snap.started,
                  completed |-> snap.completed],
  issued <- nextId - 1

\* The scan implements the directory: a snapshot that is answered never
\* changes, and an id is never used for a second one.
ImplementsDirectory == Directory!DirSpec
=============================================================================

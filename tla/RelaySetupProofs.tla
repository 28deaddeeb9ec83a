-------------------------- MODULE RelaySetupProofs --------------------------
(* Theorems about the Relay factory for every number of calls and setups,    *)
(* every price, lease and capacity.                                          *)
EXTENDS RelaySetup, FiniteSetTheorems, TLAPS

-----------------------------------------------------------------------------
(* The inductive invariant.                                                  *)

\* How far a creation has got, by the phase of its entry.
Unsent       == {"none"} \cup PreSpend
Unpaid       == Unsent \cup {"CmcTransferPrepared"}
Uncreated    == Unpaid \cup Paid
Childless    == Uncreated \cup {"CreateDispatched"}
Codeless     == Childless \cup {"ChildCreated"}
Unfunded     == Codeless \cup {"CodeInstalled"}

\* Requests of one kind on their way.
Sent(kind, k) == {r \in late : r.kind = kind /\ r.key = k}

\* What an entry e of setup k says of the world.
Fits(k, e) ==
  /\ e.tag = "none" => e.phase = "none"
  /\ e.phase \in Unsent => paid[k] = 0 /\ Sent("pay", k) = {}
  /\ e.phase \notin Unsent => e.tag # "none" /\ e.pay \in Transfers
  /\ e.phase \notin Unpaid => paid[k] = 1 /\ Sent("pay", k) = {}
  /\ e.phase \in Uncreated => created[k] = 0 /\ Sent("create", k) = {}
  /\ e.phase \notin Uncreated => minted[k] # 0
  /\ e.phase \notin Childless => created[k] = 1 /\ Sent("create", k) = {}
  /\ e.phase \notin Codeless => code[k]
  /\ e.phase \in Unfunded => funded[k] = 0 /\ Sent("fund", k) = {}
  /\ e.phase \notin Unfunded => e.fund \in Transfers
  /\ e.phase \in Funded => funded[k] = 1 /\ Sent("fund", k) = {}
  /\ e.phase # "FinalizationAttempted" => control[k] # "none" /\ Sent("settings", k) = {}
  /\ e.tag = "active" => control[k] = "none"

JournalInv == \A k \in Setup : Fits(k, entry[k])

\* An effect that happens at most once: n times so far, with the requests S
\* on their way.
Once(n, S) == n \in {0, 1} /\ (S # {} => n = 0) /\ \A r, s \in S : r = s

WorldInv ==
  \A k \in Setup :
    /\ Once(paid[k], Sent("pay", k)) /\ Once(created[k], Sent("create", k))
    /\ Once(funded[k], Sent("fund", k))
    /\ created[k] = 0 <=> control[k] = "nobody"
    /\ code[k] => created[k] = 1
    /\ minted[k] # 0 => paid[k] = 1

\* Between these awaits the entry belongs to the call.
Exclusive == {"pay", "create", "install", "reconcile", "fundQuote", "fund"}
PhaseOf(pc) == CASE pc = "pay"       -> "CmcTransferPrepared"
                 [] pc = "create"    -> "CreateDispatched"
                 [] pc = "install"   -> "ChildCreated"
                 [] pc = "reconcile" -> "ChildCreated"
                 [] pc = "fundQuote" -> "CodeInstalled"
                 [] pc = "fund"      -> "RelayFundingPrepared"

OwnerInv ==
  \A p \in Proc : act[p].pc \in Exclusive =>
    /\ InPhase(act[p].key, PhaseOf(act[p].pc))
    /\ \A q \in Proc : q # p /\ act[q].pc \in Exclusive => act[q].key # act[p].key

\* What an answer a says of an effect that happened n times, with S as above.
Answers(a, n, S) ==
  /\ a.reply \in {"none", "rejected"} => n = 0 /\ S = {}
  /\ a.reply = "ok" => n = 1

\* What call a knows of the world, and e is the entry of its setup.
Knows(a, e) ==
  /\ a.pc # "idle" => a.key \in Setup /\ a.token \in 1..tokens
  /\ a.pc = "pay" => Answers(a, paid[a.key], Sent("pay", a.key))
  /\ a.pc = "create" => Answers(a, created[a.key], Sent("create", a.key))
  /\ a.pc = "fund" => Answers(a, funded[a.key], Sent("fund", a.key))
  /\ a.pc = "install" /\ a.reply = "ok" => code[a.key]
  /\ a.pc = "reconcile" /\ a.reply \in {"pre", "final"} => code[a.key]
  /\ a.pc \in {"audit", "audit2"} /\ a.reply = "final" => control[a.key] = "none"
  /\ a.pc = "mint" => e.phase \notin Unpaid
  /\ a.pc = "settings" => e.phase = "FinalizationAttempted"
  /\ a.pc = "audit" => a.phase \in Funded
  /\ a.pc \in {"neuron", "probe"} => a.rate \in Rates

CallInv == \A p \in Proc : act[p].pc # "idle" => Knows(act[p], entry[act[p].key])

\* A ticket is of one call and one setup.
TicketInv ==
  /\ \A s, u \in slots : s.key = u.key \/ s.token = u.token => s = u
  /\ \A s \in slots : s.token <= tokens
  /\ \A p \in Proc : act[p].pc # "idle" =>
       /\ \A s \in slots : s.token = act[p].token => s.key = act[p].key
       /\ \A q \in Proc : q # p /\ act[q].pc # "idle" => act[q].token # act[p].token

\* Requests that move money say how much.
LateInv == \A r \in late : r.kind \in Bounded => r.tx \in Transfers

IInv == /\ TypeOK /\ JournalInv /\ WorldInv /\ OwnerInv /\ CallInv /\ TicketInv
        /\ LateInv /\ IsFiniteSet(Creating) /\ ReservationSafe

-----------------------------------------------------------------------------
(* Steps of a call.                                                          *)

OwnedPhases == {PhaseOf(pc) : pc \in Exclusive}

LEMMA PhaseNames ==
  /\ \A pc \in Exclusive : PhaseOf(pc) \in OwnedPhases
  /\ OwnedPhases = {"CmcTransferPrepared", "CreateDispatched", "ChildCreated",
                    "CodeInstalled", "RelayFundingPrepared"}
<1>1. /\ PhaseOf("pay") = "CmcTransferPrepared" /\ PhaseOf("create") = "CreateDispatched"
      /\ PhaseOf("install") = "ChildCreated" /\ PhaseOf("reconcile") = "ChildCreated"
      /\ PhaseOf("fundQuote") = "CodeInstalled" /\ PhaseOf("fund") = "RelayFundingPrepared"
  BY DEF PhaseOf
<1>2. \A pc \in Exclusive : PhaseOf(pc) \in OwnedPhases
  BY DEF OwnedPhases
<1>3. ASSUME NEW ph PROVE ph \in OwnedPhases <=>
        ph \in {"CmcTransferPrepared", "CreateDispatched", "ChildCreated",
                "CodeInstalled", "RelayFundingPrepared"}
  BY <1>1 DEF OwnedPhases, Exclusive
<1> QED
  BY <1>2, <1>3

LEMMA IdleTyped == Idle \in Calls /\ Idle.pc = "idle"
  BY DEF Idle, Calls

LEMMA NoEntryTyped ==
  /\ NoEntry \in Entries /\ NoEntry.tag = "none" /\ NoEntry.phase = "none"
  /\ Reservation \in Entries /\ Reservation.tag = "creating"
  /\ Reservation.phase = "Reserved"
<1>1. NoEntry \in Entries /\ NoEntry.tag = "none" /\ NoEntry.phase = "none"
  BY DEF NoEntry, Entries
<1>2. /\ Reservation \in Entries /\ Reservation.tag = "creating"
      /\ Reservation.phase = "Reserved"
  BY <1>1 DEF Reservation, Entries, Phases
<1> QED
  BY <1>1, <1>2

\* A call goes on or returns, and writes e for its setup k: what it may not do
\* is overtake a call that owns the entry or that has a live reservation.
LEMMA CallStep ==
  ASSUME IInv, NEW p \in Proc, NEW k \in Setup, act[p].pc # "idle", act[p].key = k,
         NEW e \in Entries, NEW a \in Calls,
         entry' = [entry EXCEPT ![k] = e], act' = [act EXCEPT ![p] = a],
         UNCHANGED <<now, cycles, tokens, win, world, late>>, broken' \in SUBSET Setup,
         slots' \subseteq slots,
         Fits(k, e),
         a.pc # "idle" => a.key = k /\ a.token = act[p].token /\ Knows(a, e),
         a.pc \in Exclusive => e.tag = "creating" /\ e.phase = PhaseOf(a.pc),
         a.pc = "neuron" => e.tag = "creating" /\ e.phase = "Reserved",
         a.pc = "probe" => e.tag = "creating" /\ e.phase = "ProbingTargets",
         entry[k].phase \notin Unpaid => e.phase \notin Unpaid,
         entry[k].phase = "FinalizationAttempted" => e.phase = "FinalizationAttempted",
         \/ act[p].pc \in Exclusive
         \/ entry[k].tag # "creating" \/ entry[k].phase \notin OwnedPhases
         \/ e = entry[k] /\ a.pc \notin Exclusive,
         entry[k].phase \notin PreSpend \/ e = entry[k] \/ OwnsSlot(p),
         e.tag = "creating" => k \in Creating \/ Cardinality(Creating) < MaxCreating
  PROVE  IInv'
<1>1. /\ TypeOK /\ JournalInv /\ WorldInv /\ OwnerInv /\ CallInv /\ TicketInv
      /\ LateInv /\ IsFiniteSet(Creating) /\ ReservationSafe
  BY DEF IInv
<1>2. /\ entry'[k] = e /\ (\A j \in Setup \ {k} : entry'[j] = entry[j])
      /\ entry' \in [Setup -> Entries]
  BY <1>1 DEF TypeOK
<1>3. /\ act'[p] = a /\ (\A q \in Proc \ {p} : act'[q] = act[q])
      /\ act' \in [Proc -> Calls]
  BY <1>1 DEF TypeOK
<1>4. /\ balance' = balance /\ paid' = paid /\ funded' = funded /\ minted' = minted
      /\ refused' = refused /\ created' = created /\ code' = code /\ control' = control
      /\ late' = late /\ now' = now /\ tokens' = tokens /\ win' = win /\ cycles' = cycles
  BY DEF world, ledger, cmc, children
<1>5. TypeOK'
  BY <1>1, <1>2, <1>3, <1>4 DEF TypeOK
<1>6. JournalInv'
  <2> SUFFICES ASSUME NEW j \in Setup PROVE Fits(j, entry[j])'
    BY DEF JournalInv
  <2>1. Fits(j, entry'[j])
    BY <1>1, <1>2 DEF JournalInv
  <2> QED
    BY <1>4, <2>1 DEF Fits, Sent
<1>7. WorldInv' /\ LateInv'
  BY <1>1, <1>4 DEF WorldInv, LateInv, Sent
<1>8. \A q \in Proc \ {p} : act[q].pc \in Exclusive /\ act[q].key = k =>
        e = entry[k] /\ a.pc \notin Exclusive
  <2> SUFFICES ASSUME NEW q \in Proc \ {p}, act[q].pc \in Exclusive, act[q].key = k
               PROVE  e = entry[k] /\ a.pc \notin Exclusive
    OBVIOUS
  <2>1. entry[k].tag = "creating" /\ entry[k].phase \in OwnedPhases
    BY <1>1, PhaseNames DEF OwnerInv, InPhase
  <2>2. act[p].pc \notin Exclusive
    BY <1>1 DEF OwnerInv
  <2> QED
    BY <2>1, <2>2
<1>9. \A q \in Proc : act[q].pc # "idle" => act[q].key \in Setup
  BY <1>1 DEF CallInv, Knows
<1>10. OwnerInv'
  <2> SUFFICES ASSUME NEW q \in Proc, act'[q].pc \in Exclusive
               PROVE  /\ InPhase(act[q].key, PhaseOf(act[q].pc))'
                      /\ \A u \in Proc : u # q /\ act'[u].pc \in Exclusive =>
                            act'[u].key # act'[q].key
    BY DEF OwnerInv
  <2>0. "idle" \notin Exclusive
    BY DEF Exclusive
  <2>1. CASE q = p
    <3>1. InPhase(act[q].key, PhaseOf(act[q].pc))'
      BY <1>2, <1>3, <2>0, <2>1 DEF InPhase, PhaseOf
    <3>2. \A u \in Proc : u # q /\ act'[u].pc \in Exclusive => act'[u].key # act'[q].key
      BY <1>3, <1>8, <2>0, <2>1
    <3> QED
      BY <3>1, <3>2
  <2>2. CASE q # p
    <3>1. act'[q] = act[q] /\ InPhase(act[q].key, PhaseOf(act[q].pc)) /\ act[q].key \in Setup
      BY <1>1, <1>3, <1>9, <2>0, <2>2 DEF OwnerInv
    <3>2. entry'[act[q].key] = entry[act[q].key]
      BY <1>2, <1>3, <1>8, <2>2, <3>1
    <3>3. InPhase(act[q].key, PhaseOf(act[q].pc))'
      BY <3>1, <3>2 DEF InPhase, PhaseOf
    <3>4. \A u \in Proc : u # q /\ act'[u].pc \in Exclusive => act'[u].key # act'[q].key
      <4>1. \A u \in Proc : u # q /\ u # p /\ act'[u].pc \in Exclusive => act'[u].key # act'[q].key
        BY <1>1, <1>3, <2>2, <3>1 DEF OwnerInv
      <4>2. a.pc \in Exclusive => a.key # act[q].key
        BY <1>3, <1>8, <2>0, <2>2, <3>1
      <4> QED
        BY <1>3, <3>1, <4>1, <4>2
    <3> QED
      BY <3>3, <3>4
  <2> QED
    BY <2>1, <2>2
<1>11. CallInv'
  <2> SUFFICES ASSUME NEW q \in Proc, act'[q].pc # "idle"
               PROVE  Knows(act[q], entry[act[q].key])'
    BY DEF CallInv
  <2>1. Knows(act'[q], entry'[act'[q].key])
    <3>1. CASE q = p
      BY <1>2, <1>3, <3>1
    <3>2. CASE q # p
      <4>1. act'[q] = act[q] /\ Knows(act[q], entry[act[q].key]) /\ act[q].key \in Setup
        BY <1>1, <1>3, <1>9, <3>2 DEF CallInv
      <4>2. CASE act[q].key # k
        BY <1>2, <4>1, <4>2
      <4>3. CASE act[q].key = k
        <5>1. entry'[act[q].key] = e
          BY <1>2, <4>3
        <5> QED
          BY <4>1, <4>3, <5>1 DEF Knows
      <4> QED
        BY <4>2, <4>3
    <3> QED
      BY <3>1, <3>2
  <2> QED
    BY <1>4, <2>1 DEF Knows, Answers, Sent
<1>12. TicketInv'
  <2>1. \A q \in Proc : act'[q].pc # "idle" => act[q].pc # "idle" /\ act'[q].token = act[q].token
                                             /\ act'[q].key = act[q].key
    BY <1>3
  <2>2. /\ \A s, u \in slots' : s.key = u.key \/ s.token = u.token => s = u
        /\ \A s \in slots' : s.token <= tokens'
    BY <1>1, <1>4 DEF TicketInv
  <2>3. ASSUME NEW q \in Proc, act'[q].pc # "idle"
        PROVE  /\ \A s \in slots' : s.token = act'[q].token => s.key = act'[q].key
               /\ \A u \in Proc : u # q /\ act'[u].pc # "idle" => act'[u].token # act'[q].token
    BY <1>1, <2>1, <2>3 DEF TicketInv
  <2> QED
    BY <2>2, <2>3 DEF TicketInv
<1>13. IsFiniteSet(Creating)' /\ Cardinality(Creating') <= MaxCreating
  <2>1. /\ Cardinality(Creating) \in Nat /\ Cardinality(Creating) <= MaxCreating
        /\ MaxCreating \in Nat
    BY <1>1, FS_CardinalityType, SizeAssumption DEF ReservationSafe
  <2>2. Creating' \subseteq Creating \cup {k}
    BY <1>2 DEF Creating
  <2>3. CASE Creating' \subseteq Creating
    <3>1. IsFiniteSet(Creating') /\ Cardinality(Creating') <= Cardinality(Creating)
          /\ Cardinality(Creating') \in Nat
      BY <1>1, <2>3, FS_Subset, FS_CardinalityType
    <3> QED
      BY <2>1, <3>1
  <2>4. CASE k \in Creating' /\ k \notin Creating
    <3>1. e.tag = "creating" /\ Cardinality(Creating) < MaxCreating
      BY <1>2, <2>4 DEF Creating
    <3>2. IsFiniteSet(Creating \cup {k}) /\ Cardinality(Creating \cup {k}) = Cardinality(Creating) + 1
      BY <1>1, <2>4, FS_AddElement
    <3>3. IsFiniteSet(Creating') /\ Cardinality(Creating') <= Cardinality(Creating \cup {k})
          /\ Cardinality(Creating') \in Nat
      BY <2>2, <3>2, FS_Subset, FS_CardinalityType
    <3> QED
      BY <2>1, <3>1, <3>2, <3>3
  <2> QED
    BY <2>2, <2>3, <2>4
<1>14. ReservationSafe'
  <2>1. ASSUME NEW q \in Proc, Live(q)'
        PROVE  /\ act'[q].pc = "neuron" => InPhase(act[q].key, "Reserved")'
               /\ act'[q].pc = "probe" => InPhase(act[q].key, "ProbingTargets")'
    <3>1. CASE q = p
      BY <1>2, <1>3, <3>1 DEF InPhase
    <3>2. CASE q # p /\ act'[q].pc \in {"neuron", "probe"}
      <4>1. act'[q] = act[q] /\ act[q].pc # "idle" /\ act[q].key \in Setup
        BY <1>3, <1>9, <3>2
      <4>2. PICK s \in slots : s.expires > now /\ s.token = act[q].token
        BY <1>4, <2>1, <4>1 DEF Live, LiveSlots
      <4>3. Live(q) /\ s.key = act[q].key
        BY <1>1, <4>1, <4>2 DEF Live, LiveSlots, TicketInv
      <4>4. /\ act[q].pc = "neuron" => InPhase(act[q].key, "Reserved")
            /\ act[q].pc = "probe" => InPhase(act[q].key, "ProbingTargets")
        BY <1>1, <4>3 DEF ReservationSafe
      <4>5. entry'[act[q].key] = entry[act[q].key]
        <5>1. ASSUME act[q].key = k PROVE e = entry[k]
          <6>1. entry[k].phase \in PreSpend
            BY <3>2, <4>1, <4>4, <5>1 DEF InPhase, PreSpend
          <6>2. ~OwnsSlot(p)
            <7> SUFFICES ASSUME NEW z \in slots, z.token = act[p].token PROVE FALSE
              BY DEF OwnsSlot
            <7>1. z.key = k /\ z = s
              BY <1>1, <4>3, <5>1 DEF TicketInv
            <7> QED
              BY <1>1, <3>2, <4>1, <4>2, <7>1 DEF TicketInv
          <6> QED
            BY <6>1, <6>2
        <5> QED
          BY <1>2, <4>1, <5>1
      <4> QED
        BY <4>1, <4>4, <4>5 DEF InPhase
    <3> QED
      BY <3>1, <3>2
  <2> QED
    BY <1>13, <2>1 DEF ReservationSafe
<1> QED
  BY <1>5, <1>6, <1>7, <1>10, <1>11, <1>12, <1>13, <1>14 DEF IInv

\* What is known where a call resumes.
LEMMA CallFacts ==
  ASSUME IInv, NEW p \in Proc, act[p].pc # "idle"
  PROVE  /\ act[p].key \in Setup /\ entry[act[p].key] \in Entries /\ act[p] \in Calls
         /\ Fits(act[p].key, entry[act[p].key]) /\ Knows(act[p], entry[act[p].key])
         /\ act[p].pc \in Exclusive => InPhase(act[p].key, PhaseOf(act[p].pc))
<1>1. TypeOK /\ JournalInv /\ OwnerInv /\ CallInv
  BY DEF IInv
<1>2. Knows(act[p], entry[act[p].key])
  BY <1>1 DEF CallInv
<1>3. act[p].key \in Setup
  BY <1>2 DEF Knows
<1> QED
  BY <1>1, <1>2, <1>3 DEF TypeOK, JournalInv, OwnerInv

\* The call returns, and the entry is as it was.
LEMMA ReturnKeeps ==
  ASSUME IInv, NEW p \in Proc, act[p].pc # "idle", End(p),
         UNCHANGED <<now, journal, world, late, broken>>
  PROVE  IInv'
<1> DEFINE k == act[p].key
           e == entry[k]
<1>1. /\ k \in Setup /\ e \in Entries /\ Fits(k, e) /\ TypeOK
  BY CallFacts DEF IInv
<1>2. entry' = [entry EXCEPT ![k] = e] /\ cycles' = cycles /\ broken' \in SUBSET Setup
  BY <1>1 DEF journal, TypeOK
<1>3. /\ act' = [act EXCEPT ![p] = Idle] /\ slots' \subseteq slots /\ UNCHANGED <<tokens, win>>
  BY DEF End
<1>4. Idle \in Calls /\ Idle.pc = "idle" /\ "idle" \notin Exclusive
  BY IdleTyped DEF Exclusive
<1>5. e.tag = "creating" => k \in Creating
  BY <1>1 DEF Creating
<1> HIDE DEF k, e
<1>6. act[p].key = k /\ entry[k] = e
  BY DEF k, e
<1>7. UNCHANGED <<now, cycles, tokens, win, world, late>>
  BY <1>2, <1>3
<1> QED
  BY <1>1, <1>2, <1>3, <1>4, <1>5, <1>6, <1>7, CallStep

\* The call that owns the entry, or one whose phase nobody owns, writes e.
Turn(p, e) ==
  LET k == act[p].key IN
  /\ entry[k].tag = "creating" /\ entry[k].phase \notin PreSpend
  /\ act[p].pc \in Exclusive \/ entry[k].phase \notin OwnedPhases
  /\ e \in Entries /\ Fits(k, e)
  /\ entry[k].phase \notin Unpaid => e.phase \notin Unpaid
  /\ entry[k].phase = "FinalizationAttempted" => e.phase = "FinalizationAttempted"

LEMMA WriteAndReturn ==
  ASSUME IInv, NEW p \in Proc, act[p].pc # "idle", NEW e, Turn(p, e),
         Put(act[p].key, e), End(p), UNCHANGED <<now, world, late>>,
         broken' \in SUBSET Setup
  PROVE  IInv'
<1> DEFINE k == act[p].key
<1>1. /\ k \in Setup
  BY CallFacts
<1>2. /\ entry' = [entry EXCEPT ![k] = e] /\ act' = [act EXCEPT ![p] = Idle]
      /\ slots' \subseteq slots /\ UNCHANGED <<now, cycles, tokens, win, world, late>>
  BY DEF Put, End
<1>3. Idle \in Calls /\ Idle.pc = "idle" /\ "idle" \notin Exclusive
  BY IdleTyped DEF Exclusive
<1>4. k \in Creating
  BY <1>1 DEF Creating, Turn
<1>5. /\ entry[k].phase \notin PreSpend
      /\ act[p].pc \in Exclusive \/ entry[k].phase \notin OwnedPhases
      /\ e \in Entries /\ Fits(k, e)
      /\ entry[k].phase \notin Unpaid => e.phase \notin Unpaid
      /\ entry[k].phase = "FinalizationAttempted" => e.phase = "FinalizationAttempted"
  BY DEF Turn
<1>6. act[p].key = k
  OBVIOUS
<1> HIDE DEF k
<1> QED
  BY <1>1, <1>2, <1>3, <1>4, <1>5, <1>6, CallStep

LEMMA WriteAndGoOn ==
  ASSUME IInv, NEW p \in Proc, act[p].pc # "idle", NEW e, Turn(p, e), NEW a \in Calls,
         Put(act[p].key, e), Await(p, a), UNCHANGED <<now, world, late>>,
         broken' \in SUBSET Setup,
         a.key = act[p].key, a.token = act[p].token, a.pc \notin {"idle", "neuron", "probe"},
         Knows(a, e), a.pc \in Exclusive => e.tag = "creating" /\ e.phase = PhaseOf(a.pc)
  PROVE  IInv'
<1> DEFINE k == act[p].key
<1>1. /\ k \in Setup
  BY CallFacts
<1>2. /\ entry' = [entry EXCEPT ![k] = e] /\ act' = [act EXCEPT ![p] = a]
      /\ slots' \subseteq slots /\ UNCHANGED <<now, cycles, tokens, win, world, late>>
  BY DEF Put, Await, admission
<1>4. k \in Creating
  BY <1>1 DEF Creating, Turn
<1>5. /\ entry[k].phase \notin PreSpend
      /\ act[p].pc \in Exclusive \/ entry[k].phase \notin OwnedPhases
      /\ e \in Entries /\ Fits(k, e)
      /\ entry[k].phase \notin Unpaid => e.phase \notin Unpaid
      /\ entry[k].phase = "FinalizationAttempted" => e.phase = "FinalizationAttempted"
  BY DEF Turn
<1>6. act[p].key = k
  OBVIOUS
<1> HIDE DEF k
<1> QED
  BY <1>1, <1>2, <1>4, <1>5, <1>6, CallStep

\* An entry given up keeps what it says of the world.
LEMMA RecoveredFits ==
  ASSUME NEW k, NEW e \in Entries, Fits(k, e)
  PROVE  /\ Recovered(e) \in Entries /\ Fits(k, Recovered(e))
         /\ Recovered(e).phase = e.phase /\ Recovered(e).tag = "manual"
<1>1. /\ Recovered(e) \in Entries /\ Recovered(e).phase = e.phase
      /\ Recovered(e).tag = "manual" /\ Recovered(e).pay = e.pay /\ Recovered(e).fund = e.fund
  BY DEF Recovered, Entries
<1>2. Fits(k, Recovered(e))
  BY <1>1 DEF Fits
<1> QED
  BY <1>1, <1>2

\* manual_recovery, whether or not a promise was broken.
LEMMA GiveUpKeeps ==
  ASSUME IInv, NEW p \in Proc, act[p].pc # "idle", NEW e, Turn(p, e),
         GiveUp(p, e) \/ Break(p, e)
  PROVE  IInv'
<1>1. /\ Put(act[p].key, Recovered(e)) /\ End(p) /\ UNCHANGED <<now, world, late>>
  BY DEF GiveUp, Break
<1>2. broken' \in SUBSET Setup
  BY CallFacts DEF GiveUp, Break, IInv, TypeOK
<1>3. Turn(p, Recovered(e))
  BY RecoveredFits DEF Turn
<1> QED
  BY <1>1, <1>2, <1>3, WriteAndReturn

\* The call goes on, and the entry is as it was.
LEMMA GoOn ==
  ASSUME IInv, NEW p \in Proc, act[p].pc # "idle", NEW a \in Calls, Await(p, a),
         UNCHANGED <<now, journal, world, late, broken>>,
         a.key = act[p].key, a.token = act[p].token,
         a.pc \notin {"idle", "neuron", "probe"}, a.pc \notin Exclusive,
         Knows(a, entry[act[p].key])
  PROVE  IInv'
<1> DEFINE k == act[p].key
           e == entry[k]
<1>1. /\ k \in Setup /\ e \in Entries /\ Fits(k, e) /\ TypeOK
  BY CallFacts DEF IInv
<1>2. entry' = [entry EXCEPT ![k] = e] /\ cycles' = cycles /\ broken' \in SUBSET Setup
  BY <1>1 DEF journal, TypeOK
<1>3. /\ act' = [act EXCEPT ![p] = a] /\ slots' \subseteq slots /\ UNCHANGED <<tokens, win>>
  BY DEF Await, admission
<1>4. e.tag = "creating" => k \in Creating
  BY <1>1 DEF Creating
<1> HIDE DEF k, e
<1>5. act[p].key = k /\ entry[k] = e
  BY DEF k, e
<1>6. UNCHANGED <<now, cycles, tokens, win, world, late>>
  BY <1>2, <1>3
<1> QED
  BY <1>1, <1>2, <1>3, <1>4, <1>5, <1>6, CallStep

\* Before the payment: the call that has the ticket of its setup writes e.
LEMMA TicketStep ==
  ASSUME IInv, NEW p \in Proc, act[p].pc # "idle", NEW e \in Entries, NEW a \in Calls,
         Put(act[p].key, e), act' = [act EXCEPT ![p] = a],
         UNCHANGED <<now, tokens, win, world, late, broken>>, slots' \subseteq slots,
         \/ entry[act[p].key].phase \in PreSpend /\ OwnsSlot(p) /\ act[p].key \in Creating
         \/ entry[act[p].key] = NoEntry /\ Cardinality(Creating) < MaxCreating,
         Fits(act[p].key, e),
         a.pc # "idle" => a.key = act[p].key /\ a.token = act[p].token /\ Knows(a, e),
         a.pc \in Exclusive => e.tag = "creating" /\ e.phase = PhaseOf(a.pc),
         a.pc = "neuron" => e.tag = "creating" /\ e.phase = "Reserved",
         a.pc = "probe" => e.tag = "creating" /\ e.phase = "ProbingTargets"
  PROVE  IInv'
<1> DEFINE k == act[p].key
<1>1. k \in Setup /\ broken' \in SUBSET Setup
  BY CallFacts DEF IInv, TypeOK
<1>2. /\ entry' = [entry EXCEPT ![k] = e]
      /\ UNCHANGED <<now, cycles, tokens, win, world, late>>
  BY DEF Put
<1>3. /\ entry[k].phase \in Unpaid /\ entry[k].phase # "FinalizationAttempted"
      /\ entry[k].phase \notin OwnedPhases
      /\ entry[k].phase \notin PreSpend \/ OwnsSlot(p)
      /\ k \in Creating \/ Cardinality(Creating) < MaxCreating
  BY PhaseNames, NoEntryTyped DEF Unpaid, Unsent, PreSpend
<1>4. act[p].key = k
  OBVIOUS
<1> HIDE DEF k
<1> QED
  BY <1>1, <1>2, <1>3, <1>4, CallStep

-----------------------------------------------------------------------------
(* The answers.                                                              *)

LEMMA BalanceReplyKeeps ==
  ASSUME IInv, NEW p \in Proc, BalanceReply(p)
  PROVE  IInv'
<1>1. act[p].pc = "balance" /\ act[p].pc # "idle"
  BY DEF BalanceReply, Step
<1>2. CASE Return(p)
  BY <1>1, <1>2, ReturnKeeps DEF Return
<1>3. CASE /\ Await(p, [act[p] EXCEPT !.pc = "quote", !.bal = balance[act[p].key]])
           /\ UNCHANGED <<now, journal, world, late, broken>>
  <2> DEFINE a == [act[p] EXCEPT !.pc = "quote", !.bal = balance[act[p].key]]
  <2>1. /\ act[p].key \in Setup /\ act[p] \in Calls /\ Knows(act[p], entry[act[p].key])
        /\ balance[act[p].key] \in Nat
    BY <1>1, CallFacts DEF IInv, TypeOK
  <2>2. /\ a \in Calls /\ a.pc = "quote" /\ a.key = act[p].key /\ a.token = act[p].token
    BY <2>1 DEF Calls
  <2> HIDE DEF a
  <2>3. Knows(a, entry[act[p].key])
    BY <1>1, <2>1, <2>2 DEF Knows
  <2>4. a.pc \notin Exclusive
    BY <2>2 DEF Exclusive
  <2> QED
    BY <1>1, <1>3, <2>2, <2>3, <2>4, GoOn DEF a
<1> QED
  BY <1>2, <1>3 DEF BalanceReply

LEMMA QuoteReplyKeeps ==
  ASSUME IInv, NEW p \in Proc, QuoteReply(p)
  PROVE  IInv'
<1> DEFINE k == act[p].key
<1>1. act[p].pc = "quote" /\ act[p].pc # "idle"
  BY DEF QuoteReply, Step
<1>2. CASE Return(p)
  BY <1>1, <1>2, ReturnKeeps DEF Return
<1>3. ASSUME NEW fee \in Fees, NEW rate \in Rates, MayReserve(k), Put(k, Reservation),
             Await(p, [act[p] EXCEPT !.pc = "neuron", !.fee = fee, !.rate = rate]),
             UNCHANGED <<now, world, late, broken>>
      PROVE  IInv'
  <2> DEFINE a == [act[p] EXCEPT !.pc = "neuron", !.fee = fee, !.rate = rate]
  <2>1. /\ k \in Setup /\ act[p] \in Calls /\ Knows(act[p], entry[k]) /\ Fits(k, entry[k])
        /\ fee \in Nat /\ rate \in Nat
    BY <1>1, CallFacts, PriceAssumption
  <2>2. /\ a \in Calls /\ a.pc = "neuron" /\ a.key = act[p].key /\ a.token = act[p].token
        /\ a.rate = rate
    BY <2>1 DEF Calls
  <2> HIDE DEF a
  <2>3. Knows(a, Reservation)
    BY <1>1, <1>3, <2>1, <2>2 DEF Knows
  <2>4. Fits(k, Reservation)
    BY <1>3, <2>1, NoEntryTyped DEF Fits, MayReserve, Unsent, Unpaid, Uncreated, Childless,
                                    Codeless, Unfunded, PreSpend, Paid, Funded
  <2>5. act' = [act EXCEPT ![p] = a] /\ UNCHANGED <<slots, tokens, win>>
    BY <1>3 DEF Await, admission, a
  <2>6. a.pc \notin Exclusive
    BY <2>2 DEF Exclusive
  <2> QED
    BY <1>1, <1>3, <2>2, <2>3, <2>4, <2>5, <2>6, TicketStep, NoEntryTyped DEF MayReserve
<1> QED
  BY <1>2, <1>3 DEF QuoteReply

\* remove_owned_reservation
LEMMA ReleaseKeeps ==
  ASSUME IInv, NEW p \in Proc, act[p].pc # "idle", NEW ph \in PreSpend, Release(p, ph)
  PROVE  IInv'
<1> DEFINE k == act[p].key
<1>1. /\ k \in Setup /\ Fits(k, entry[k]) /\ End(p) /\ UNCHANGED <<now, world, late, broken>>
  BY CallFacts DEF Release
<1>2. CASE InPhase(k, ph) /\ OwnsReservation(p)
  <2>1. /\ Put(k, NoEntry) /\ entry[k].phase \in PreSpend /\ k \in Creating /\ OwnsSlot(p)
    BY <1>1, <1>2 DEF Release, InPhase, Creating, OwnsReservation
  <2>2. Fits(k, NoEntry)
    BY <1>1, <2>1, NoEntryTyped DEF Fits, Unsent, Unpaid, Uncreated, Childless,
                                    Codeless, Unfunded, PreSpend, Paid, Funded
  <2>3. /\ act' = [act EXCEPT ![p] = Idle] /\ slots' \subseteq slots /\ UNCHANGED <<tokens, win>>
    BY <1>1 DEF End
  <2> QED
    BY <1>1, <2>1, <2>2, <2>3, TicketStep, NoEntryTyped, IdleTyped DEF Exclusive
<1>3. CASE ~(InPhase(k, ph) /\ OwnsReservation(p))
  BY <1>1, <1>3, ReturnKeeps DEF Release
<1> QED
  BY <1>2, <1>3

LEMMA NeuronReplyKeeps ==
  ASSUME IInv, NEW p \in Proc, NeuronReply(p)
  PROVE  IInv'
<1> DEFINE k == act[p].key
           e == [entry[k] EXCEPT !.phase = "ProbingTargets"]
           a == [act[p] EXCEPT !.pc = "probe", !.reply = "none"]
<1>1. act[p].pc = "neuron" /\ act[p].pc # "idle"
  BY DEF NeuronReply, Step
<1>2. CASE Release(p, "Reserved")
  BY <1>1, <1>2, ReleaseKeeps DEF PreSpend
<1>3. CASE /\ Live(p) /\ InPhase(k, "Reserved") /\ Put(k, e) /\ To(p, "probe")
           /\ UNCHANGED <<now, world, late, broken>>
  <2>1. /\ k \in Setup /\ act[p] \in Calls /\ Knows(act[p], entry[k]) /\ Fits(k, entry[k])
        /\ entry[k] \in Entries
    BY <1>1, CallFacts
  <2>2. /\ e \in Entries /\ e.tag = "creating" /\ e.phase = "ProbingTargets"
        /\ e.pay = entry[k].pay /\ e.fund = entry[k].fund
    BY <1>3, <2>1 DEF Entries, Phases, InPhase
  <2>3. /\ a \in Calls /\ a.pc = "probe" /\ a.key = k /\ a.token = act[p].token
        /\ a.rate = act[p].rate
    BY <2>1 DEF Calls
  <2>4. act' = [act EXCEPT ![p] = a] /\ UNCHANGED <<slots, tokens, win>>
    BY <1>3 DEF To, Await, admission
  <2> HIDE DEF a, e
  <2>5. Knows(a, e)
    BY <1>1, <2>1, <2>3 DEF Knows
  <2>6. Fits(k, e)
    BY <1>3, <2>1, <2>2 DEF Fits, InPhase, Unsent, Unpaid, Uncreated, Childless,
                            Codeless, Unfunded, PreSpend, Paid, Funded
  <2>7. entry[k].phase \in PreSpend /\ OwnsSlot(p) /\ k \in Creating
    BY <1>3, <2>1 DEF InPhase, PreSpend, Creating, OwnsSlot, Live, LiveSlots
  <2> QED
    BY <1>1, <1>3, <2>2, <2>3, <2>4, <2>5, <2>6, <2>7, TicketStep DEF Exclusive
<1> QED
  BY <1>2, <1>3 DEF NeuronReply

LEMMA ProbeReplyKeeps ==
  ASSUME IInv, NEW p \in Proc, ProbeReply(p)
  PROVE  IInv'
<1> DEFINE k == act[p].key
           x == Transfer(CmcConversion(act[p].rate), act[p].fee)
           e == [entry[k] EXCEPT !.phase = "CmcTransferPrepared", !.pay = x]
           a == [act[p] EXCEPT !.pc = "pay", !.reply = "none"]
<1>1. act[p].pc = "probe" /\ act[p].pc # "idle"
  BY DEF ProbeReply, Step
<1>2. CASE Release(p, "ProbingTargets")
  BY <1>1, <1>2, ReleaseKeeps DEF PreSpend
<1>3. CASE /\ Live(p) /\ InPhase(k, "ProbingTargets") /\ Put(k, e) /\ To(p, "pay")
           /\ UNCHANGED <<now, world, late, broken>>
  <2>1. /\ k \in Setup /\ act[p] \in Calls /\ Knows(act[p], entry[k]) /\ Fits(k, entry[k])
        /\ entry[k] \in Entries
    BY <1>1, CallFacts
  <2>2. x \in Transfers
    <3>1. cycles \in Nat /\ act[p].rate \in Nat \ {0} /\ Margin \in Nat /\ act[p].fee \in Nat
      BY <1>1, <2>1, PriceAssumption DEF IInv, TypeOK, Knows, Calls
    <3>2. CmcConversion(act[p].rate) \in Int
      BY <3>1 DEF CmcConversion, CeilDiv
    <3> QED
      BY <3>1, <3>2 DEF Transfer, Transfers
  <2> HIDE DEF x
  <2>3. /\ e \in Entries /\ e.tag = "creating" /\ e.phase = "CmcTransferPrepared"
        /\ e.pay = x /\ e.fund = entry[k].fund
    BY <1>3, <2>1, <2>2 DEF Entries, Phases, InPhase
  <2>4. /\ a \in Calls /\ a.pc = "pay" /\ a.key = k /\ a.token = act[p].token
        /\ a.reply = "none"
    BY <2>1 DEF Calls, Acting
  <2>5. act' = [act EXCEPT ![p] = a] /\ UNCHANGED <<slots, tokens, win>>
    BY <1>3 DEF To, Await, admission
  <2> HIDE DEF a, e
  <2>6. paid[k] = 0 /\ Sent("pay", k) = {}
    BY <1>3, <2>1 DEF Fits, InPhase, Unsent, PreSpend
  <2>7. Knows(a, e)
    BY <1>1, <2>1, <2>4, <2>6 DEF Knows, Answers
  <2>8. Fits(k, e)
    BY <1>3, <2>1, <2>2, <2>3 DEF Fits, InPhase, Unsent, Unpaid, Uncreated, Childless,
                            Codeless, Unfunded, PreSpend, Paid, Funded
  <2>9. entry[k].phase \in PreSpend /\ OwnsSlot(p) /\ k \in Creating
    BY <1>3, <2>1 DEF InPhase, PreSpend, Creating, OwnsSlot, Live, LiveSlots
  <2>10. PhaseOf(a.pc) = "CmcTransferPrepared"
    BY <2>4 DEF PhaseOf
  <2> QED
    BY <1>1, <1>3, <2>3, <2>4, <2>5, <2>7, <2>8, <2>9, <2>10, TicketStep
<1> QED
  BY <1>2, <1>3 DEF ProbeReply

\* From the payment on a call is dispatched once its phase is recorded.
LEMMA AdvanceKeeps ==
  ASSUME IInv, NEW p \in Proc, act[p].pc # "idle", NEW e, Turn(p, e),
         NEW pc \in {"mint", "create", "install", "reconcile", "fundQuote", "fund"},
         Advance(p, e, pc),
         pc = "mint" => e.phase \notin Unpaid,
         pc # "mint" => e.tag = "creating" /\ e.phase = PhaseOf(pc),
         pc = "create" => created[act[p].key] = 0 /\ Sent("create", act[p].key) = {},
         pc = "fund" => funded[act[p].key] = 0 /\ Sent("fund", act[p].key) = {}
  PROVE  IInv'
<1> DEFINE a == [act[p] EXCEPT !.pc = pc, !.reply = "none"]
<1>1. /\ act[p].key \in Setup /\ act[p] \in Calls /\ Knows(act[p], entry[act[p].key])
  BY CallFacts
<1>2. /\ a \in Calls /\ a.pc = pc /\ a.key = act[p].key /\ a.token = act[p].token
      /\ a.reply = "none"
  BY <1>1 DEF Calls, Acting, Asking
<1>3. Put(act[p].key, e) /\ Await(p, a) /\ UNCHANGED <<now, world, late, broken>>
  BY DEF Advance, To
<1> HIDE DEF a
<1>4. Knows(a, e)
  BY <1>1, <1>2 DEF Knows, Answers
<1>5. broken' \in SUBSET Setup
  BY <1>3 DEF IInv, TypeOK
<1>6. /\ a.pc \notin {"idle", "neuron", "probe"}
      /\ a.pc \in Exclusive => e.tag = "creating" /\ e.phase = PhaseOf(a.pc)
  BY <1>2 DEF Exclusive
<1> QED
  BY <1>2, <1>3, <1>4, <1>5, <1>6, WriteAndGoOn

LEMMA PayReplyKeeps ==
  ASSUME IInv, NEW p \in Proc, PayReply(p)
  PROVE  IInv'
<1> DEFINE k == act[p].key
<1>1. act[p].pc = "pay" /\ act[p].pc # "idle" /\ "pay" \in Exclusive
  BY DEF PayReply, Fenced, Step, Exclusive
<1>2. CASE Fenced(p, "pay", "CmcTransferPrepared")
  BY <1>1, <1>2, ReturnKeeps DEF Fenced, Return
<1>3. /\ k \in Setup /\ act[p] \in Calls /\ Knows(act[p], entry[k]) /\ Fits(k, entry[k])
      /\ entry[k] \in Entries /\ WorldInv
  BY <1>1, CallFacts DEF IInv
<1>4. CASE InPhase(k, "CmcTransferPrepared")
  <2>1. Answers(act[p], paid[k], Sent("pay", k)) /\ Once(paid[k], Sent("pay", k))
    BY <1>1, <1>3 DEF Knows, WorldInv
  <2>2. entry[k].tag = "creating" /\ entry[k].phase = "CmcTransferPrepared"
    BY <1>4 DEF InPhase
  <2>3. CASE act[p].reply = "unknown" /\ GiveUp(p, entry[k])
    <3>1. Turn(p, entry[k])
      BY <1>1, <1>3, <2>2 DEF Turn, PreSpend
    <3> QED
      BY <1>1, <2>3, <3>1, GiveUpKeeps
  <2>4. CASE /\ act[p].reply = "rejected" /\ Put(k, NoEntry) /\ End(p)
             /\ UNCHANGED <<now, world, late, broken>>
    <3>1. paid[k] = 0 /\ Sent("pay", k) = {}
      BY <2>1, <2>4 DEF Answers
    <3>2. Fits(k, NoEntry)
      BY <1>3, <2>2, <3>1, NoEntryTyped DEF Fits, InPhase, Unsent, Unpaid, Uncreated, Childless,
                            Codeless, Unfunded, PreSpend, Paid, Funded
    <3>3. Turn(p, NoEntry)
      BY <1>1, <2>2, <3>2, NoEntryTyped DEF Turn, PreSpend, Unpaid
    <3>4. broken' \in SUBSET Setup
      BY <2>4 DEF IInv, TypeOK
    <3> QED
      BY <1>1, <2>4, <3>3, <3>4, WriteAndReturn
  <2>5. CASE /\ act[p].reply = "ok"
             /\ Advance(p, [entry[k] EXCEPT !.phase = "CmcTransferAccepted",
                                            !.pay.accepted = TRUE], "mint")
    <3> DEFINE e == [entry[k] EXCEPT !.phase = "CmcTransferAccepted", !.pay.accepted = TRUE]
    <3>1. paid[k] = 1 /\ Sent("pay", k) = {}
      BY <2>1, <2>5 DEF Answers, Once
    <3>2. entry[k].pay \in Transfers
      BY <1>3, <2>2 DEF Fits, InPhase, Unsent, Unpaid, Uncreated, Childless,
                            Codeless, Unfunded, PreSpend, Paid, Funded
    <3>3. /\ e \in Entries /\ e.tag = "creating" /\ e.phase = "CmcTransferAccepted"
          /\ e.pay \in Transfers /\ e.fund = entry[k].fund
      BY <1>3, <2>2, <3>2 DEF Entries, Phases, Transfers
    <3> HIDE DEF e
    <3>4. Fits(k, e)
      BY <1>3, <2>2, <3>1, <3>3 DEF Fits, InPhase, Unsent, Unpaid, Uncreated, Childless,
                            Codeless, Unfunded, PreSpend, Paid, Funded
    <3>5. Turn(p, e) /\ e.phase \notin Unpaid
      BY <1>1, <2>2, <3>3, <3>4 DEF Turn, PreSpend, Unpaid, Unsent
    <3> QED
      BY <1>1, <2>5, <3>5, AdvanceKeeps DEF e
  <2> QED
    BY <1>1, <1>4, <2>3, <2>4, <2>5 DEF PayReply, Fenced
<1> QED
  BY <1>2, <1>4 DEF PayReply

LEMMA MintReplyKeeps ==
  ASSUME IInv, NEW p \in Proc, MintReply(p)
  PROVE  IInv'
<1> DEFINE k == act[p].key
           f == [entry[k] EXCEPT !.minted = minted[k]]
<1>1. act[p].pc = "mint" /\ act[p].pc # "idle"
  BY DEF MintReply, Fenced, Step
<1>2. CASE Return(p)
  BY <1>1, <1>2, ReturnKeeps DEF Return
<1>3. /\ k \in Setup /\ Fits(k, entry[k]) /\ entry[k] \in Entries /\ minted[k] \in Int
      /\ cycles \in Nat \ {0}
  BY <1>1, CallFacts, PriceAssumption DEF IInv, TypeOK
<1>4. CASE InPhase(k, "CmcTransferAccepted")
  <2>1. entry[k].tag = "creating" /\ entry[k].phase = "CmcTransferAccepted"
    BY <1>4 DEF InPhase
  <2>2. /\ f \in Entries /\ f.tag = "creating" /\ f.phase = "CmcTransferAccepted"
        /\ f.pay = entry[k].pay /\ f.fund = entry[k].fund /\ f.minted = minted[k]
    BY <1>3, <2>1 DEF Entries
  <2> HIDE DEF f
  <2>3. Fits(k, f)
    BY <1>3, <2>1, <2>2 DEF Fits, InPhase, Unsent, Unpaid, Uncreated, Childless,
                            Codeless, Unfunded, PreSpend, Paid, Funded
  <2>4. entry[k].phase \notin OwnedPhases
    BY <2>1, PhaseNames
  <2>5. CASE GiveUp(p, entry[k])
    <3>1. Turn(p, entry[k])
      BY <1>1, <1>3, <2>1, <2>4 DEF Turn, PreSpend
    <3> QED
      BY <1>1, <2>5, <3>1, GiveUpKeeps
  <2>6. CASE Break(p, f)
    <3>1. Turn(p, f)
      BY <1>1, <2>1, <2>2, <2>3, <2>4 DEF Turn, PreSpend
    <3> QED
      BY <1>1, <2>6, <3>1, GiveUpKeeps
  <2>7. CASE MayCreate(f) /\ Advance(p, [f EXCEPT !.phase = "CreateDispatched"], "create")
    <3> DEFINE e == [f EXCEPT !.phase = "CreateDispatched"]
    <3>1. /\ e \in Entries /\ e.tag = "creating" /\ e.phase = "CreateDispatched"
          /\ e.pay = f.pay /\ e.fund = f.fund
      BY <2>2 DEF Entries, Phases
    <3> HIDE DEF e
    <3>2. minted[k] # 0
      BY <1>3, <2>2, <2>7 DEF MayCreate
    <3>3. Fits(k, e)
      BY <2>2, <2>3, <3>1, <3>2 DEF Fits, InPhase, Unsent, Unpaid, Uncreated, Childless,
                            Codeless, Unfunded, PreSpend, Paid, Funded
    <3>4. Turn(p, e)
      BY <1>1, <2>1, <2>4, <3>1, <3>3 DEF Turn, PreSpend, Unpaid, Unsent
    <3>5. created[k] = 0 /\ Sent("create", k) = {} /\ PhaseOf("create") = "CreateDispatched"
      BY <1>3, <2>1 DEF Fits, Uncreated, Paid, PhaseOf
    <3> QED
      BY <1>1, <2>7, <3>1, <3>4, <3>5, AdvanceKeeps DEF e
  <2> QED
    BY <1>2, <1>4, <2>5, <2>6, <2>7 DEF MintReply, Fenced, f
<1> QED
  BY <1>2, <1>4 DEF MintReply, Fenced

LEMMA CreateReplyKeeps ==
  ASSUME IInv, NEW p \in Proc, CreateReply(p)
  PROVE  IInv'
<1> DEFINE k == act[p].key
           e == [entry[k] EXCEPT !.phase = "ChildCreated", !.child = created[k]]
<1>1. act[p].pc = "create" /\ act[p].pc # "idle" /\ act[p].pc \in Exclusive
  BY DEF CreateReply, Fenced, Step, Exclusive
<1>2. CASE Return(p)
  BY <1>1, <1>2, ReturnKeeps DEF Return
<1>3. /\ k \in Setup /\ Fits(k, entry[k]) /\ entry[k] \in Entries /\ created[k] \in Nat
      /\ Knows(act[p], entry[k]) /\ WorldInv
  BY <1>1, CallFacts DEF IInv, TypeOK
<1>4. CASE InPhase(k, "CreateDispatched")
  <2>1. entry[k].tag = "creating" /\ entry[k].phase = "CreateDispatched"
    BY <1>4 DEF InPhase
  <2>2. CASE GiveUp(p, entry[k])
    <3>1. Turn(p, entry[k])
      BY <1>1, <1>3, <2>1 DEF Turn, PreSpend
    <3> QED
      BY <1>1, <2>2, <3>1, GiveUpKeeps
  <2>3. CASE act[p].reply = "ok" /\ Advance(p, e, "install")
    <3>1. /\ e \in Entries /\ e.tag = "creating" /\ e.phase = "ChildCreated"
          /\ e.pay = entry[k].pay /\ e.fund = entry[k].fund
      BY <1>3, <2>1 DEF Entries, Phases
    <3> HIDE DEF e
    <3>2. created[k] = 1 /\ Sent("create", k) = {}
      BY <1>1, <1>3, <2>3 DEF Knows, Answers, WorldInv, Once
    <3>3. Fits(k, e)
      BY <1>3, <2>1, <3>1, <3>2 DEF Fits, InPhase, Unsent, Unpaid, Uncreated, Childless,
                            Codeless, Unfunded, PreSpend, Paid, Funded
    <3>4. Turn(p, e) /\ PhaseOf("install") = "ChildCreated"
      BY <1>1, <2>1, <3>1, <3>3 DEF Turn, PreSpend, Unpaid, Unsent, PhaseOf
    <3> QED
      BY <1>1, <2>3, <3>1, <3>4, AdvanceKeeps
  <2> QED
    BY <1>2, <1>4, <2>2, <2>3 DEF CreateReply, Fenced
<1> QED
  BY <1>2, <1>4 DEF CreateReply, Fenced

\* The approved module is there, and the child is to be funded.
LEMMA InstalledKeeps ==
  ASSUME IInv, NEW p \in Proc, act[p].pc \in {"install", "reconcile"},
         InPhase(act[p].key, "ChildCreated"), code[act[p].key],
         Advance(p, [entry[act[p].key] EXCEPT !.phase = "CodeInstalled"], "fundQuote")
  PROVE  IInv'
<1> DEFINE k == act[p].key
           e == [entry[k] EXCEPT !.phase = "CodeInstalled"]
<1>1. act[p].pc # "idle" /\ act[p].pc \in Exclusive
  BY DEF Exclusive
<1>2. /\ k \in Setup /\ Fits(k, entry[k]) /\ entry[k] \in Entries
      /\ entry[k].tag = "creating" /\ entry[k].phase = "ChildCreated"
  BY <1>1, CallFacts DEF InPhase
<1>3. /\ e \in Entries /\ e.tag = "creating" /\ e.phase = "CodeInstalled"
      /\ e.pay = entry[k].pay /\ e.fund = entry[k].fund
  BY <1>2 DEF Entries, Phases
<1> HIDE DEF e
<1>4. Fits(k, e)
  BY <1>2, <1>3 DEF Fits, InPhase, Unsent, Unpaid, Uncreated, Childless,
                            Codeless, Unfunded, PreSpend, Paid, Funded
<1>5. Turn(p, e) /\ PhaseOf("fundQuote") = "CodeInstalled"
  BY <1>1, <1>2, <1>3, <1>4 DEF Turn, PreSpend, Unpaid, Unsent, PhaseOf
<1> QED
  BY <1>1, <1>3, <1>5, AdvanceKeeps DEF e

LEMMA InstallReplyKeeps ==
  ASSUME IInv, NEW p \in Proc, InstallReply(p)
  PROVE  IInv'
<1> DEFINE k == act[p].key
<1>1. act[p].pc = "install" /\ act[p].pc # "idle" /\ act[p].pc \in Exclusive
  BY DEF InstallReply, Fenced, Step, Exclusive
<1>2. CASE Return(p)
  BY <1>1, <1>2, ReturnKeeps DEF Return
<1>3. /\ k \in Setup /\ Fits(k, entry[k]) /\ entry[k] \in Entries /\ Knows(act[p], entry[k])
  BY <1>1, CallFacts
<1>4. CASE InPhase(k, "ChildCreated")
  <2>1. CASE /\ act[p].reply = "ok"
             /\ Advance(p, [entry[k] EXCEPT !.phase = "CodeInstalled"], "fundQuote")
    <3>1. code[k]
      BY <1>1, <1>3, <2>1 DEF Knows
    <3> QED
      BY <1>1, <1>4, <2>1, <3>1, InstalledKeeps
  <2>2. CASE Advance(p, entry[k], "reconcile")
    <3>1. /\ entry[k].tag = "creating" /\ entry[k].phase = "ChildCreated"
          /\ PhaseOf("reconcile") = "ChildCreated"
      BY <1>4 DEF InPhase, PhaseOf
    <3>2. Turn(p, entry[k])
      BY <1>1, <1>3, <3>1 DEF Turn, PreSpend
    <3> QED
      BY <1>1, <2>2, <3>1, <3>2, AdvanceKeeps
  <2> QED
    BY <1>2, <1>4, <2>1, <2>2 DEF InstallReply, Fenced
<1> QED
  BY <1>2, <1>4 DEF InstallReply, Fenced

LEMMA ReconcileReplyKeeps ==
  ASSUME IInv, NEW p \in Proc, ReconcileReply(p)
  PROVE  IInv'
<1> DEFINE k == act[p].key
<1>1. act[p].pc = "reconcile" /\ act[p].pc # "idle" /\ act[p].pc \in Exclusive
  BY DEF ReconcileReply, Fenced, Step, Exclusive
<1>2. CASE Return(p)
  BY <1>1, <1>2, ReturnKeeps DEF Return
<1>3. /\ k \in Setup /\ Fits(k, entry[k]) /\ entry[k] \in Entries /\ Knows(act[p], entry[k])
  BY <1>1, CallFacts
<1>4. CASE InPhase(k, "ChildCreated")
  <2>1. CASE /\ act[p].reply \in {"pre", "final"}
             /\ Advance(p, [entry[k] EXCEPT !.phase = "CodeInstalled"], "fundQuote")
    <3>1. code[k]
      BY <1>1, <1>3, <2>1 DEF Knows
    <3> QED
      BY <1>1, <1>4, <2>1, <3>1, InstalledKeeps
  <2>2. CASE GiveUp(p, entry[k])
    <3>1. Turn(p, entry[k])
      BY <1>1, <1>3, <1>4 DEF Turn, PreSpend, InPhase
    <3> QED
      BY <1>1, <2>2, <3>1, GiveUpKeeps
  <2> QED
    BY <1>2, <1>4, <2>1, <2>2 DEF ReconcileReply, Fenced
<1> QED
  BY <1>2, <1>4 DEF ReconcileReply, Fenced

LEMMA FundQuoteReplyKeeps ==
  ASSUME IInv, NEW p \in Proc, FundQuoteReply(p)
  PROVE  IInv'
<1> DEFINE k == act[p].key
<1>1. act[p].pc = "fundQuote" /\ act[p].pc # "idle" /\ act[p].pc \in Exclusive
  BY DEF FundQuoteReply, Fenced, Step, Exclusive
<1>2. CASE Return(p)
  BY <1>1, <1>2, ReturnKeeps DEF Return
<1>3. /\ k \in Setup /\ Fits(k, entry[k]) /\ entry[k] \in Entries /\ balance[k] \in Nat
  BY <1>1, CallFacts DEF IInv, TypeOK
<1>4. CASE InPhase(k, "CodeInstalled")
  <2>1. entry[k].tag = "creating" /\ entry[k].phase = "CodeInstalled"
    BY <1>4 DEF InPhase
  <2>2. CASE GiveUp(p, entry[k]) \/ Break(p, entry[k])
    <3>1. Turn(p, entry[k])
      BY <1>1, <1>3, <2>1 DEF Turn, PreSpend
    <3> QED
      BY <1>1, <2>2, <3>1, GiveUpKeeps
  <2>3. ASSUME NEW fee \in Fees,
               Advance(p, [entry[k] EXCEPT !.phase = "RelayFundingPrepared",
                             !.fund = Transfer(balance[k] - fee, fee)], "fund")
        PROVE  IInv'
    <3> DEFINE x == Transfer(balance[k] - fee, fee)
               e == [entry[k] EXCEPT !.phase = "RelayFundingPrepared", !.fund = x]
    <3>1. x \in Transfers
      <4>1. fee \in Nat /\ balance[k] - fee \in Int
        BY <1>3, PriceAssumption
      <4> QED
        BY <4>1 DEF Transfer, Transfers
    <3> HIDE DEF x
    <3>2. /\ e \in Entries /\ e.tag = "creating" /\ e.phase = "RelayFundingPrepared"
          /\ e.pay = entry[k].pay /\ e.fund = x
      BY <1>3, <2>1, <3>1 DEF Entries, Phases
    <3> HIDE DEF e
    <3>3. Fits(k, e)
      BY <1>3, <2>1, <3>1, <3>2 DEF Fits, InPhase, Unsent, Unpaid, Uncreated, Childless,
                            Codeless, Unfunded, PreSpend, Paid, Funded
    <3>4. Turn(p, e)
      BY <1>1, <2>1, <3>2, <3>3 DEF Turn, PreSpend, Unpaid, Unsent
    <3>5. /\ funded[k] = 0 /\ Sent("fund", k) = {}
          /\ PhaseOf("fund") = "RelayFundingPrepared"
      BY <1>3, <2>1 DEF Fits, Unfunded, PhaseOf
    <3> QED
      BY <1>1, <2>3, <3>2, <3>4, <3>5, AdvanceKeeps DEF e, x
  <2> QED
    BY <1>2, <1>4, <2>2, <2>3 DEF FundQuoteReply, Fenced
<1> QED
  BY <1>2, <1>4 DEF FundQuoteReply, Fenced

LEMMA FundReplyKeeps ==
  ASSUME IInv, NEW p \in Proc, FundReply(p)
  PROVE  IInv'
<1> DEFINE k == act[p].key
           e == [entry[k] EXCEPT !.phase = "RelayFunded", !.fund.accepted = TRUE]
           a == [act[p] EXCEPT !.pc = "audit", !.reply = "none", !.phase = "RelayFunded"]
<1>1. act[p].pc = "fund" /\ act[p].pc # "idle" /\ act[p].pc \in Exclusive
  BY DEF FundReply, Fenced, Step, Exclusive
<1>2. CASE Return(p)
  BY <1>1, <1>2, ReturnKeeps DEF Return
<1>3. /\ k \in Setup /\ Fits(k, entry[k]) /\ entry[k] \in Entries /\ act[p] \in Calls
      /\ Knows(act[p], entry[k]) /\ WorldInv
  BY <1>1, CallFacts DEF IInv
<1>4. CASE InPhase(k, "RelayFundingPrepared")
  <2>1. entry[k].tag = "creating" /\ entry[k].phase = "RelayFundingPrepared"
    BY <1>4 DEF InPhase
  <2>2. CASE GiveUp(p, entry[k])
    <3>1. Turn(p, entry[k])
      BY <1>1, <1>3, <2>1 DEF Turn, PreSpend
    <3> QED
      BY <1>1, <2>2, <3>1, GiveUpKeeps
  <2>3. CASE /\ act[p].reply = "ok" /\ Put(k, e) /\ (Await(p, a) \/ End(p))
             /\ UNCHANGED <<now, world, late, broken>>
    <3>1. entry[k].fund \in Transfers
      BY <1>3, <2>1 DEF Fits, InPhase, Unsent, Unpaid, Uncreated, Childless,
                            Codeless, Unfunded, PreSpend, Paid, Funded
    <3>2. /\ e \in Entries /\ e.tag = "creating" /\ e.phase = "RelayFunded"
          /\ e.pay = entry[k].pay /\ e.fund \in Transfers
      BY <1>3, <2>1, <3>1 DEF Entries, Phases, Transfers
    <3>3. /\ a \in Calls /\ a.pc = "audit" /\ a.reply = "none" /\ a.phase = "RelayFunded"
          /\ a.key = k /\ a.token = act[p].token
      BY <1>3 DEF Calls, Asking, Funded
    <3> HIDE DEF e, a
    <3>4. funded[k] = 1 /\ Sent("fund", k) = {}
      BY <1>1, <1>3, <2>3 DEF Knows, Answers, WorldInv, Once
    <3>5. Fits(k, e)
      BY <1>3, <2>1, <3>2, <3>4 DEF Fits, InPhase, Unsent, Unpaid, Uncreated, Childless,
                            Codeless, Unfunded, PreSpend, Paid, Funded
    <3>6. Turn(p, e)
      BY <1>1, <2>1, <3>2, <3>5 DEF Turn, PreSpend, Unpaid, Unsent
    <3>7. broken' \in SUBSET Setup
      BY <2>3 DEF IInv, TypeOK
    <3>8. CASE End(p)
      BY <1>1, <2>3, <3>6, <3>7, <3>8, WriteAndReturn
    <3>9. CASE Await(p, a)
      <4>1. Knows(a, e)
        BY <1>1, <1>3, <3>3 DEF Knows, Funded
      <4>2. a.pc \notin Exclusive /\ a.pc \notin {"idle", "neuron", "probe"}
        BY <3>3 DEF Exclusive
      <4> QED
        BY <1>1, <2>3, <3>3, <3>6, <3>7, <3>9, <4>1, <4>2, WriteAndGoOn
    <3> QED
      BY <2>3, <3>8, <3>9
  <2> QED
    BY <1>2, <1>4, <2>2, <2>3 DEF FundReply, Fenced
<1> QED
  BY <1>2, <1>4 DEF FundReply, Fenced

\* The setup is announced: control of the child was given up.
LEMMA ActivateKeeps ==
  ASSUME IInv, NEW p \in Proc, act[p].pc \in {"audit", "audit2"}, act[p].reply = "final",
         NEW ph \in Funded, InPhase(act[p].key, ph), Activate(p)
  PROVE  IInv'
<1> DEFINE k == act[p].key
           e == [entry[k] EXCEPT !.tag = "active"]
<1>1. act[p].pc # "idle"
  OBVIOUS
<1>2. /\ k \in Setup /\ Fits(k, entry[k]) /\ entry[k] \in Entries /\ Knows(act[p], entry[k])
      /\ entry[k].tag = "creating" /\ entry[k].phase = ph
  BY <1>1, CallFacts DEF InPhase
<1>3. /\ e \in Entries /\ e.tag = "active" /\ e.phase = ph
      /\ e.pay = entry[k].pay /\ e.fund = entry[k].fund
  BY <1>2 DEF Entries
<1> HIDE DEF e
<1>4. control[k] = "none"
  BY <1>2 DEF Knows
<1>5. Fits(k, e)
  BY <1>2, <1>3, <1>4 DEF Fits, InPhase, Unsent, Unpaid, Uncreated, Childless,
                            Codeless, Unfunded, PreSpend, Paid, Funded
<1>6. Turn(p, e)
  BY <1>2, <1>3, <1>5, PhaseNames DEF Turn, PreSpend, Funded
<1>7. broken' \in SUBSET Setup /\ Put(k, e) /\ End(p) /\ UNCHANGED <<now, world, late>>
  BY DEF IInv, TypeOK, Activate, e
<1> QED
  BY <1>1, <1>6, <1>7, WriteAndReturn

LEMMA AuditReplyKeeps ==
  ASSUME IInv, NEW p \in Proc, AuditReply(p)
  PROVE  IInv'
<1> DEFINE k == act[p].key
           ph == act[p].phase
           e == [entry[k] EXCEPT !.phase = "FinalizationAttempted"]
           a == [act[p] EXCEPT !.pc = "settings", !.reply = "none"]
<1>1. act[p].pc = "audit" /\ act[p].pc # "idle"
  BY DEF AuditReply, Step
<1>2. CASE Return(p)
  BY <1>1, <1>2, ReturnKeeps DEF Return
<1>3. /\ k \in Setup /\ Fits(k, entry[k]) /\ entry[k] \in Entries /\ act[p] \in Calls
      /\ Knows(act[p], entry[k])
  BY <1>1, CallFacts
<1>4. ph \in Funded
  BY <1>1, <1>3 DEF Knows
<1>5. CASE InPhase(k, ph)
  <2>1. /\ entry[k].tag = "creating" /\ entry[k].phase = ph /\ ph \notin PreSpend
        /\ ph \notin OwnedPhases
    BY <1>4, <1>5, PhaseNames DEF InPhase, Funded, PreSpend
  <2>2. CASE GiveUp(p, entry[k])
    <3>1. Turn(p, entry[k])
      BY <1>1, <1>3, <2>1 DEF Turn
    <3> QED
      BY <1>1, <2>2, <3>1, GiveUpKeeps
  <2>3. CASE act[p].reply = "final" /\ Activate(p)
    BY <1>1, <1>4, <1>5, <2>3, ActivateKeeps
  <2>4. CASE /\ Put(k, e) /\ (Await(p, a) \/ End(p))
             /\ UNCHANGED <<now, world, late, broken>>
    <3>1. /\ e \in Entries /\ e.tag = "creating" /\ e.phase = "FinalizationAttempted"
          /\ e.pay = entry[k].pay /\ e.fund = entry[k].fund
      BY <1>3, <2>1 DEF Entries, Phases
    <3>2. /\ a \in Calls /\ a.pc = "settings" /\ a.reply = "none"
          /\ a.key = k /\ a.token = act[p].token
      BY <1>3 DEF Calls, Acting
    <3> HIDE DEF e, a
    <3>3. Fits(k, e)
      BY <1>3, <1>4, <2>1, <3>1 DEF Fits, InPhase, Unsent, Unpaid, Uncreated, Childless,
                            Codeless, Unfunded, PreSpend, Paid, Funded
    <3>4. Turn(p, e)
      BY <1>1, <2>1, <3>1, <3>3 DEF Turn, PreSpend, Unpaid, Unsent
    <3>5. broken' \in SUBSET Setup
      BY <2>4 DEF IInv, TypeOK
    <3>6. CASE End(p)
      BY <1>1, <2>4, <3>4, <3>5, <3>6, WriteAndReturn
    <3>7. CASE Await(p, a)
      <4>1. Knows(a, e)
        BY <1>1, <1>3, <3>1, <3>2 DEF Knows
      <4>2. a.pc \notin Exclusive /\ a.pc \notin {"idle", "neuron", "probe"}
        BY <3>2 DEF Exclusive
      <4> QED
        BY <1>1, <2>4, <3>2, <3>4, <3>5, <3>7, <4>1, <4>2, WriteAndGoOn
    <3> QED
      BY <2>4, <3>6, <3>7
  <2> QED
    BY <1>2, <1>5, <2>2, <2>3, <2>4 DEF AuditReply, To
<1> QED
  BY <1>2, <1>5 DEF AuditReply

LEMMA SettingsReplyKeeps ==
  ASSUME IInv, NEW p \in Proc, SettingsReply(p)
  PROVE  IInv'
<1> DEFINE k == act[p].key
           a == [act[p] EXCEPT !.pc = "audit2", !.reply = "none"]
<1>1. act[p].pc = "settings" /\ act[p].pc # "idle"
  BY DEF SettingsReply, Step
<1>2. CASE Return(p)
  BY <1>1, <1>2, ReturnKeeps DEF Return
<1>3. CASE Await(p, a) /\ UNCHANGED <<now, journal, world, late, broken>>
  <2>1. /\ k \in Setup /\ act[p] \in Calls /\ Knows(act[p], entry[k])
    BY <1>1, CallFacts
  <2>2. /\ a \in Calls /\ a.pc = "audit2" /\ a.reply = "none"
        /\ a.key = k /\ a.token = act[p].token
    BY <2>1 DEF Calls, Asking
  <2> HIDE DEF a
  <2>3. Knows(a, entry[k])
    BY <1>1, <2>1, <2>2 DEF Knows
  <2>4. a.pc \notin Exclusive /\ a.pc \notin {"idle", "neuron", "probe"}
    BY <2>2 DEF Exclusive
  <2> QED
    BY <1>1, <1>3, <2>2, <2>3, <2>4, GoOn
<1> QED
  BY <1>2, <1>3 DEF SettingsReply, To

LEMMA Audit2ReplyKeeps ==
  ASSUME IInv, NEW p \in Proc, Audit2Reply(p)
  PROVE  IInv'
<1> DEFINE k == act[p].key
<1>1. act[p].pc = "audit2" /\ act[p].pc # "idle"
  BY DEF Audit2Reply, Step
<1>2. CASE Return(p)
  BY <1>1, <1>2, ReturnKeeps DEF Return
<1>3. /\ k \in Setup /\ Fits(k, entry[k]) /\ entry[k] \in Entries
  BY <1>1, CallFacts
<1>4. CASE InPhase(k, "FinalizationAttempted")
  <2>1. /\ entry[k].tag = "creating" /\ entry[k].phase = "FinalizationAttempted"
        /\ "FinalizationAttempted" \notin OwnedPhases
    BY <1>4, PhaseNames DEF InPhase
  <2>2. CASE GiveUp(p, entry[k])
    <3>1. Turn(p, entry[k])
      BY <1>1, <1>3, <2>1 DEF Turn, PreSpend
    <3> QED
      BY <1>1, <2>2, <3>1, GiveUpKeeps
  <2>3. CASE act[p].reply = "final" /\ Activate(p)
    BY <1>1, <1>4, <2>3, ActivateKeeps DEF Funded
  <2> QED
    BY <1>2, <1>4, <2>2, <2>3 DEF Audit2Reply
<1> QED
  BY <1>2, <1>4 DEF Audit2Reply

-----------------------------------------------------------------------------
(* Calls begin.                                                              *)

\* A reservation that is reclaimed has no live ticket and cost nothing.
LEMMA ReclaimedFits ==
  ASSUME IInv, NEW k \in Setup
  PROVE  /\ Reclaimed[k] \in Entries /\ Fits(k, Reclaimed[k])
         /\ \/ Reclaimed[k] = entry[k]
            \/ /\ Reclaimed[k] = NoEntry /\ entry[k].phase \in PreSpend
               /\ \A s \in LiveSlots : s.key # k
<1>1. entry[k] \in Entries /\ Fits(k, entry[k])
  BY DEF IInv, TypeOK, JournalInv
<1>2. Reclaimed[k] = IF Abandonable(k) THEN NoEntry ELSE entry[k]
  BY DEF Reclaimed
<1>3. CASE Abandonable(k)
  <2>1. Fits(k, NoEntry)
    BY <1>1, <1>3, NoEntryTyped DEF Abandonable, Fits, InPhase, Unsent, Unpaid, Uncreated, Childless,
                            Codeless, Unfunded, PreSpend, Paid, Funded
  <2> QED
    BY <1>2, <1>3, <2>1, NoEntryTyped DEF Abandonable
<1> QED
  BY <1>1, <1>2, <1>3

\* Call q is one that this step lets in.
Enters(q) ==
  LET a == act'[q] IN
  /\ act[q].pc = "idle" /\ a.pc \in {"balance", "mint", "audit"}
  /\ a.key \in Setup /\ a.token = tokens + 1 /\ a.reply = "none"
  /\ a.pc = "mint" => entry[a.key].phase \notin Unpaid
  /\ a.pc = "audit" => a.phase \in Funded

LEMMA ReclaimKeeps ==
  ASSUME IInv, entry' = Reclaimed, UNCHANGED <<now, cycles, world, late, broken>>,
         act' \in [Proc -> Calls], slots' \in SUBSET Tickets,
         win' \in [Lanes -> [number : Nat, used : Nat]],
         \/ tokens' = tokens /\ act' = act
         \/ tokens' = tokens + 1 /\ \A q \in Proc : act'[q] = act[q] \/ Enters(q),
         \A s \in slots' : s \in slots \/ s.token = tokens + 1,
         TicketInv'
  PROVE  IInv'
<1>1. /\ TypeOK /\ JournalInv /\ WorldInv /\ OwnerInv /\ CallInv /\ TicketInv
      /\ LateInv /\ IsFiniteSet(Creating) /\ ReservationSafe /\ tokens \in Nat
  BY DEF IInv, TypeOK
<1>2. \A k \in Setup :
         /\ entry'[k] \in Entries /\ Fits(k, entry'[k])
         /\ \/ entry'[k] = entry[k]
            \/ /\ entry'[k] = NoEntry /\ entry[k].phase \in PreSpend
               /\ \A s \in LiveSlots : s.key # k
  BY ReclaimedFits
<1>3. entry' \in [Setup -> Entries]
  <2>1. entry' = [k \in Setup |-> IF Abandonable(k) THEN NoEntry ELSE entry[k]]
    BY DEF Reclaimed
  <2> QED
    BY <1>2, <2>1
<1>4. /\ balance' = balance /\ paid' = paid /\ funded' = funded /\ minted' = minted
      /\ refused' = refused /\ created' = created /\ code' = code /\ control' = control
      /\ late' = late /\ now' = now /\ cycles' = cycles /\ broken' = broken
      /\ tokens' \in Nat /\ tokens <= tokens'
  BY <1>1 DEF world, ledger, cmc, children
<1>5. TypeOK'
  BY <1>1, <1>3, <1>4 DEF TypeOK
<1>6. JournalInv'
  <2> SUFFICES ASSUME NEW j \in Setup PROVE Fits(j, entry[j])'
    BY DEF JournalInv
  <2>1. Fits(j, entry'[j])
    BY <1>2
  <2> QED
    BY <1>4, <2>1 DEF Fits, Sent
<1>7. WorldInv' /\ LateInv'
  BY <1>1, <1>4 DEF WorldInv, LateInv, Sent
<1>8. \A q \in Proc : act'[q] = act[q] \/ (Enters(q) /\ tokens' = tokens + 1)
  <2>1. CASE act' = act
    BY <2>1
  <2>2. CASE tokens' = tokens + 1 /\ \A q \in Proc : act'[q] = act[q] \/ Enters(q)
    BY <2>2
  <2> QED
    BY <2>1, <2>2
<1>9. \A q \in Proc : act[q].pc # "idle" => act[q].key \in Setup /\ act[q].token \in 1..tokens
  BY <1>1 DEF CallInv, Knows
<1>10. \A q \in Proc : act'[q].pc \in Exclusive =>
         act'[q] = act[q] /\ act[q].key \in Setup /\ entry'[act[q].key] = entry[act[q].key]
  <2> SUFFICES ASSUME NEW q \in Proc, act'[q].pc \in Exclusive
               PROVE act'[q] = act[q] /\ act[q].key \in Setup
                     /\ entry'[act[q].key] = entry[act[q].key]
    OBVIOUS
  <2>1. act'[q] = act[q] /\ act[q].pc \in Exclusive /\ act[q].pc # "idle"
    BY <1>8 DEF Enters, Exclusive
  <2>2. act[q].key \in Setup /\ entry[act[q].key].phase \in OwnedPhases
    BY <1>1, <1>9, <2>1, PhaseNames DEF OwnerInv, InPhase
  <2>3. entry[act[q].key].phase \notin PreSpend
    BY <2>2, PhaseNames DEF PreSpend
  <2> QED
    BY <1>2, <2>1, <2>2, <2>3
<1>11. OwnerInv'
  <2> SUFFICES ASSUME NEW q \in Proc, act'[q].pc \in Exclusive
               PROVE  /\ InPhase(act[q].key, PhaseOf(act[q].pc))'
                      /\ \A u \in Proc : u # q /\ act'[u].pc \in Exclusive =>
                            act'[u].key # act'[q].key
    BY DEF OwnerInv
  <2>1. InPhase(act[q].key, PhaseOf(act[q].pc))'
    <3>1. /\ act'[q] = act[q] /\ InPhase(act[q].key, PhaseOf(act[q].pc))
          /\ entry'[act[q].key] = entry[act[q].key]
      BY <1>1, <1>10 DEF OwnerInv
    <3> QED
      BY <3>1 DEF InPhase, PhaseOf
  <2>2. \A u \in Proc : u # q /\ act'[u].pc \in Exclusive => act'[u].key # act'[q].key
    BY <1>1, <1>10 DEF OwnerInv
  <2> QED
    BY <2>1, <2>2
<1>12. CallInv'
  <2> SUFFICES ASSUME NEW q \in Proc, act'[q].pc # "idle"
               PROVE  Knows(act[q], entry[act[q].key])'
    BY DEF CallInv
  <2>1. CASE act'[q] = act[q]
    <3>1. Knows(act[q], entry[act[q].key]) /\ act[q].key \in Setup /\ act[q].token \in 1..tokens
      BY <1>1, <1>9, <2>1 DEF CallInv
    <3>2. act[q].token \in 1..tokens'
      BY <1>1, <1>4, <3>1
    <3>3. /\ entry[act[q].key].phase \notin Unpaid => entry'[act[q].key].phase \notin Unpaid
          /\ entry[act[q].key].phase = "FinalizationAttempted"
                => entry'[act[q].key].phase = "FinalizationAttempted"
      BY <1>2, <3>1 DEF Unpaid, Unsent, PreSpend
    <3> QED
      BY <1>4, <2>1, <3>1, <3>2, <3>3 DEF Knows, Answers, Sent
  <2>2. CASE Enters(q) /\ tokens' = tokens + 1
    <3>1. act'[q].key \in Setup /\ act'[q].token \in 1..tokens'
      BY <1>1, <2>2 DEF Enters
    <3>2. entry[act'[q].key].phase \notin Unpaid => entry'[act'[q].key].phase \notin Unpaid
      BY <1>2, <3>1 DEF Unpaid, Unsent, PreSpend
    <3> QED
      BY <2>2, <3>1, <3>2 DEF Knows, Enters
  <2> QED
    BY <1>8, <2>1, <2>2
<1>13. IsFiniteSet(Creating)' /\ Cardinality(Creating') <= MaxCreating
  <2>1. /\ Cardinality(Creating) \in Nat /\ Cardinality(Creating) <= MaxCreating
        /\ MaxCreating \in Nat
    BY <1>1, FS_CardinalityType, SizeAssumption DEF ReservationSafe
  <2>2. Creating' \subseteq Creating
    BY <1>2, NoEntryTyped DEF Creating
  <2>3. IsFiniteSet(Creating') /\ Cardinality(Creating') <= Cardinality(Creating)
        /\ Cardinality(Creating') \in Nat
    BY <1>1, <2>2, FS_Subset, FS_CardinalityType
  <2> QED
    BY <2>1, <2>3
<1>14. ReservationSafe'
  <2>1. ASSUME NEW q \in Proc, Live(q)', act'[q].pc \in {"neuron", "probe"}
        PROVE  /\ act'[q].pc = "neuron" => InPhase(act[q].key, "Reserved")'
               /\ act'[q].pc = "probe" => InPhase(act[q].key, "ProbingTargets")'
    <3>1. act'[q] = act[q] /\ act[q].pc # "idle" /\ act[q].key \in Setup
          /\ act[q].token \in 1..tokens
      BY <1>8, <1>9, <2>1 DEF Enters
    <3>2. PICK s \in slots' : s.expires > now /\ s.token = act[q].token
      BY <1>4, <2>1, <3>1 DEF Live, LiveSlots
    <3>3. s \in slots
      BY <1>1, <3>1, <3>2
    <3>4. Live(q) /\ s \in LiveSlots /\ s.key = act[q].key
      BY <1>1, <3>1, <3>2, <3>3 DEF Live, LiveSlots, TicketInv
    <3>5. entry'[act[q].key] = entry[act[q].key]
      BY <1>2, <3>1, <3>4
    <3>6. /\ act[q].pc = "neuron" => InPhase(act[q].key, "Reserved")
          /\ act[q].pc = "probe" => InPhase(act[q].key, "ProbingTargets")
      BY <1>1, <3>4 DEF ReservationSafe
    <3> QED
      BY <3>1, <3>5, <3>6 DEF InPhase
  <2> QED
    BY <1>13, <2>1 DEF ReservationSafe
<1> QED
  BY <1>5, <1>6, <1>7, <1>11, <1>12, <1>13, <1>14 DEF IInv

LEMMA TurnedAwayKeeps ==
  ASSUME IInv, TurnedAway
  PROVE  IInv'
<1>1. TypeOK /\ TicketInv
  BY DEF IInv
<1>2. /\ slots' \subseteq slots /\ tokens' = tokens /\ win' = win /\ act' = act
      /\ entry' = Reclaimed /\ UNCHANGED <<now, cycles, world, late, broken>>
  BY DEF TurnedAway, LiveSlots
<1>3. TicketInv'
  BY <1>1, <1>2 DEF TicketInv
<1>4. /\ act' \in [Proc -> Calls] /\ slots' \in SUBSET Tickets
      /\ win' \in [Lanes -> [number : Nat, used : Nat]]
  BY <1>1, <1>2 DEF TypeOK
<1> QED
  BY <1>2, <1>3, <1>4, ReclaimKeeps

\* A call is let in with a new ticket for a setup that has no live one.
LEMMA AdmitKeeps ==
  ASSUME IInv, NEW p \in Proc, NEW k \in Setup, NEW lane \in Lanes,
         act[p].pc = "idle", CanAdmit(k, lane), Admit(k, lane),
         entry' = Reclaimed, UNCHANGED <<now, cycles, world, late, broken>>,
         NEW a \in Calls, act' = [act EXCEPT ![p] = a],
         a.pc \in {"balance", "mint", "audit"}, a.key = k, a.token = tokens + 1,
         a.reply = "none", a.pc = "mint" => entry[k].phase \notin Unpaid,
         a.pc = "audit" => a.phase \in Funded
  PROVE  IInv'
<1> DEFINE new == [key |-> k, token |-> tokens + 1, lane |-> lane, expires |-> now + Lease]
<1>1. /\ TypeOK /\ TicketInv /\ CallInv /\ tokens \in Nat /\ now \in Nat
      /\ act \in [Proc -> Calls] /\ slots \in SUBSET Tickets
  BY DEF IInv, TypeOK
<1>2. /\ slots' = LiveSlots \cup {new} /\ tokens' = tokens + 1 /\ LiveSlots \subseteq slots
      /\ \A s \in LiveSlots : s.key # k
  BY DEF Admit, CanAdmit, LiveSlots
<1>3. /\ new \in Tickets /\ new.key = k /\ new.token = tokens + 1
  BY <1>1, SizeAssumption DEF Tickets
<1> HIDE DEF new
<1>4. win' \in [Lanes -> [number : Nat, used : Nat]]
  <2>1. now \div Window \in Nat
    BY <1>1, SizeAssumption
  <2>2. /\ win \in [Lanes -> [number : Nat, used : Nat]]
        /\ win[lane].number \in Nat /\ win[lane].used \in Nat
    BY <1>1 DEF TypeOK
  <2> DEFINE n == now \div Window
             u == IF n > win[lane].number THEN 1 ELSE win[lane].used + 1
  <2>3. u \in Nat /\ win' = [win EXCEPT ![lane] = [number |-> n, used |-> u]]
    BY <2>2 DEF Admit
  <2> HIDE DEF n, u
  <2>4. n \in Nat
    BY <2>1 DEF n
  <2> QED
    BY <2>2, <2>3, <2>4
<1>5. /\ act'[p] = a /\ (\A q \in Proc \ {p} : act'[q] = act[q])
      /\ act' \in [Proc -> Calls] /\ slots' \in SUBSET Tickets
  BY <1>1, <1>2, <1>3
<1>6. \A q \in Proc : act'[q] = act[q] \/ Enters(q)
  <2>1. Enters(p)
    BY <1>5 DEF Enters
  <2> QED
    BY <1>5, <2>1
<1>7. \A q \in Proc : act[q].pc # "idle" => act[q].token \in 1..tokens
  BY <1>1 DEF CallInv, Knows
<1>8. TicketInv'
  <2>1. \A s \in LiveSlots : s.token \in Nat /\ s.token <= tokens /\ s.token # tokens + 1
    BY <1>1, <1>2 DEF TicketInv, Tickets
  <2>2. ASSUME NEW s \in slots', NEW u \in slots', s.key = u.key \/ s.token = u.token
        PROVE  s = u
    BY <1>1, <1>2, <1>3, <2>1, <2>2 DEF TicketInv
  <2>3. \A s \in slots' : s.token <= tokens'
    BY <1>1, <1>2, <1>3, <2>1
  <2>4. ASSUME NEW q \in Proc, act'[q].pc # "idle"
        PROVE  /\ \A s \in slots' : s.token = act'[q].token => s.key = act'[q].key
               /\ \A u \in Proc : u # q /\ act'[u].pc # "idle" => act'[u].token # act'[q].token
    <3>1. CASE q = p
      <4>1. \A s \in slots' : s.token = act'[q].token => s.key = act'[q].key
        BY <1>2, <1>3, <1>5, <2>1, <3>1
      <4>2. \A u \in Proc : u # q /\ act'[u].pc # "idle" => act'[u].token # act'[q].token
        BY <1>1, <1>5, <1>7, <3>1
      <4> QED
        BY <4>1, <4>2
    <3>2. CASE q # p
      <4>1. act'[q] = act[q] /\ act[q].token \in 1..tokens
        BY <1>5, <1>7, <2>4, <3>2
      <4>2. \A s \in slots' : s.token = act'[q].token => s.key = act'[q].key
        BY <1>1, <1>2, <1>3, <2>4, <4>1 DEF TicketInv
      <4>3. \A u \in Proc : u # q /\ act'[u].pc # "idle" => act'[u].token # act'[q].token
        BY <1>1, <1>5, <2>4, <4>1 DEF TicketInv
      <4> QED
        BY <4>2, <4>3
    <3> QED
      BY <3>1, <3>2
  <2>5. tokens' = tokens + 1
    BY <1>2
  <2> QED
    BY <2>2, <2>3, <2>4 DEF TicketInv
<1>9. \A s \in slots' : s \in slots \/ s.token = tokens + 1
  BY <1>2, <1>3
<1> QED
  BY <1>2, <1>4, <1>5, <1>6, <1>8, <1>9, ReclaimKeeps

LEMMA NotifyKeeps ==
  ASSUME IInv, NEW p \in Proc, Notify(p)
  PROVE  IInv'
<1>1. /\ act[p].pc = "idle" /\ UNCHANGED <<now, cycles, world, late, broken>>
      /\ tokens \in Nat
  BY DEF Notify, IInv, TypeOK
<1>2. PICK k \in Setup : StartNew(p, k) \/ Resume(p, k)
  BY DEF Notify
<1>3. ASSUME NEW c \in {"balance", "mint", "audit"}
      PROVE  /\ NewCall(k, c) \in Calls /\ NewCall(k, c).pc = c /\ NewCall(k, c).key = k
             /\ NewCall(k, c).token = tokens + 1 /\ NewCall(k, c).reply = "none"
  <2>1. c \in Acting \cup Asking \cup {"balance"}
    BY DEF Acting, Asking
  <2>2. Idle \in Calls /\ Idle.reply = "none"
    BY IdleTyped DEF Idle
  <2> DEFINE t == tokens + 1
             a == [Idle EXCEPT !.pc = c, !.key = k, !.token = t]
  <2>3. t \in Nat
    BY <1>1
  <2>4. NewCall(k, c) = a
    BY DEF NewCall
  <2> HIDE DEF t
  <2>5. a.pc = c /\ a.key = k /\ a.token = t /\ a.reply = "none"
    BY <2>2 DEF Calls
  <2>6. a \in Calls
    BY <2>1, <2>2, <2>3 DEF Calls
  <2> QED
    BY <2>4, <2>5, <2>6 DEF t
<1>4. CASE StartNew(p, k)
  <2> DEFINE a == NewCall(k, "balance")
  <2>1. /\ CanAdmit(k, "new") /\ Admit(k, "new") /\ entry' = Reclaimed
        /\ act' = [act EXCEPT ![p] = a]
    BY <1>4 DEF StartNew
  <2>2. a \in Calls /\ a.pc = "balance" /\ a.key = k /\ a.token = tokens + 1 /\ a.reply = "none"
    BY <1>3
  <2> HIDE DEF a
  <2>3. "new" \in Lanes
    BY DEF Lanes
  <2> QED
    BY <1>1, <2>1, <2>2, <2>3, AdmitKeeps
<1>5. CASE Resume(p, k)
  <2>1. /\ CanAdmit(k, "completion") /\ Admit(k, "completion") /\ entry' = Reclaimed
        /\ "completion" \in Lanes
    BY <1>5 DEF Resume, Lanes
  <2>2. CASE /\ entry[k].phase = "CmcTransferAccepted"
             /\ act' = [act EXCEPT ![p] = NewCall(k, "mint")]
    <3> DEFINE a == NewCall(k, "mint")
    <3>1. a \in Calls /\ a.pc = "mint" /\ a.key = k /\ a.token = tokens + 1 /\ a.reply = "none"
      BY <1>3
    <3>2. act' = [act EXCEPT ![p] = a]
      BY <2>2
    <3> HIDE DEF a
    <3>3. entry[k].phase \notin Unpaid
      BY <2>2 DEF Unpaid, Unsent, PreSpend
    <3> QED
      BY <1>1, <2>1, <3>1, <3>2, <3>3, AdmitKeeps
  <2>3. CASE /\ entry[k].phase \in Funded
             /\ act' = [act EXCEPT ![p] = [NewCall(k, "audit") EXCEPT !.phase = entry[k].phase]]
    <3> DEFINE b == NewCall(k, "audit")
               a == [b EXCEPT !.phase = entry[k].phase]
    <3>1. b \in Calls /\ b.pc = "audit" /\ b.key = k /\ b.token = tokens + 1 /\ b.reply = "none"
      BY <1>3
    <3>2. act' = [act EXCEPT ![p] = a]
      BY <2>3
    <3> HIDE DEF b
    <3>3. /\ a \in Calls /\ a.pc = "audit" /\ a.key = k /\ a.token = tokens + 1
          /\ a.reply = "none" /\ a.phase \in Funded
      BY <2>3, <3>1 DEF Calls
    <3> HIDE DEF a
    <3> QED
      BY <1>1, <2>1, <3>2, <3>3, AdmitKeeps
  <2> QED
    BY <1>5, <2>2, <2>3 DEF Resume
<1> QED
  BY <1>2, <1>4, <1>5

LEMMA TrapKeeps ==
  ASSUME IInv, NEW p \in Proc, Trap(p)
  PROVE  IInv'
  BY ReturnKeeps DEF Trap

-----------------------------------------------------------------------------
(* The outside world.                                                        *)

\* A step that leaves the journal, the tickets and who waits for what alone.
LEMMA QuietKeeps ==
  ASSUME IInv, UNCHANGED <<journal, admission>>, now' \in Nat, now' >= now,
         \A q \in Proc : /\ act'[q].pc = act[q].pc /\ act'[q].key = act[q].key
                         /\ act'[q].token = act[q].token
  PROVE  OwnerInv' /\ TicketInv' /\ IsFiniteSet(Creating)' /\ ReservationSafe'
<1>1. /\ TypeOK /\ OwnerInv /\ TicketInv /\ IsFiniteSet(Creating) /\ ReservationSafe
  BY DEF IInv
<1>2. entry' = entry /\ slots' = slots /\ tokens' = tokens
  BY DEF journal, admission
<1>3. Creating' = Creating
  BY <1>2 DEF Creating
<1>4. OwnerInv'
  <2> SUFFICES ASSUME NEW q \in Proc, act'[q].pc \in Exclusive
               PROVE  /\ InPhase(act[q].key, PhaseOf(act[q].pc))'
                      /\ \A u \in Proc : u # q /\ act'[u].pc \in Exclusive =>
                            act'[u].key # act'[q].key
    BY DEF OwnerInv
  <2>1. InPhase(act[q].key, PhaseOf(act[q].pc))
    BY <1>1 DEF OwnerInv
  <2>2. InPhase(act[q].key, PhaseOf(act[q].pc))'
    BY <1>2, <2>1 DEF InPhase, PhaseOf
  <2> QED
    BY <1>1, <2>2 DEF OwnerInv
<1>5. TicketInv'
  BY <1>1, <1>2 DEF TicketInv
<1>6. ReservationSafe'
  <2>1. ASSUME NEW q \in Proc, Live(q)'
        PROVE  /\ act'[q].pc = "neuron" => InPhase(act[q].key, "Reserved")'
               /\ act'[q].pc = "probe" => InPhase(act[q].key, "ProbingTargets")'
    <3>1. PICK s \in slots : s.expires > now' /\ s.token = act[q].token
      BY <1>2, <2>1 DEF Live, LiveSlots
    <3>2. s.expires > now
      BY <1>1, <3>1 DEF TypeOK, Tickets
    <3>3. Live(q)
      BY <3>1, <3>2 DEF Live, LiveSlots
    <3>4. /\ act[q].pc = "neuron" => InPhase(act[q].key, "Reserved")
          /\ act[q].pc = "probe" => InPhase(act[q].key, "ProbingTargets")
      BY <1>1, <3>3 DEF ReservationSafe
    <3> QED
      BY <1>2, <3>4 DEF InPhase
  <2> QED
    BY <1>1, <1>3, <2>1 DEF ReservationSafe
<1> QED
  BY <1>1, <1>3, <1>4, <1>5, <1>6

\* What holds while nothing irreversible happens and nothing is sent.
LEMMA StillKeeps ==
  ASSUME IInv, UNCHANGED <<journal, paid, funded, minted, children, late>>
  PROVE  JournalInv' /\ WorldInv' /\ LateInv'
<1>1. JournalInv /\ WorldInv /\ LateInv
  BY DEF IInv
<1>2. /\ entry' = entry /\ paid' = paid /\ funded' = funded /\ minted' = minted
      /\ created' = created /\ code' = code /\ control' = control /\ late' = late
  BY DEF journal, children
<1>3. JournalInv'
  <2> SUFFICES ASSUME NEW j \in Setup PROVE Fits(j, entry[j])'
    BY DEF JournalInv
  <2>1. Fits(j, entry[j])
    BY <1>1 DEF JournalInv
  <2> QED
    BY <1>2, <2>1 DEF Fits, Sent
<1>4. WorldInv' /\ LateInv'
  BY <1>1, <1>2 DEF WorldInv, LateInv, Sent
<1> QED
  BY <1>3, <1>4

LEMMA TickKeeps ==
  ASSUME IInv, Tick
  PROVE  IInv'
<1>1. TypeOK /\ CallInv /\ now \in Nat
  BY DEF IInv, TypeOK
<1>2. /\ now' = now + 1 /\ now' \in Nat /\ now' >= now
      /\ UNCHANGED <<journal, admission, act, world, late, broken>>
  BY <1>1 DEF Tick
<1>3. /\ balance' = balance /\ paid' = paid /\ funded' = funded /\ minted' = minted
      /\ refused' = refused /\ created' = created /\ code' = code /\ control' = control
      /\ late' = late /\ cycles' = cycles /\ broken' = broken /\ entry' = entry
      /\ slots' = slots /\ tokens' = tokens /\ win' = win /\ act' = act
  BY <1>2 DEF world, ledger, cmc, children, journal, admission
<1>4. TypeOK'
  BY <1>1, <1>2, <1>3 DEF TypeOK
<1>5. JournalInv' /\ WorldInv' /\ LateInv'
  BY <1>2, <1>3, StillKeeps DEF children
<1>6. OwnerInv' /\ TicketInv' /\ IsFiniteSet(Creating)' /\ ReservationSafe'
  BY <1>2, <1>3, QuietKeeps
<1>7. CallInv'
  BY <1>1, <1>3 DEF CallInv, Knows, Answers, Sent
<1> QED
  BY <1>4, <1>5, <1>6, <1>7 DEF IInv

LEMMA DepositKeeps ==
  ASSUME IInv, NEW k \in Setup, Deposit(k)
  PROVE  IInv'
<1>1. TypeOK /\ CallInv /\ now \in Nat
  BY DEF IInv, TypeOK
<1>2. /\ balance' = [balance EXCEPT ![k] = Amount]
      /\ UNCHANGED <<now, journal, admission, act, paid, funded, cmc, children, late, broken>>
  BY DEF Deposit
<1>3. /\ paid' = paid /\ funded' = funded /\ minted' = minted
      /\ refused' = refused /\ created' = created /\ code' = code /\ control' = control
      /\ late' = late /\ cycles' = cycles /\ broken' = broken /\ entry' = entry
      /\ slots' = slots /\ tokens' = tokens /\ win' = win /\ act' = act
      /\ now' \in Nat /\ now' >= now
  BY <1>1, <1>2 DEF cmc, children, journal, admission
<1>4. TypeOK'
  <2>1. balance' \in [Setup -> Nat]
    BY <1>1, <1>2, PriceAssumption DEF TypeOK
  <2> QED
    BY <1>1, <1>2, <1>3, <2>1 DEF TypeOK
<1>5. JournalInv' /\ WorldInv' /\ LateInv'
  BY <1>2, <1>3, StillKeeps
<1>6. OwnerInv' /\ TicketInv' /\ IsFiniteSet(Creating)' /\ ReservationSafe'
  BY <1>2, <1>3, QuietKeeps
<1>7. CallInv'
  BY <1>1, <1>3 DEF CallInv, Knows, Answers, Sent
<1> QED
  BY <1>4, <1>5, <1>6, <1>7 DEF IInv

Replies == {"ok", "error", "terminal", "rejected", "unknown", "bad", "pre", "final"}

\* The call of p is answered with r.
LEMMA ReplyStep ==
  ASSUME IInv, NEW p \in Proc, Waiting(p), NEW r \in Replies, Reply(p, r)
  PROVE  /\ act' \in [Proc -> Calls] /\ (\A q \in Proc \ {p} : act'[q] = act[q])
         /\ act'[p] = [act[p] EXCEPT !.reply = r] /\ act'[p].reply = r
         /\ act[p].pc # "idle"
         /\ \A q \in Proc : /\ act'[q].pc = act[q].pc /\ act'[q].key = act[q].key
                            /\ act'[q].token = act[q].token /\ act'[q].phase = act[q].phase
                            /\ act'[q].rate = act[q].rate
<1>1. act \in [Proc -> Calls] /\ act[p] \in Calls
  BY DEF IInv, TypeOK
<1> DEFINE a == [act[p] EXCEPT !.reply = r]
<1>2. /\ a \in Calls /\ a.reply = r /\ a.pc = act[p].pc /\ a.key = act[p].key
      /\ a.token = act[p].token /\ a.phase = act[p].phase /\ a.rate = act[p].rate
  BY <1>1 DEF Calls, Replies
<1>3. act' = [act EXCEPT ![p] = a]
  BY DEF Reply
<1>4. act[p].pc # "idle"
  BY DEF Waiting, Acting, Asking
<1> HIDE DEF a
<1>5. /\ act'[p] = a /\ (\A q \in Proc \ {p} : act'[q] = act[q]) /\ act' \in [Proc -> Calls]
  BY <1>1, <1>2, <1>3
<1> QED
  BY <1>2, <1>4, <1>5 DEF a

LEMMA AnswerKeeps ==
  ASSUME IInv, NEW p \in Proc, Waiting(p), NEW r \in Replies, Reply(p, r),
         UNCHANGED <<now, journal, admission, ledger, minted, children, late, broken>>,
         refused' \in SUBSET Setup, Knows(act'[p], entry[act[p].key])
  PROVE  IInv'
<1>1. TypeOK /\ CallInv /\ now \in Nat
  BY DEF IInv, TypeOK
<1>2. /\ act' \in [Proc -> Calls] /\ (\A q \in Proc \ {p} : act'[q] = act[q])
      /\ \A q \in Proc : /\ act'[q].pc = act[q].pc /\ act'[q].key = act[q].key
                         /\ act'[q].token = act[q].token
  BY ReplyStep
<1>3. /\ balance' = balance /\ paid' = paid /\ funded' = funded /\ minted' = minted
      /\ created' = created /\ code' = code /\ control' = control
      /\ late' = late /\ cycles' = cycles /\ broken' = broken /\ entry' = entry
      /\ slots' = slots /\ tokens' = tokens /\ win' = win
      /\ now' = now /\ now' \in Nat /\ now' >= now
  BY <1>1 DEF ledger, children, journal, admission
<1>4. TypeOK'
  BY <1>1, <1>2, <1>3 DEF TypeOK
<1>5. JournalInv' /\ WorldInv' /\ LateInv'
  BY <1>3, StillKeeps
<1>6. OwnerInv' /\ TicketInv' /\ IsFiniteSet(Creating)' /\ ReservationSafe'
  BY <1>2, <1>3, QuietKeeps
<1>7. CallInv'
  <2> SUFFICES ASSUME NEW q \in Proc, act'[q].pc # "idle"
               PROVE  Knows(act[q], entry[act[q].key])'
    BY DEF CallInv
  <2>1. Knows(act'[q], entry[act'[q].key])
    BY <1>1, <1>2 DEF CallInv
  <2> QED
    BY <1>3, <2>1 DEF Knows, Answers, Sent
<1> QED
  BY <1>4, <1>5, <1>6, <1>7 DEF IInv

LEMMA RejectedKeeps ==
  ASSUME IInv, NEW p \in Proc, Rejected(p)
  PROVE  IInv'
<1> DEFINE r == IF act[p].pc \in {"pay", "fund"} THEN "rejected" ELSE "error"
<1>1. /\ Waiting(p) /\ Reply(p, r) /\ act[p].pc \in Acting /\ act[p].reply = "none"
      /\ UNCHANGED <<now, journal, admission, ledger, minted, children, late, broken, refused>>
  BY DEF Rejected, world, cmc, Waiting
<1>2. r \in Replies /\ (r = "rejected" => act[p].pc \in {"pay", "fund"}) /\ r # "ok"
      /\ r # "none" /\ r # "pre" /\ r # "final"
  BY DEF Replies
<1> HIDE DEF r
<1>3. /\ act'[p].reply = r /\ act[p].pc # "idle"
      /\ act'[p].pc = act[p].pc /\ act'[p].key = act[p].key /\ act'[p].token = act[p].token
      /\ act'[p].phase = act[p].phase /\ act'[p].rate = act[p].rate
  BY <1>1, <1>2, ReplyStep
<1>4. Knows(act[p], entry[act[p].key])
  BY <1>3, CallFacts
<1>5. Knows(act'[p], entry[act[p].key])
  BY <1>1, <1>2, <1>3, <1>4 DEF Knows, Answers
<1>6. refused' \in SUBSET Setup
  BY <1>1 DEF IInv, TypeOK
<1> QED
  BY <1>1, <1>2, <1>5, <1>6, AnswerKeeps

LEMMA RefusedForGoodKeeps ==
  ASSUME IInv, NEW p \in Proc, RefusedForGood(p)
  PROVE  IInv'
<1> DEFINE r == "terminal"
<1>1. /\ Waiting(p) /\ Reply(p, r) /\ act[p].pc = "mint" /\ r \in Replies
      /\ refused' = refused \cup {act[p].key}
      /\ UNCHANGED <<now, journal, admission, ledger, minted, children, late, broken>>
  BY DEF RefusedForGood, Replies
<1>3. /\ act'[p].reply = r /\ act[p].pc # "idle"
      /\ act'[p].pc = act[p].pc /\ act'[p].key = act[p].key /\ act'[p].token = act[p].token
      /\ act'[p].phase = act[p].phase /\ act'[p].rate = act[p].rate
  BY <1>1, ReplyStep
<1>4. Knows(act[p], entry[act[p].key])
  BY <1>3, CallFacts
<1>5. Knows(act'[p], entry[act[p].key])
  BY <1>1, <1>3, <1>4 DEF Knows
<1>6. refused' \in SUBSET Setup
  BY <1>1, <1>3, CallFacts DEF IInv, TypeOK
<1> QED
  BY <1>1, <1>5, <1>6, AnswerKeeps

LEMMA AnsweredKeeps ==
  ASSUME IInv, NEW p \in Proc, Answered(p)
  PROVE  IInv'
<1> DEFINE k == act[p].key
<1>1. PICK r \in {Observed(k), "error"} : Reply(p, r)
  BY DEF Answered
<1>2. /\ Waiting(p) /\ act[p].pc \in Asking
      /\ UNCHANGED <<now, journal, admission, ledger, minted, children, late, broken, refused>>
  BY DEF Answered, world, cmc
<1>3. /\ r \in {"bad", "pre", "final", "error"}
      /\ r \in {"pre", "final"} => code[k]
      /\ r = "final" => control[k] = "none"
  BY <1>1 DEF Observed
<1> HIDE DEF k
<1>4. r \in Replies
  BY <1>3 DEF Replies
<1>5. /\ act'[p].reply = r /\ act[p].pc # "idle"
      /\ act'[p].pc = act[p].pc /\ act'[p].key = act[p].key /\ act'[p].token = act[p].token
      /\ act'[p].phase = act[p].phase /\ act'[p].rate = act[p].rate
  BY <1>1, <1>2, <1>4, ReplyStep
<1>6. Knows(act[p], entry[act[p].key])
  BY <1>5, CallFacts
<1>7. Knows(act'[p], entry[act[p].key])
  BY <1>2, <1>3, <1>5, <1>6 DEF Knows, Asking, k
<1>8. refused' \in SUBSET Setup
  BY <1>2 DEF IInv, TypeOK
<1> QED
  BY <1>1, <1>2, <1>4, <1>7, <1>8, AnswerKeeps

\* What a call asks for and nobody has answered yet can still happen once.
LEMMA AwaitedFacts ==
  ASSUME IInv, NEW p \in Proc, Waiting(p), act[p].pc \in Acting
  PROVE  LET k == act[p].key  kind == act[p].pc IN
         /\ k \in Setup /\ entry[k] \in Entries /\ Fits(k, entry[k])
         /\ kind \in Bounded => TxOf(p) \in Transfers
         /\ TxOf(p) \in Transfers \cup {NoTx}
         /\ kind = "pay" => /\ paid[k] = 0 /\ Sent("pay", k) = {}
                            /\ entry[k].phase = "CmcTransferPrepared"
         /\ kind = "create" => /\ created[k] = 0 /\ Sent("create", k) = {}
                               /\ entry[k].phase = "CreateDispatched"
         /\ kind = "fund" => /\ funded[k] = 0 /\ Sent("fund", k) = {}
                             /\ entry[k].phase = "RelayFundingPrepared"
         /\ kind = "settings" => entry[k].phase = "FinalizationAttempted"
         /\ \A q \in Proc : q # p /\ kind \in {"pay", "create", "fund"} /\ act[q].pc = kind
                              => act[q].key # k
<1> DEFINE k == act[p].key
           kind == act[p].pc
<1>1. kind # "idle" /\ act[p].reply = "none"
  BY DEF Waiting, Acting
<1>2. /\ k \in Setup /\ entry[k] \in Entries /\ Fits(k, entry[k]) /\ Knows(act[p], entry[k])
      /\ (kind \in Exclusive => InPhase(k, PhaseOf(kind)))
  BY <1>1, CallFacts
<1>3. /\ (kind = "pay" => paid[k] = 0 /\ Sent("pay", k) = {})
      /\ (kind = "create" => created[k] = 0 /\ Sent("create", k) = {})
      /\ (kind = "fund" => funded[k] = 0 /\ Sent("fund", k) = {})
      /\ (kind = "settings" => entry[k].phase = "FinalizationAttempted")
      /\ (kind = "mint" => entry[k].phase \notin Unpaid)
  BY <1>1, <1>2 DEF Knows, Answers
<1>4. /\ (kind = "pay" => entry[k].phase = "CmcTransferPrepared")
      /\ (kind = "create" => entry[k].phase = "CreateDispatched")
      /\ (kind = "fund" => entry[k].phase = "RelayFundingPrepared")
  BY <1>2 DEF Exclusive, InPhase, PhaseOf
<1>5. /\ (kind \in {"pay", "mint"} => entry[k].pay \in Transfers)
      /\ (kind = "fund" => entry[k].fund \in Transfers)
  BY <1>2, <1>3, <1>4 DEF Fits, InPhase, Unsent, Unpaid, Uncreated, Childless,
                            Codeless, Unfunded, PreSpend, Paid, Funded
<1>6. /\ (kind \in Bounded => TxOf(p) \in Transfers) /\ TxOf(p) \in Transfers \cup {NoTx}
  BY <1>2, <1>5 DEF TxOf, Bounded, Entries
<1>7. \A q \in Proc : q # p /\ kind \in {"pay", "create", "fund"} /\ act[q].pc = kind
                              => act[q].key # k
  BY DEF IInv, OwnerInv, Exclusive
<1> QED
  BY <1>2, <1>3, <1>4, <1>6, <1>7

LEMMA GivenUpKeeps ==
  ASSUME IInv, NEW p \in Proc, GivenUp(p)
  PROVE  IInv'
<1>0. PICK k, kind, x : k = act[p].key /\ kind = act[p].pc /\ x = TxOf(p)
  OBVIOUS
<1> DEFINE r == IF kind = "mint" THEN "error" ELSE "unknown"
           new == [kind |-> kind, key |-> k, tx |-> x]
<1>1. /\ Waiting(p) /\ kind \in Bounded /\ kind \in Acting /\ Reply(p, r)
      /\ UNCHANGED <<now, journal, admission, world, broken>>
  BY <1>0 DEF GivenUp, Bounded, Acting
<1>2. late' = late \cup {new}
  BY <1>0, <1>1 DEF GivenUp, Abandoned, Request
<1>3. r \in {"error", "unknown"} /\ r \in Replies
  BY DEF Replies
<1>4. /\ k \in Setup /\ Fits(k, entry[k]) /\ x \in Transfers
      /\ (kind = "pay" => /\ paid[k] = 0 /\ Sent("pay", k) = {}
                          /\ entry[k].phase = "CmcTransferPrepared")
      /\ (kind = "fund" => /\ funded[k] = 0 /\ Sent("fund", k) = {}
                           /\ entry[k].phase = "RelayFundingPrepared")
      /\ \A q \in Proc : q # p /\ kind \in {"pay", "create", "fund"} /\ act[q].pc = kind
                              => act[q].key # k
  BY <1>0, <1>1, AwaitedFacts
<1> HIDE DEF r
<1>5. /\ new.kind = kind /\ new.key = k /\ new.tx = x
      /\ new \in [kind : Acting, key : Setup, tx : Transfers \cup {NoTx}]
  BY <1>1, <1>4
<1>6. /\ act' \in [Proc -> Calls] /\ (\A q \in Proc \ {p} : act'[q] = act[q])
      /\ act'[p].reply = r /\ act[p].pc # "idle"
      /\ \A q \in Proc : /\ act'[q].pc = act[q].pc /\ act'[q].key = act[q].key
                         /\ act'[q].token = act[q].token /\ act'[q].phase = act[q].phase
                         /\ act'[q].rate = act[q].rate
  BY <1>1, <1>3, ReplyStep
<1> HIDE DEF new
<1>7. /\ TypeOK /\ CallInv /\ JournalInv /\ WorldInv /\ LateInv /\ now \in Nat
  BY DEF IInv, TypeOK
<1>8. /\ balance' = balance /\ paid' = paid /\ funded' = funded /\ minted' = minted
      /\ refused' = refused /\ created' = created /\ code' = code /\ control' = control
      /\ cycles' = cycles /\ broken' = broken /\ entry' = entry
      /\ slots' = slots /\ tokens' = tokens /\ win' = win
      /\ now' = now /\ now' \in Nat /\ now' >= now
  BY <1>1, <1>7 DEF world, ledger, cmc, children, journal, admission
<1>9. /\ \A c, j : c # kind \/ j # k => Sent(c, j)' = Sent(c, j)
      /\ \A c : Sent(c, k)' \subseteq Sent(c, k) \cup {new}
      /\ kind \notin {"create", "settings"}
  <2>1. \A c, j : c # kind \/ j # k => Sent(c, j)' = Sent(c, j)
    BY <1>2, <1>5 DEF Sent
  <2>2. \A c : Sent(c, k)' \subseteq Sent(c, k) \cup {new}
    BY <1>2, <1>5 DEF Sent
  <2> QED
    BY <1>1, <2>1, <2>2 DEF Bounded
<1>10. TypeOK'
  BY <1>2, <1>5, <1>6, <1>7, <1>8 DEF TypeOK
<1>11. JournalInv'
  <2> SUFFICES ASSUME NEW j \in Setup PROVE Fits(j, entry[j])'
    BY DEF JournalInv
  <2>1. Fits(j, entry[j])
    BY <1>7 DEF JournalInv
  <2>2. CASE j # k
    BY <1>8, <1>9, <2>1, <2>2 DEF Fits
  <2>3. CASE j = k
    <3>1. /\ Sent("create", k)' = Sent("create", k) /\ Sent("settings", k)' = Sent("settings", k)
          /\ kind # "pay" => Sent("pay", k)' = Sent("pay", k)
          /\ kind # "fund" => Sent("fund", k)' = Sent("fund", k)
      BY <1>9
    <3>2. /\ kind = "pay" => entry[k].phase \in Unpaid /\ entry[k].phase \notin Unsent
          /\ kind = "fund" => entry[k].phase \notin Unfunded /\ entry[k].phase \notin Funded
      BY <1>4 DEF Unpaid, Unsent, PreSpend, Unfunded, Codeless, Childless, Uncreated, Paid, Funded
    <3> QED
      BY <1>8, <2>1, <2>3, <3>1, <3>2 DEF Fits
  <2> QED
    BY <2>2, <2>3
<1>12. WorldInv'
  <2> SUFFICES ASSUME NEW j \in Setup
               PROVE  /\ Once(paid[j], Sent("pay", j))' /\ Once(created[j], Sent("create", j))'
                      /\ Once(funded[j], Sent("fund", j))'
    BY <1>7, <1>8 DEF WorldInv
  <2>1. /\ Once(paid[j], Sent("pay", j)) /\ Once(created[j], Sent("create", j))
        /\ Once(funded[j], Sent("fund", j))
    BY <1>7 DEF WorldInv
  <2>2. Once(created[j], Sent("create", j))'
    BY <1>8, <1>9, <2>1 DEF Once
  <2>3. Once(paid[j], Sent("pay", j))'
    <3>1. CASE kind = "pay" /\ j = k
      BY <1>4, <1>8, <1>9, <3>1 DEF Once
    <3>2. CASE ~(kind = "pay" /\ j = k)
      BY <1>8, <1>9, <2>1, <3>2 DEF Once
    <3> QED
      BY <3>1, <3>2
  <2>4. Once(funded[j], Sent("fund", j))'
    <3>1. CASE kind = "fund" /\ j = k
      BY <1>4, <1>8, <1>9, <3>1 DEF Once
    <3>2. CASE ~(kind = "fund" /\ j = k)
      BY <1>8, <1>9, <2>1, <3>2 DEF Once
    <3> QED
      BY <3>1, <3>2
  <2> QED
    BY <2>2, <2>3, <2>4
<1>13. LateInv'
  BY <1>2, <1>4, <1>5, <1>7 DEF LateInv
<1>14. OwnerInv' /\ TicketInv' /\ IsFiniteSet(Creating)' /\ ReservationSafe'
  BY <1>1, <1>6, <1>8, QuietKeeps
<1>15. CallInv'
  <2> SUFFICES ASSUME NEW q \in Proc, act'[q].pc # "idle"
               PROVE  Knows(act[q], entry[act[q].key])'
    BY DEF CallInv
  <2>1. Knows(act[q], entry[act[q].key])
    BY <1>6, <1>7 DEF CallInv
  <2>2. CASE q = p
    BY <1>0, <1>1, <1>3, <1>6, <1>8, <2>1, <2>2 DEF Knows, Answers, Bounded
  <2>3. CASE q # p
    <3>0. PICK j : j = act[q].key
      OBVIOUS
    <3>1. act'[q] = act[q] /\ (act[q].pc # kind \/ j # k \/ kind = "mint")
      BY <1>1, <1>4, <1>6, <2>3, <3>0 DEF Bounded
    <3>2. /\ (act[q].pc = "pay" => Sent("pay", j)' = Sent("pay", j))
          /\ (act[q].pc = "create" => Sent("create", j)' = Sent("create", j))
          /\ (act[q].pc = "fund" => Sent("fund", j)' = Sent("fund", j))
      BY <1>9, <3>1
    <3> QED
      BY <1>8, <2>1, <3>0, <3>1, <3>2 DEF Knows, Answers
  <2> QED
    BY <2>2, <2>3
<1> QED
  BY <1>10, <1>11, <1>12, <1>13, <1>14, <1>15 DEF IInv

-----------------------------------------------------------------------------
(* Effects.                                                                  *)

\* A request of setup k that may take effect: the journal is where it was
\* sent, and what happens only once has not happened.
Ready(kind, k, x) ==
  /\ kind \in Bounded => x \in Transfers
  /\ kind = "pay" => paid[k] = 0 /\ entry[k].phase = "CmcTransferPrepared"
  /\ kind = "create" => created[k] = 0 /\ entry[k].phase = "CreateDispatched"
  /\ kind = "fund" => funded[k] = 0 /\ entry[k].phase = "RelayFundingPrepared"
  /\ kind = "settings" => entry[k].phase = "FinalizationAttempted"

\* What an effect does to the world.
LEMMA EffectTyped ==
  ASSUME IInv, NEW kind, NEW k \in Setup, NEW x, Effect(kind, k, x), Ready(kind, k, x)
  PROVE  /\ balance' \in [Setup -> Nat] /\ paid' \in [Setup -> Nat] /\ funded' \in [Setup -> Nat]
         /\ minted' \in [Setup -> Int] /\ created' \in [Setup -> Nat] /\ refused' = refused
         /\ code' \in [Setup -> BOOLEAN]
         /\ control' \in [Setup -> {"nobody", "historian", "none"}]
<1>1. TypeOK
  BY DEF IInv
<1>2. CASE kind \in {"pay", "fund"}
  <2>1. /\ x \in Transfers /\ balance[k] \in Nat /\ balance[k] >= x.amt + x.fee
        /\ balance' = [balance EXCEPT ![k] = @ - x.amt - x.fee] /\ UNCHANGED <<cmc, children>>
        /\ IF kind = "pay" THEN paid' = [paid EXCEPT ![k] = @ + 1] /\ UNCHANGED funded
           ELSE funded' = [funded EXCEPT ![k] = @ + 1] /\ UNCHANGED paid
    BY <1>1, <1>2 DEF Effect, Ready, Bounded, TypeOK
  <2>2. balance[k] - x.amt - x.fee \in Nat
    BY <2>1 DEF Transfers
  <2>3. /\ balance' \in [Setup -> Nat] /\ paid' \in [Setup -> Nat] /\ funded' \in [Setup -> Nat]
    BY <1>1, <2>1, <2>2 DEF TypeOK
  <2> QED
    BY <1>1, <2>1, <2>3 DEF TypeOK, cmc, children
<1>3. CASE kind = "mint"
  <2>1. minted' \in [Setup -> Int] /\ UNCHANGED <<ledger, refused, children>>
    <3>1. x \in Transfers /\ x.amt \in Int
      BY <1>3 DEF Ready, Bounded, Transfers
    <3>2. CASE UNCHANGED minted
      BY <1>1, <1>3, <3>2 DEF Effect, TypeOK
    <3>3. CASE \E r \in Rates : minted' = [minted EXCEPT ![k] = x.amt * r]
      <4>1. PICK r \in Rates : minted' = [minted EXCEPT ![k] = x.amt * r]
        BY <3>3
      <4>2. x.amt * r \in Int
        BY <3>1, PriceAssumption
      <4> QED
        BY <1>1, <1>3, <4>1, <4>2 DEF Effect, TypeOK
    <3> QED
      BY <1>3, <3>2, <3>3 DEF Effect
  <2> QED
    BY <1>1, <2>1 DEF TypeOK, ledger, children
<1>4. CASE kind = "create"
  <2>1. /\ created' = [created EXCEPT ![k] = @ + 1] /\ control' = [control EXCEPT ![k] = "historian"]
        /\ UNCHANGED <<ledger, cmc, code>>
    BY <1>4 DEF Effect
  <2> QED
    BY <1>1, <2>1 DEF TypeOK, ledger, cmc
<1>5. CASE kind = "install"
  <2>1. code' = [code EXCEPT ![k] = TRUE] /\ UNCHANGED <<ledger, cmc, created, control>>
    BY <1>5 DEF Effect
  <2> QED
    BY <1>1, <2>1 DEF TypeOK, ledger, cmc
<1>6. CASE kind = "settings"
  <2>1. control' = [control EXCEPT ![k] = "none"] /\ UNCHANGED <<ledger, cmc, created, code>>
    BY <1>6 DEF Effect
  <2> QED
    BY <1>1, <2>1 DEF TypeOK, ledger, cmc
<1> QED
  BY <1>2, <1>3, <1>4, <1>5, <1>6 DEF Effect

\* The effect of a request of setup k is its own, and happens once.
Does(kind, k) ==
  /\ \A j \in Setup \ {k} :
       /\ paid'[j] = paid[j] /\ funded'[j] = funded[j] /\ minted'[j] = minted[j]
       /\ created'[j] = created[j] /\ code'[j] = code[j] /\ control'[j] = control[j]
  /\ kind # "pay" => paid'[k] = paid[k]
  /\ kind = "pay" => paid[k] = 0 /\ paid'[k] = 1
  /\ kind # "fund" => funded'[k] = funded[k]
  /\ kind = "fund" => funded[k] = 0 /\ funded'[k] = 1
  /\ kind # "create" => created'[k] = created[k]
  /\ kind = "create" => /\ created[k] = 0 /\ created'[k] = 1
                        /\ control[k] = "nobody" /\ control'[k] = "historian"
  /\ kind # "mint" => minted'[k] = minted[k]
  /\ minted[k] # 0 => minted'[k] = minted[k]
  /\ kind = "mint" => paid[k] = 1
  /\ kind # "install" => code'[k] = code[k]
  /\ kind = "install" => control[k] = "historian" /\ code'[k] = TRUE
  /\ kind \notin {"create", "settings"} => control'[k] = control[k]
  /\ kind = "settings" => control[k] = "historian" /\ control'[k] = "none"

LEMMA EffectFacts ==
  ASSUME IInv, NEW kind, NEW k \in Setup, NEW x, Effect(kind, k, x), Ready(kind, k, x)
  PROVE  Does(kind, k)
<1> USE DEF Does
<1>1. TypeOK /\ WorldInv
  BY DEF IInv
<1>2. paid[k] \in {0, 1} /\ funded[k] \in {0, 1} /\ created[k] \in {0, 1}
      /\ (created[k] = 0 <=> control[k] = "nobody")
  BY <1>1 DEF WorldInv, Once
<1>3. CASE kind = "pay"
  <2>1. paid' = [paid EXCEPT ![k] = @ + 1] /\ UNCHANGED <<funded, cmc, children>> /\ paid[k] = 0
    BY <1>3 DEF Effect, Ready
  <2> QED
    BY <1>1, <1>3, <2>1 DEF TypeOK, cmc, children
<1>4. CASE kind = "fund"
  <2>1. funded' = [funded EXCEPT ![k] = @ + 1] /\ UNCHANGED <<paid, cmc, children>> /\ funded[k] = 0
    BY <1>4 DEF Effect, Ready
  <2> QED
    BY <1>1, <1>4, <2>1 DEF TypeOK, cmc, children
<1>5. CASE kind = "mint"
  <2>1. /\ paid[k] > 0 /\ UNCHANGED <<ledger, children>>
        /\ IF minted[k] # 0 THEN UNCHANGED minted
           ELSE \E r \in Rates : minted' = [minted EXCEPT ![k] = x.amt * r]
    BY <1>5 DEF Effect
  <2>2. paid[k] = 1
    BY <1>2, <2>1
  <2>3. /\ \A j \in Setup \ {k} : minted'[j] = minted[j]
        /\ minted[k] # 0 => minted'[k] = minted[k]
    BY <1>1, <2>1 DEF TypeOK
  <2> QED
    BY <1>5, <2>1, <2>2, <2>3 DEF ledger, children
<1>6. CASE kind = "create"
  <2>1. /\ created' = [created EXCEPT ![k] = @ + 1] /\ control' = [control EXCEPT ![k] = "historian"]
        /\ UNCHANGED <<ledger, cmc, code>> /\ created[k] = 0
    BY <1>6 DEF Effect, Ready
  <2> QED
    BY <1>1, <1>2, <1>6, <2>1 DEF TypeOK, ledger, cmc
<1>7. CASE kind = "install"
  <2>1. /\ control[k] = "historian" /\ code' = [code EXCEPT ![k] = TRUE]
        /\ UNCHANGED <<ledger, cmc, created, control>>
    BY <1>7 DEF Effect
  <2> QED
    BY <1>1, <1>7, <2>1 DEF TypeOK, ledger, cmc
<1>8. CASE kind = "settings"
  <2>1. /\ control[k] = "historian" /\ control' = [control EXCEPT ![k] = "none"]
        /\ UNCHANGED <<ledger, cmc, created, code>>
    BY <1>8 DEF Effect
  <2> QED
    BY <1>1, <1>8, <2>1 DEF TypeOK, ledger, cmc
<1> QED
  BY <1>3, <1>4, <1>5, <1>6, <1>7, <1>8 DEF Effect

\* Call q is not one that still expects this effect, or it is told of it.
Settled(q, kind, k) ==
  /\ act'[q].pc = act[q].pc /\ act'[q].key = act[q].key /\ act'[q].token = act[q].token
  /\ act'[q].phase = act[q].phase /\ act'[q].rate = act[q].rate
  /\ \/ /\ act'[q].reply = act[q].reply
        /\ \/ kind \notin {"pay", "create", "fund"} \/ act[q].pc # kind \/ act[q].key # k
           \/ act[q].reply \notin {"none", "rejected"}
     \/ act[q].pc = kind /\ act[q].key = k /\ act'[q].reply \in {"ok", "error", "terminal"}

LEMMA EffectKeeps ==
  ASSUME IInv, NEW kind \in Acting, NEW k \in Setup, NEW x,
         Effect(kind, k, x), Ready(kind, k, x),
         UNCHANGED <<now, journal, admission, broken>>,
         late' \subseteq late, kind \in {"pay", "create", "fund"} => Sent(kind, k)' = {},
         act' \in [Proc -> Calls], \A q \in Proc : Settled(q, kind, k)
  PROVE  IInv'
<1>1. /\ TypeOK /\ CallInv /\ JournalInv /\ WorldInv /\ LateInv /\ now \in Nat
  BY DEF IInv, TypeOK
<1>2. /\ cycles' = cycles /\ broken' = broken /\ entry' = entry
      /\ slots' = slots /\ tokens' = tokens /\ win' = win
      /\ now' = now /\ now' \in Nat /\ now' >= now
  BY <1>1 DEF journal, admission
<1>3. Does(kind, k)
  BY EffectFacts
<1> USE DEF Does
<1>4. TypeOK'
  BY <1>1, <1>2, EffectTyped DEF TypeOK
<1>5. \A c, j : Sent(c, j)' \subseteq Sent(c, j)
  BY DEF Sent
<1>6. JournalInv'
  <2> SUFFICES ASSUME NEW j \in Setup PROVE Fits(j, entry[j])'
    BY DEF JournalInv
  <2>1. Fits(j, entry[j])
    BY <1>1 DEF JournalInv
  <2>2. /\ Sent("pay", j) = {} => Sent("pay", j)' = {}
        /\ Sent("create", j) = {} => Sent("create", j)' = {}
        /\ Sent("fund", j) = {} => Sent("fund", j)' = {}
        /\ Sent("settings", j) = {} => Sent("settings", j)' = {}
    BY <1>5
  <2>3. CASE j # k
    BY <1>2, <1>3, <2>1, <2>2, <2>3 DEF Fits
  <2>4. CASE j = k
    <3>1. CASE kind = "pay"
      <4>1. entry[k].phase = "CmcTransferPrepared"
        BY <3>1 DEF Ready
      <4> QED
        BY <1>2, <1>3, <2>1, <2>2, <2>4, <3>1, <4>1 DEF Fits, Unpaid, Unsent, PreSpend
    <3>2. CASE kind = "create"
      <4>1. entry[k].phase = "CreateDispatched"
        BY <3>2 DEF Ready
      <4> QED
        BY <1>2, <1>3, <2>1, <2>2, <2>4, <3>2, <4>1
        DEF Fits, Childless, Uncreated, Unpaid, Unsent, PreSpend, Paid
    <3>3. CASE kind = "fund"
      <4>1. entry[k].phase = "RelayFundingPrepared"
        BY <3>3 DEF Ready
      <4> QED
        BY <1>2, <1>3, <2>1, <2>2, <2>4, <3>3, <4>1
        DEF Fits, Unfunded, Codeless, Childless, Uncreated, Unpaid, Unsent, PreSpend, Paid, Funded
    <3>4. CASE kind = "settings"
      <4>1. entry[k].phase = "FinalizationAttempted"
        BY <3>4 DEF Ready
      <4> QED
        BY <1>2, <1>3, <2>1, <2>2, <2>4, <3>4, <4>1 DEF Fits
    <3>5. CASE kind = "mint"
      BY <1>2, <1>3, <2>1, <2>2, <2>4, <3>5 DEF Fits
    <3>6. CASE kind = "install"
      BY <1>2, <1>3, <2>1, <2>2, <2>4, <3>6 DEF Fits
    <3> QED
      BY <3>1, <3>2, <3>3, <3>4, <3>5, <3>6 DEF Acting
  <2> QED
    BY <2>3, <2>4
<1>7. WorldInv'
  <2> SUFFICES ASSUME NEW j \in Setup
               PROVE  /\ Once(paid[j], Sent("pay", j))' /\ Once(created[j], Sent("create", j))'
                      /\ Once(funded[j], Sent("fund", j))'
                      /\ created'[j] = 0 <=> control'[j] = "nobody"
                      /\ code'[j] => created'[j] = 1
                      /\ minted'[j] # 0 => paid'[j] = 1
    BY DEF WorldInv
  <2>1. /\ Once(paid[j], Sent("pay", j)) /\ Once(created[j], Sent("create", j))
        /\ Once(funded[j], Sent("fund", j)) /\ created[j] \in {0, 1}
        /\ created[j] = 0 <=> control[j] = "nobody"
        /\ code[j] => created[j] = 1
        /\ minted[j] # 0 => paid[j] = 1
    BY <1>1 DEF WorldInv, Once
  <2>2. Once(paid[j], Sent("pay", j))'
    <3>1. CASE j = k /\ kind = "pay"
      BY <1>3, <3>1 DEF Once
    <3>2. CASE ~(j = k /\ kind = "pay")
      <4>1. paid'[j] = paid[j]
        BY <1>3, <3>2
      <4> QED
        BY <1>5, <2>1, <4>1 DEF Once
    <3> QED
      BY <3>1, <3>2
  <2>3. Once(created[j], Sent("create", j))'
    <3>1. CASE j = k /\ kind = "create"
      BY <1>3, <3>1 DEF Once
    <3>2. CASE ~(j = k /\ kind = "create")
      <4>1. created'[j] = created[j]
        BY <1>3, <3>2
      <4> QED
        BY <1>5, <2>1, <4>1 DEF Once
    <3> QED
      BY <3>1, <3>2
  <2>4. Once(funded[j], Sent("fund", j))'
    <3>1. CASE j = k /\ kind = "fund"
      BY <1>3, <3>1 DEF Once
    <3>2. CASE ~(j = k /\ kind = "fund")
      <4>1. funded'[j] = funded[j]
        BY <1>3, <3>2
      <4> QED
        BY <1>5, <2>1, <4>1 DEF Once
    <3> QED
      BY <3>1, <3>2
  <2>5. created'[j] = 0 <=> control'[j] = "nobody"
    BY <1>3, <2>1
  <2>6. code'[j] => created'[j] = 1
    BY <1>3, <2>1
  <2>7. minted'[j] # 0 => paid'[j] = 1
    BY <1>3, <2>1
  <2> QED
    BY <2>2, <2>3, <2>4, <2>5, <2>6, <2>7
<1>8. LateInv'
  BY <1>1 DEF LateInv
<1>9. OwnerInv' /\ TicketInv' /\ IsFiniteSet(Creating)' /\ ReservationSafe'
  BY <1>2, QuietKeeps DEF Settled
<1>10. CallInv'
  <2> SUFFICES ASSUME NEW q \in Proc, act'[q].pc # "idle"
               PROVE  Knows(act[q], entry[act[q].key])'
    BY DEF CallInv
  <2>1. /\ act'[q].pc = act[q].pc /\ act'[q].key = act[q].key /\ act'[q].token = act[q].token
        /\ act'[q].phase = act[q].phase /\ act'[q].rate = act[q].rate
    BY DEF Settled
  <2>2. PICK j : j = act[q].key
    OBVIOUS
  <2>3. Knows(act[q], entry[j]) /\ j \in Setup
    BY <1>1, <2>1, <2>2 DEF CallInv, Knows
  <2>4. act'[q].pc = "pay" => Answers(act'[q], paid'[j], Sent("pay", j)')
    <3>1. CASE kind = "pay" /\ j = k
      BY <1>3, <2>1, <2>2, <2>3, <3>1 DEF Settled, Knows, Answers
    <3>2. CASE ~(kind = "pay" /\ j = k)
      <4>1. paid'[j] = paid[j] /\ (act[q].pc = "pay" => act'[q].reply = act[q].reply)
        BY <1>3, <2>2, <2>3, <3>2 DEF Settled
      <4> QED
        BY <1>5, <2>1, <2>2, <2>3, <4>1 DEF Knows, Answers
    <3> QED
      BY <3>1, <3>2
  <2>5. act'[q].pc = "create" => Answers(act'[q], created'[j], Sent("create", j)')
    <3>1. CASE kind = "create" /\ j = k
      BY <1>3, <2>1, <2>2, <2>3, <3>1 DEF Settled, Knows, Answers
    <3>2. CASE ~(kind = "create" /\ j = k)
      <4>1. created'[j] = created[j] /\ (act[q].pc = "create" => act'[q].reply = act[q].reply)
        BY <1>3, <2>2, <2>3, <3>2 DEF Settled
      <4> QED
        BY <1>5, <2>1, <2>2, <2>3, <4>1 DEF Knows, Answers
    <3> QED
      BY <3>1, <3>2
  <2>6. act'[q].pc = "fund" => Answers(act'[q], funded'[j], Sent("fund", j)')
    <3>1. CASE kind = "fund" /\ j = k
      BY <1>3, <2>1, <2>2, <2>3, <3>1 DEF Settled, Knows, Answers
    <3>2. CASE ~(kind = "fund" /\ j = k)
      <4>1. funded'[j] = funded[j] /\ (act[q].pc = "fund" => act'[q].reply = act[q].reply)
        BY <1>3, <2>2, <2>3, <3>2 DEF Settled
      <4> QED
        BY <1>5, <2>1, <2>2, <2>3, <4>1 DEF Knows, Answers
    <3> QED
      BY <3>1, <3>2
  <2>7. act'[q].pc = "install" /\ act'[q].reply = "ok" => code'[j]
    <3>1. CASE kind = "install" /\ j = k
      BY <1>3, <3>1
    <3>2. CASE ~(kind = "install" /\ j = k)
      <4>1. code'[j] = code[j] /\ (act[q].pc = "install" => act'[q].reply = act[q].reply)
        BY <1>3, <2>2, <2>3, <3>2 DEF Settled
      <4> QED
        BY <2>1, <2>2, <2>3, <4>1 DEF Knows
    <3> QED
      BY <3>1, <3>2
  <2>8. act[q].pc \in Asking => act'[q].reply = act[q].reply
    BY DEF Settled, Acting, Asking
  <2>9. act'[q].pc = "reconcile" /\ act'[q].reply \in {"pre", "final"} => code'[j]
    BY <1>3, <2>1, <2>2, <2>3, <2>8 DEF Knows, Asking
  <2>10. act'[q].pc \in {"audit", "audit2"} /\ act'[q].reply = "final" => control'[j] = "none"
    BY <1>3, <2>1, <2>2, <2>3, <2>8 DEF Knows, Asking
  <2> QED
    BY <1>2, <2>1, <2>2, <2>3, <2>4, <2>5, <2>6, <2>7, <2>9, <2>10 DEF Knows, Answers
<1> QED
  BY <1>4, <1>6, <1>7, <1>8, <1>9, <1>10 DEF IInv

LEMMA ExecutedReady ==
  ASSUME IInv, NEW p \in Proc, Executed(p)
  PROVE  /\ act[p].key \in Setup /\ act[p].pc \in Acting
         /\ Effect(act[p].pc, act[p].key, TxOf(p)) /\ Ready(act[p].pc, act[p].key, TxOf(p))
<1>1. Waiting(p) /\ act[p].pc \in Acting /\ Effect(act[p].pc, act[p].key, TxOf(p))
  BY DEF Executed
<1> QED
  BY <1>1, AwaitedFacts DEF Ready

LEMMA ExecutedKeeps ==
  ASSUME IInv, NEW p \in Proc, Executed(p)
  PROVE  IInv'
<1>0. PICK k, kind, x : k = act[p].key /\ kind = act[p].pc /\ x = TxOf(p)
  OBVIOUS
<1>1. PICK r \in {"ok", "error", "terminal"} : Reply(p, r)
  <2>1. CASE act[p].pc \in {"pay", "fund"}
    BY <2>1 DEF Executed
  <2>2. CASE act[p].pc = "mint"
    BY <2>2 DEF Executed
  <2>3. CASE act[p].pc \notin {"pay", "fund", "mint"}
    BY <2>3 DEF Executed
  <2> QED
    BY <2>1, <2>2, <2>3
<1>2. /\ Waiting(p) /\ act[p].pc \in Acting /\ kind \in Acting /\ late' = late
      /\ UNCHANGED <<now, journal, admission, broken>>
  BY <1>0 DEF Executed
<1>3. k \in Setup /\ Effect(kind, k, x) /\ Ready(kind, k, x)
  BY <1>0, ExecutedReady
<1>4. /\ (kind = "pay" => Sent("pay", k) = {}) /\ (kind = "create" => Sent("create", k) = {})
      /\ (kind = "fund" => Sent("fund", k) = {})
      /\ \A q \in Proc : q # p /\ kind \in {"pay", "create", "fund"} /\ act[q].pc = kind
                              => act[q].key # k
  BY <1>0, <1>2, AwaitedFacts
<1>5. kind \in {"pay", "create", "fund"} => Sent(kind, k)' = {}
  BY <1>2, <1>4 DEF Sent
<1>6. /\ act' \in [Proc -> Calls] /\ (\A q \in Proc \ {p} : act'[q] = act[q])
      /\ act'[p].reply = r
      /\ \A q \in Proc : /\ act'[q].pc = act[q].pc /\ act'[q].key = act[q].key
                         /\ act'[q].token = act[q].token /\ act'[q].phase = act[q].phase
                         /\ act'[q].rate = act[q].rate
  BY <1>1, <1>2, ReplyStep DEF Replies
<1>7. ASSUME NEW q \in Proc PROVE Settled(q, kind, k)
  BY <1>0, <1>1, <1>4, <1>6 DEF Settled
<1> QED
  BY <1>2, <1>3, <1>5, <1>6, <1>7, EffectKeeps

\* A request whose caller no longer waits.
LEMMA LateReady ==
  ASSUME IInv, NEW r \in late
  PROVE  r.key \in Setup /\ r.kind \in Acting /\ Ready(r.kind, r.key, r.tx)
<1> DEFINE k == r.key
           ph == entry[k].phase
<1>1. /\ TypeOK /\ JournalInv /\ WorldInv /\ LateInv
  BY DEF IInv
<1>2. k \in Setup /\ r.kind \in Acting
  BY <1>1 DEF TypeOK
<1>3. Fits(k, entry[k]) /\ ph \in Phases \cup {"none"} /\ Sent(r.kind, k) # {}
  BY <1>1, <1>2 DEF JournalInv, TypeOK, Entries, Sent
<1>4. /\ Once(paid[k], Sent("pay", k)) /\ Once(created[k], Sent("create", k))
      /\ Once(funded[k], Sent("fund", k))
  BY <1>1, <1>2 DEF WorldInv
<1>5. r.kind \in Bounded => r.tx \in Transfers
  BY <1>1 DEF LateInv
<1> HIDE DEF k
<1>6. CASE r.kind = "pay"
  <2>1. paid[k] = 0 /\ ph \notin Unsent /\ ph \in Unpaid
    BY <1>3, <1>4, <1>6 DEF Fits, Once
  <2> QED
    BY <1>2, <1>5, <1>6, <2>1 DEF Ready, Unpaid, k
<1>7. CASE r.kind = "create"
  <2>1. created[k] = 0 /\ ph \notin Uncreated /\ ph \in Childless
    BY <1>3, <1>4, <1>7 DEF Fits, Once
  <2> QED
    BY <1>2, <1>5, <1>7, <2>1 DEF Ready, Childless, k
<1>8. CASE r.kind = "fund"
  <2>1. funded[k] = 0 /\ ph \notin Unfunded /\ ph \notin Funded
    BY <1>3, <1>4, <1>8 DEF Fits, Once
  <2>2. ph = "RelayFundingPrepared"
    BY <1>3, <2>1 DEF Unfunded, Codeless, Childless, Uncreated, Unpaid, Unsent, PreSpend,
                      Paid, Funded, Phases
  <2> QED
    BY <1>2, <1>5, <1>8, <2>1, <2>2 DEF Ready, k
<1>9. CASE r.kind = "settings"
  BY <1>2, <1>3, <1>5, <1>9 DEF Ready, Fits, k
<1>10. CASE r.kind \in {"mint", "install"}
  BY <1>2, <1>5, <1>10 DEF Ready, k
<1> QED
  BY <1>2, <1>6, <1>7, <1>8, <1>9, <1>10 DEF Acting

LEMMA LateExecuteKeeps ==
  ASSUME IInv, LateExecute
  PROVE  IInv'
<1>1. PICK r \in late : Effect(r.kind, r.key, r.tx) /\ late' = late \ {r}
  BY DEF LateExecute
<1>0. PICK k, kind, x : k = r.key /\ kind = r.kind /\ x = r.tx
  OBVIOUS
<1>2. /\ act' = act /\ UNCHANGED <<now, journal, admission, broken>> /\ late' \subseteq late
  BY <1>1 DEF LateExecute
<1>3. k \in Setup /\ kind \in Acting /\ Effect(kind, k, x) /\ Ready(kind, k, x)
  BY <1>0, <1>1, LateReady
<1>4. WorldInv /\ CallInv /\ act' \in [Proc -> Calls] /\ r \in Sent(kind, k)
  BY <1>0, <1>2 DEF IInv, TypeOK, Sent
<1>5. kind \in {"pay", "create", "fund"} => Sent(kind, k)' = {}
  <2>1. kind \in {"pay", "create", "fund"} => \A s \in Sent(kind, k) : s = r
    BY <1>3, <1>4 DEF WorldInv, Once
  <2>2. Sent(kind, k)' = Sent(kind, k) \ {r}
    BY <1>1 DEF Sent
  <2> QED
    BY <2>1, <2>2
<1>6. ASSUME NEW q \in Proc PROVE Settled(q, kind, k)
  <2>1. CASE kind \in {"pay", "create", "fund"} /\ act[q].pc = kind /\ act[q].key = k
    <3>1. Knows(act[q], entry[act[q].key])
      BY <1>4, <2>1 DEF CallInv
    <3>2. act[q].reply \notin {"none", "rejected"}
      BY <1>4, <2>1, <3>1 DEF Knows, Answers
    <3> QED
      BY <1>2, <3>2 DEF Settled
  <2>2. CASE ~(kind \in {"pay", "create", "fund"} /\ act[q].pc = kind /\ act[q].key = k)
    BY <1>2, <2>2 DEF Settled
  <2> QED
    BY <2>1, <2>2
<1> QED
  BY <1>2, <1>3, <1>4, <1>5, <1>6, EffectKeeps

-----------------------------------------------------------------------------
(* Upgrades.                                                                 *)

\* What an upgrade writes for a setup.
LEMMA ReconciledFacts ==
  ASSUME NEW e \in Entries
  PROVE  /\ Reconciled(e) \in Entries
         /\ \/ Reconciled(e) = e
            \/ Reconciled(e) = NoEntry /\ e.phase \in PreSpend
            \/ Reconciled(e) = Recovered(e) /\ e.tag = "creating"
         /\ e.tag # "creating" => Reconciled(e).tag # "creating"
<1>1. Recovered(e) \in Entries
  BY DEF Recovered, Entries
<1> QED
  BY <1>1, NoEntryTyped DEF Reconciled

LEMMA UpgradeKeeps ==
  ASSUME IInv, Upgrade
  PROVE  IInv'
<1>1. /\ TypeOK /\ CallInv /\ JournalInv /\ WorldInv /\ LateInv /\ OwnerInv /\ tokens \in Nat
      /\ IsFiniteSet(Creating) /\ ReservationSafe
  BY DEF IInv, TypeOK
<1>2. /\ paid' = paid /\ funded' = funded /\ minted' = minted /\ balance' = balance
      /\ refused' = refused /\ created' = created /\ code' = code /\ control' = control
      /\ cycles' \in InitialCycles /\ broken' = broken /\ tokens' = tokens /\ now' = now
      /\ slots' = {} /\ win' = [l \in Lanes |-> [number |-> 0, used |-> 0]]
      /\ act' = [p \in Proc |-> Idle]
  BY DEF Upgrade, world, ledger, cmc, children
<1>3. \A r \in late' : r \in late \/ \E p \in Proc : /\ Waiting(p) /\ act[p].pc \in Acting
                                                     /\ r = Request(p)
  <2> SUFFICES ASSUME NEW r \in late', r \notin late
               PROVE  \E p \in Proc : Waiting(p) /\ act[p].pc \in Acting /\ r = Request(p)
    OBVIOUS
  <2>1. PICK p \in Proc : r \in Abandoned(p)
    BY DEF Upgrade
  <2> QED
    BY <2>1 DEF Abandoned
<1>4. \A k \in Setup : entry'[k] = Reconciled(entry[k]) /\ entry[k] \in Entries
  BY <1>1 DEF Upgrade, TypeOK
<1>5. \A p \in Proc : Waiting(p) /\ act[p].pc \in Acting =>
         /\ Request(p).kind = act[p].pc /\ Request(p).key = act[p].key
         /\ Request(p).tx = TxOf(p)
  BY DEF Request
<1>6. TypeOK'
  <2>1. entry' \in [Setup -> Entries]
    <3>1. entry' = [k \in Setup |-> Reconciled(entry[k])]
      BY DEF Upgrade
    <3>2. \A k \in Setup : Reconciled(entry[k]) \in Entries
      BY <1>4, ReconciledFacts
    <3> QED
      BY <3>1, <3>2
  <2>2. act' \in [Proc -> Calls]
    BY <1>2, IdleTyped
  <2>3. late' \in SUBSET [kind : Acting, key : Setup, tx : Transfers \cup {NoTx}]
    <3> SUFFICES ASSUME NEW r \in late'
                 PROVE  r \in [kind : Acting, key : Setup, tx : Transfers \cup {NoTx}]
      OBVIOUS
    <3>1. CASE r \in late
      BY <1>1, <3>1 DEF TypeOK
    <3>2. CASE r \notin late
      <4>1. PICK p \in Proc : Waiting(p) /\ act[p].pc \in Acting /\ r = Request(p)
        BY <1>3, <3>2
      <4>2. act[p].key \in Setup /\ TxOf(p) \in Transfers \cup {NoTx}
        BY <4>1, AwaitedFacts
      <4> QED
        BY <4>1, <4>2 DEF Request
    <3> QED
      BY <3>1, <3>2
  <2>4. win' \in [Lanes -> [number : Nat, used : Nat]]
    BY <1>2
  <2> QED
    BY <1>1, <1>2, <2>1, <2>2, <2>3, <2>4 DEF TypeOK
<1>7. LateInv'
  <2> SUFFICES ASSUME NEW r \in late', r.kind \in Bounded PROVE r.tx \in Transfers
    BY DEF LateInv
  <2>1. CASE r \notin late
    <3>1. PICK p \in Proc : Waiting(p) /\ act[p].pc \in Acting /\ r = Request(p)
      BY <1>3, <2>1
    <3>2. act[p].pc \in Bounded
      BY <1>5, <3>1
    <3>3. TxOf(p) \in Transfers
      BY <3>1, <3>2, AwaitedFacts
    <3> QED
      BY <1>5, <3>1, <3>3
  <2> QED
    BY <1>1, <2>1 DEF LateInv
\* A request cut off is the only one of its kind for its setup.
<1>8. \A c \in {"pay", "create", "fund"}, k \in Setup :
        Sent(c, k)' # Sent(c, k) =>
          \E p \in Proc : /\ Waiting(p) /\ act[p].pc = c /\ act[p].key = k
                          /\ Sent(c, k) = {} /\ Sent(c, k)' = {Request(p)}
  <2> SUFFICES ASSUME NEW c \in {"pay", "create", "fund"}, NEW k \in Setup,
                      Sent(c, k)' # Sent(c, k)
               PROVE  \E p \in Proc : /\ Waiting(p) /\ act[p].pc = c /\ act[p].key = k
                                      /\ Sent(c, k) = {} /\ Sent(c, k)' = {Request(p)}
    OBVIOUS
  <2>1. Sent(c, k) \subseteq Sent(c, k)'
    BY DEF Sent, Upgrade
  <2>2. PICK s : s \in Sent(c, k)' /\ s \notin Sent(c, k)
    BY <2>1
  <2>3. s \in late' /\ s \notin late /\ s.kind = c /\ s.key = k
    BY <2>2 DEF Sent
  <2>4. PICK p \in Proc : Waiting(p) /\ act[p].pc \in Acting /\ s = Request(p)
    BY <1>3, <2>3
  <2>5. act[p].pc = c /\ act[p].key = k
    BY <1>5, <2>3, <2>4
  <2>6. Sent(c, k) = {} /\ \A q \in Proc : q # p /\ act[q].pc = c => act[q].key # k
    BY <2>4, <2>5, AwaitedFacts
  <2>7. ASSUME NEW u \in Sent(c, k)' PROVE u = s
    <3>1. u \in late' /\ u \notin late /\ u.kind = c /\ u.key = k
      BY <2>6 DEF Sent
    <3>2. PICK q \in Proc : Waiting(q) /\ act[q].pc \in Acting /\ u = Request(q)
      BY <1>3, <3>1
    <3>3. act[q].pc = c /\ act[q].key = k
      BY <1>5, <3>1, <3>2
    <3> QED
      BY <2>4, <2>6, <3>2, <3>3
  <2> QED
    BY <2>2, <2>4, <2>5, <2>6, <2>7
<1>9. \A k \in Setup : Sent("settings", k)' # Sent("settings", k) =>
        entry[k].phase = "FinalizationAttempted"
  <2> SUFFICES ASSUME NEW k \in Setup, Sent("settings", k)' # Sent("settings", k)
               PROVE  entry[k].phase = "FinalizationAttempted"
    OBVIOUS
  <2>1. PICK s : s \in Sent("settings", k)' /\ s \notin Sent("settings", k)
    BY DEF Sent, Upgrade
  <2>2. s \in late' /\ s \notin late /\ s.kind = "settings" /\ s.key = k
    BY <2>1 DEF Sent
  <2>3. PICK p \in Proc : Waiting(p) /\ act[p].pc \in Acting /\ s = Request(p)
    BY <1>3, <2>2
  <2>4. act[p].pc = "settings" /\ act[p].key = k
    BY <1>5, <2>2, <2>3
  <2> QED
    BY <2>3, <2>4, AwaitedFacts
<1>10. \A k \in Setup :
         /\ Sent("pay", k)' # Sent("pay", k) =>
               paid[k] = 0 /\ entry[k].phase = "CmcTransferPrepared"
         /\ Sent("create", k)' # Sent("create", k) =>
               created[k] = 0 /\ entry[k].phase = "CreateDispatched"
         /\ Sent("fund", k)' # Sent("fund", k) =>
               funded[k] = 0 /\ entry[k].phase = "RelayFundingPrepared"
  <2> SUFFICES ASSUME NEW k \in Setup
               PROVE  /\ Sent("pay", k)' # Sent("pay", k) =>
                           paid[k] = 0 /\ entry[k].phase = "CmcTransferPrepared"
                      /\ Sent("create", k)' # Sent("create", k) =>
                           created[k] = 0 /\ entry[k].phase = "CreateDispatched"
                      /\ Sent("fund", k)' # Sent("fund", k) =>
                           funded[k] = 0 /\ entry[k].phase = "RelayFundingPrepared"
    OBVIOUS
  <2>1. ASSUME NEW c \in {"pay", "create", "fund"}, Sent(c, k)' # Sent(c, k)
        PROVE  \E p \in Proc : Waiting(p) /\ act[p].pc = c /\ act[p].key = k /\ act[p].pc \in Acting
    BY <1>8, <2>1 DEF Acting
  <2> QED
    BY <2>1, AwaitedFacts
<1>11. JournalInv'
  <2> SUFFICES ASSUME NEW k \in Setup PROVE Fits(k, entry[k])'
    BY DEF JournalInv
  <2> DEFINE e == entry[k]
  <2>1. Fits(k, e) /\ e \in Entries /\ entry'[k] = Reconciled(e)
    BY <1>1, <1>4 DEF JournalInv
  <2>2. Fits(k, entry'[k])
    <3>1. CASE entry'[k] = NoEntry /\ e.phase \in PreSpend
      BY <2>1, <3>1, NoEntryTyped DEF Fits, Unsent, Unpaid, Uncreated, Childless,
                            Codeless, Unfunded, PreSpend, Paid, Funded
    <3>2. CASE entry'[k] = Recovered(e)
      BY <2>1, <3>2, RecoveredFits
    <3> QED
      BY <2>1, <3>1, <3>2, ReconciledFacts
  <2>3. \/ entry'[k].phase = e.phase
        \/ entry'[k].phase = "none" /\ e.phase \in PreSpend
    BY <2>1, ReconciledFacts, RecoveredFits, NoEntryTyped
  <2>4. /\ e.phase = "CmcTransferPrepared" \/ Sent("pay", k)' = Sent("pay", k)
        /\ e.phase = "CreateDispatched" \/ Sent("create", k)' = Sent("create", k)
        /\ e.phase = "RelayFundingPrepared" \/ Sent("fund", k)' = Sent("fund", k)
        /\ e.phase = "FinalizationAttempted" \/ Sent("settings", k)' = Sent("settings", k)
    BY <1>9, <1>10
  <2> HIDE DEF e
  <2>5. /\ entry'[k].phase = "CmcTransferPrepared" \/ Sent("pay", k)' = Sent("pay", k)
        /\ entry'[k].phase = "CreateDispatched" \/ Sent("create", k)' = Sent("create", k)
        /\ entry'[k].phase = "RelayFundingPrepared" \/ Sent("fund", k)' = Sent("fund", k)
        /\ entry'[k].phase = "FinalizationAttempted" \/ Sent("settings", k)' = Sent("settings", k)
    BY <2>3, <2>4 DEF PreSpend
  <2> QED
    BY <1>2, <2>2, <2>5 DEF Fits, Unsent, Unpaid, Uncreated, Childless,
                            Codeless, Unfunded, PreSpend, Paid, Funded
<1>12. WorldInv'
  <2> SUFFICES ASSUME NEW k \in Setup
               PROVE  /\ Once(paid[k], Sent("pay", k))' /\ Once(created[k], Sent("create", k))'
                      /\ Once(funded[k], Sent("fund", k))'
    BY <1>1, <1>2 DEF WorldInv
  <2>1. /\ Once(paid[k], Sent("pay", k)) /\ Once(created[k], Sent("create", k))
        /\ Once(funded[k], Sent("fund", k))
    BY <1>1 DEF WorldInv
  <2>2. ASSUME NEW c \in {"pay", "create", "fund"}, Sent(c, k)' # Sent(c, k)
        PROVE  \A r, s \in Sent(c, k)' : r = s
    BY <1>8, <2>2
  <2>3. Once(paid[k], Sent("pay", k))'
    BY <1>2, <1>10, <2>1, <2>2 DEF Once
  <2>4. Once(created[k], Sent("create", k))'
    BY <1>2, <1>10, <2>1, <2>2 DEF Once
  <2>5. Once(funded[k], Sent("fund", k))'
    BY <1>2, <1>10, <2>1, <2>2 DEF Once
  <2> QED
    BY <2>3, <2>4, <2>5
<1>13. \A p \in Proc : act'[p].pc = "idle" /\ "idle" \notin Exclusive
  BY <1>2, IdleTyped DEF Exclusive
<1>14. OwnerInv' /\ CallInv' /\ TicketInv'
  BY <1>2, <1>13 DEF OwnerInv, CallInv, TicketInv
<1>15. IsFiniteSet(Creating)' /\ Cardinality(Creating') <= MaxCreating
  <2>1. /\ Cardinality(Creating) \in Nat /\ Cardinality(Creating) <= MaxCreating
        /\ MaxCreating \in Nat
    BY <1>1, FS_CardinalityType, SizeAssumption DEF ReservationSafe
  <2>2. Creating' \subseteq Creating
    BY <1>4, ReconciledFacts DEF Creating
  <2>3. IsFiniteSet(Creating') /\ Cardinality(Creating') <= Cardinality(Creating)
        /\ Cardinality(Creating') \in Nat
    BY <1>1, <2>2, FS_Subset, FS_CardinalityType
  <2> QED
    BY <2>1, <2>3
<1>16. ReservationSafe'
  BY <1>13, <1>15 DEF ReservationSafe
<1> QED
  BY <1>6, <1>7, <1>11, <1>12, <1>14, <1>15, <1>16 DEF IInv

-----------------------------------------------------------------------------
(* The invariant.                                                            *)

LEMMA InitIInv == Init => IInv
<1> SUFFICES ASSUME Init PROVE IInv
  OBVIOUS
<1>1. \A p \in Proc : act[p] = Idle /\ act[p].pc = "idle" /\ "idle" \notin Exclusive
  BY IdleTyped DEF Init, Exclusive
<1>2. TypeOK
  BY IdleTyped, NoEntryTyped DEF Init, TypeOK
<1>3. \A c, k : Sent(c, k) = {}
  BY DEF Init, Sent
<1>4. JournalInv
  <2> SUFFICES ASSUME NEW k \in Setup PROVE Fits(k, entry[k])
    BY DEF JournalInv
  <2>1. /\ entry[k] = NoEntry /\ paid[k] = 0 /\ created[k] = 0 /\ funded[k] = 0
        /\ control[k] = "nobody"
    BY DEF Init
  <2> QED
    BY <1>3, <2>1, NoEntryTyped DEF Fits, Unsent, Unpaid, Uncreated, Childless,
                            Codeless, Unfunded, PreSpend, Paid, Funded
<1>5. WorldInv
  BY <1>3 DEF Init, WorldInv, Once
<1>6. OwnerInv /\ CallInv /\ TicketInv /\ LateInv
  BY <1>1 DEF Init, OwnerInv, CallInv, TicketInv, LateInv
<1>7. Creating = {}
  BY NoEntryTyped DEF Init, Creating
<1>8. IsFiniteSet(Creating) /\ ReservationSafe
  <2>1. IsFiniteSet(Creating) /\ Cardinality(Creating) = 0
    BY <1>7, FS_EmptySet
  <2> QED
    BY <1>1, <2>1, SizeAssumption DEF ReservationSafe
<1> QED
  BY <1>2, <1>4, <1>5, <1>6, <1>8 DEF IInv

LEMMA StutterIInv ==
  ASSUME IInv, UNCHANGED vars
  PROVE  IInv'
<1>1. TypeOK /\ CallInv /\ now \in Nat
  BY DEF IInv, TypeOK
<1>2. /\ balance' = balance /\ paid' = paid /\ funded' = funded /\ minted' = minted
      /\ refused' = refused /\ created' = created /\ code' = code /\ control' = control
      /\ late' = late /\ cycles' = cycles /\ broken' = broken /\ entry' = entry
      /\ slots' = slots /\ tokens' = tokens /\ win' = win /\ act' = act /\ now' = now
      /\ now' \in Nat /\ now' >= now
  BY <1>1 DEF vars, world, ledger, cmc, children, journal, admission
<1>3. TypeOK'
  BY <1>1, <1>2 DEF TypeOK
<1>4. JournalInv' /\ WorldInv' /\ LateInv'
  BY <1>2, StillKeeps DEF children, journal
<1>5. OwnerInv' /\ TicketInv' /\ IsFiniteSet(Creating)' /\ ReservationSafe'
  BY <1>2, QuietKeeps DEF journal, admission
<1>6. CallInv'
  BY <1>1, <1>2 DEF CallInv, Knows, Answers, Sent
<1> QED
  BY <1>3, <1>4, <1>5, <1>6 DEF IInv

LEMMA StepIInv == IInv /\ [Next]_vars => IInv'
<1> SUFFICES ASSUME IInv, [Next]_vars PROVE IInv'
  OBVIOUS
<1>1. ASSUME NEW p \in Proc, Call(p) PROVE IInv'
  BY <1>1, NotifyKeeps, BalanceReplyKeeps, QuoteReplyKeeps, NeuronReplyKeeps, ProbeReplyKeeps,
     PayReplyKeeps, MintReplyKeeps, CreateReplyKeeps, InstallReplyKeeps, ReconcileReplyKeeps,
     FundQuoteReplyKeeps, FundReplyKeeps, AuditReplyKeeps, SettingsReplyKeeps, Audit2ReplyKeeps
  DEF Call
<1>2. ASSUME NEW p \in Proc, World(p) PROVE IInv'
  BY <1>2, ExecutedKeeps, RejectedKeeps, RefusedForGoodKeeps, AnsweredKeeps, GivenUpKeeps,
     TrapKeeps DEF World
<1>3. ASSUME NEW k \in Setup, Deposit(k) PROVE IInv'
  BY <1>3, DepositKeeps
<1>4. CASE TurnedAway
  BY <1>4, TurnedAwayKeeps
<1>5. CASE Tick
  BY <1>5, TickKeeps
<1>6. CASE LateExecute
  BY <1>6, LateExecuteKeeps
<1>7. CASE Upgrade
  BY <1>7, UpgradeKeeps
<1>8. CASE UNCHANGED vars
  BY <1>8, StutterIInv
<1> QED
  BY <1>1, <1>2, <1>3, <1>4, <1>5, <1>6, <1>7, <1>8 DEF Next

\* The journal, the tickets and the requests on their way fit the world in
\* every reachable state, whatever calls overlap, expire, trap or are cut off.
THEOREM SetupInvariant == Spec => []IInv
  BY InitIInv, StepIInv, PTL DEF Spec

\* A live ticket protects the reservation made under it, and the factory never
\* has more setups in creation than it reserves cycles for.
THEOREM ReservationIsSafe == Spec => []ReservationSafe
<1>1. IInv => ReservationSafe
  BY DEF IInv
<1> QED
  BY <1>1, SetupInvariant, PTL

\* Money that was sent, or may yet be sent by a request on its way, is in the
\* journal, with its phase past the reservation and its transfer on record.
THEOREM SpendingJournalled == Spec => []SpendingIsJournalled
<1>1. IInv => SpendingIsJournalled
  <2> SUFFICES ASSUME IInv, NEW k \in Setup,
                      paid[k] > 0 \/ \E r \in late : r.key = k /\ r.kind = "pay"
               PROVE  /\ entry[k].tag # "none" /\ entry[k].phase \notin PreSpend
                      /\ entry[k].pay # NoTx
    BY DEF SpendingIsJournalled
  <2>1. Fits(k, entry[k])
    BY DEF IInv, JournalInv
  <2>2. paid[k] # 0 \/ Sent("pay", k) # {}
    BY DEF Sent
  <2>3. entry[k].phase \notin Unsent
    BY <2>1, <2>2 DEF Fits
  <2>4. entry[k].tag # "none" /\ entry[k].pay \in Transfers
    BY <2>1, <2>3 DEF Fits
  <2> QED
    BY <2>3, <2>4, NoneAssumption DEF Unsent
<1> QED
  BY <1>1, SetupInvariant, PTL

-----------------------------------------------------------------------------
(* Prices.                                                                   *)

\* From the quote until the child is funded.
Priced == {"CmcTransferPrepared", "CmcTransferAccepted", "CmcNotifySucceeded",
           "CreateDispatched", "ChildCreated", "CodeInstalled"}

\* What the account of a creation in progress still holds: before the payment
\* the payment, two fees and the minimum of the child, afterwards one fee less.
\* The payment buys the cycles of the configuration.
Affordable(k, e) ==
  /\ \E rate \in Rates : e.pay.amt = CmcConversion(rate)
  /\ paid[k] = 0 => balance[k] >= e.pay.amt + 2 * e.pay.fee + MinimumFunding(k)
  /\ paid[k] # 0 => balance[k] >= e.pay.fee + MinimumFunding(k)

Solvent(k, e) ==
  /\ e.phase \notin Unsent => e.pay.amt > 0
  /\ e.phase \in Unpaid => minted[k] = 0
  /\ e.phase \in Uncreated => e.child = 0
  /\ e.tag = "creating" /\ e.phase \in Priced => Affordable(k, e)
  /\ e.tag = "creating" /\ e.phase \in Paid =>
       e.pay.accepted /\ (minted[k] # 0 => minted[k] >= cycles)

\* Request x of a payment or a mint is about the payment on record in e.
Same(x, e) == e.phase \notin Unsent /\ x.amt = e.pay.amt /\ x.fee = e.pay.fee

\* What call a was told of the balance, and of the mint.
Told(a) ==
  /\ a.pc \in {"quote", "neuron", "probe"} /\ paid[a.key] = 0 => a.bal <= balance[a.key]
  /\ a.pc \in {"neuron", "probe"} => a.bal >= Requirement(a.key, a.fee, a.rate)
  /\ a.pc = "mint" /\ a.reply = "ok" => minted[a.key] # 0

SolventInv == \A k \in Setup : Solvent(k, entry[k])
SameInv == \A r \in late : r.kind \in {"pay", "mint"} =>
             Same(r.tx, entry[r.key]) /\ (r.kind = "mint" => entry[r.key].phase \notin Unpaid)
ToldInv == \A p \in Proc : Told(act[p])

PriceInv == SolventInv /\ SameInv /\ ToldInv /\ PromiseKept

\* What a phase early in a creation is not.
LEMMA EarlyPhases ==
  /\ Unsent \cap Priced = {} /\ Unsent \cap Paid = {} /\ Paid \subseteq Priced
  /\ Priced \cap Unpaid = {"CmcTransferPrepared"} /\ Paid \subseteq Uncreated
  /\ Unsent \subseteq Unpaid /\ Paid \cap Unpaid = {} /\ "CmcTransferPrepared" \notin Unsent
  BY DEF Priced, Paid, Unpaid, Unsent, PreSpend, Uncreated

\* The payment is a positive amount, and enough at any rate the CMC may use.
LEMMA MarginCovers ==
  ASSUME cycles \in InitialCycles, NEW rate \in Rates
  PROVE  /\ CmcConversion(rate) \in Nat /\ CmcConversion(rate) > 0
         /\ \A s \in Rates : /\ CmcConversion(rate) * s \in Int
                             /\ CmcConversion(rate) * s >= cycles
<1>1. cycles \in Nat /\ cycles > 0 /\ rate \in Nat /\ rate > 0 /\ Margin \in Nat
  BY PriceAssumption
<1>2. (cycles + rate - 1) \div rate \in Nat /\ (cycles + rate - 1) \div rate >= 1
  BY <1>1
<1>3. CmcConversion(rate) = (cycles + rate - 1) \div rate + Margin
  BY DEF CmcConversion, CeilDiv
<1>4. CmcConversion(rate) \in Nat /\ CmcConversion(rate) > 0
  BY <1>1, <1>2, <1>3
<1>5. \A s \in Rates : CmcConversion(rate) * s >= cycles
  BY RateAssumption DEF CmcConversion
<1>6. \A s \in Rates : CmcConversion(rate) * s \in Int
  BY <1>4, PriceAssumption
<1> QED
  BY <1>4, <1>5, <1>6

\* A step that moves no money and mints nothing: what it writes, asks and
\* sends is priced as before.
LEMMA StillPriced ==
  ASSUME PromiseKept, UNCHANGED <<cycles, paid, minted, balance, broken>>,
         \A k \in Setup : Solvent(k, entry'[k]),
         \A r \in late' : r.kind \in {"pay", "mint"} =>
           Same(r.tx, entry'[r.key]) /\ (r.kind = "mint" => entry'[r.key].phase \notin Unpaid),
         \A q \in Proc : Told(act'[q])
  PROVE  PriceInv'
<1>1. SolventInv'
  BY DEF SolventInv, Solvent, Affordable, CmcConversion
<1>2. SameInv'
  BY DEF SameInv, Same
<1>3. ToldInv'
  <2> SUFFICES ASSUME NEW q \in Proc PROVE Told(act[q])'
    BY DEF ToldInv
  <2>1. Told(act'[q])
    OBVIOUS
  <2> QED
    BY <2>1 DEF Told, Requirement, CmcConversion
<1> QED
  BY <1>1, <1>2, <1>3 DEF PriceInv, PromiseKept

\* How an entry may be followed by e: the payment on record stays, or there is
\* no request about it.
Follows(k, e) ==
  \/ e = entry[k]
  \/ /\ e.phase \notin Unsent /\ e.pay.amt = entry[k].pay.amt /\ e.pay.fee = entry[k].pay.fee
     /\ entry[k].phase \notin Unpaid => e.phase \notin Unpaid
  \/ entry[k].phase \in Unpaid /\ Sent("pay", k) = {}

\* Call p goes on as a, or returns, and writes e for its setup.
LEMMA CallPriced ==
  ASSUME IInv, PriceInv, NEW p \in Proc, NEW k \in Setup, NEW e \in Entries, NEW a \in Calls,
         entry' = [entry EXCEPT ![k] = e], act' = [act EXCEPT ![p] = a],
         UNCHANGED <<cycles, world, late, broken>>,
         Solvent(k, e), Follows(k, e), Told(a)
  PROVE  PriceInv'
<1>1. /\ TypeOK /\ SolventInv /\ SameInv /\ ToldInv /\ PromiseKept
  BY DEF IInv, PriceInv
<1>2. /\ entry'[k] = e /\ \A j \in Setup \ {k} : entry'[j] = entry[j]
  BY <1>1 DEF TypeOK
<1>3. /\ act'[p] = a /\ \A q \in Proc \ {p} : act'[q] = act[q]
  BY <1>1 DEF TypeOK
<1>4. UNCHANGED <<cycles, paid, minted, balance, broken>> /\ late' = late
  BY DEF world, ledger, cmc
<1>5. \A j \in Setup : Solvent(j, entry'[j])
  BY <1>1, <1>2 DEF SolventInv
<1>6. \A q \in Proc : Told(act'[q])
  BY <1>1, <1>3 DEF ToldInv
<1>7. ASSUME NEW r \in late', r.kind \in {"pay", "mint"}
      PROVE  /\ Same(r.tx, entry'[r.key])
             /\ r.kind = "mint" => entry'[r.key].phase \notin Unpaid
  <2>1. /\ r \in late /\ r.key \in Setup /\ Same(r.tx, entry[r.key])
        /\ r.kind = "mint" => entry[r.key].phase \notin Unpaid
    BY <1>1, <1>4, <1>7 DEF TypeOK, SameInv
  <2>2. CASE r.key # k
    BY <1>2, <2>1, <2>2
  <2>3. CASE r.key = k
    <3>1. r.kind = "pay" => Sent("pay", k) # {}
      BY <2>1, <2>3 DEF Sent
    <3>2. \/ e = entry[k]
          \/ /\ e.phase \notin Unsent /\ e.pay.amt = entry[k].pay.amt
             /\ e.pay.fee = entry[k].pay.fee
             /\ entry[k].phase \notin Unpaid => e.phase \notin Unpaid
      BY <1>7, <2>1, <2>3, <3>1 DEF Follows
    <3> QED
      BY <1>2, <2>1, <2>3, <3>2 DEF Same
  <2> QED
    BY <2>2, <2>3
<1> QED
  BY <1>1, <1>4, <1>5, <1>6, <1>7, StillPriced

\* What is priced where a call resumes.
LEMMA PricedFacts ==
  ASSUME IInv, PriceInv, NEW p \in Proc, act[p].pc # "idle"
  PROVE  LET k == act[p].key IN
         /\ k \in Setup /\ entry[k] \in Entries /\ act[p] \in Calls
         /\ Fits(k, entry[k]) /\ Solvent(k, entry[k]) /\ Told(act[p])
         /\ entry[k].phase \in Unsent => Sent("pay", k) = {}
<1>1. act[p].key \in Setup /\ Fits(act[p].key, entry[act[p].key])
  BY CallFacts
<1>2. Solvent(act[p].key, entry[act[p].key]) /\ Told(act[p])
  BY <1>1 DEF PriceInv, SolventInv, ToldInv
<1> QED
  BY <1>1, <1>2, CallFacts DEF Fits

LEMMA IdleTold == Idle \in Calls /\ Told(Idle)
  BY IdleTyped DEF Told

\* The call returns, and the entry is as it was.
LEMMA ReturnPriced ==
  ASSUME IInv, PriceInv, NEW p \in Proc, act[p].pc # "idle", Return(p)
  PROVE  PriceInv'
<1> DEFINE k == act[p].key
<1>1. k \in Setup /\ entry[k] \in Entries /\ Solvent(k, entry[k])
  BY PricedFacts
<1>2. /\ entry' = [entry EXCEPT ![k] = entry[k]] /\ UNCHANGED <<cycles, world, late, broken>>
      /\ act' = [act EXCEPT ![p] = Idle]
  BY <1>1 DEF Return, End, journal, IInv, TypeOK
<1>3. Follows(k, entry[k])
  BY DEF Follows
<1> QED
  BY <1>1, <1>2, <1>3, IdleTold, CallPriced

\* remove_owned_reservation, and a payment that was refused.
LEMMA RemovePriced ==
  ASSUME IInv, PriceInv, NEW p \in Proc, act[p].pc # "idle",
         entry[act[p].key].phase \in Unpaid, Sent("pay", act[p].key) = {},
         Put(act[p].key, NoEntry), End(p), UNCHANGED <<world, late, broken>>
  PROVE  PriceInv'
<1> DEFINE k == act[p].key
<1>1. k \in Setup
  BY PricedFacts
<1>2. /\ entry' = [entry EXCEPT ![k] = NoEntry] /\ UNCHANGED <<cycles, world, late, broken>>
      /\ act' = [act EXCEPT ![p] = Idle]
  BY DEF Put, End
<1>3. Solvent(k, NoEntry)
  BY PricedFacts, NoEntryTyped DEF Solvent, NoEntry, Unsent
<1>4. Follows(k, NoEntry)
  BY DEF Follows
<1> QED
  BY <1>1, <1>2, <1>3, <1>4, NoEntryTyped, IdleTold, CallPriced

\* remove_owned_reservation, if the reservation is the call's, then return.
LEMMA ReleasePriced ==
  ASSUME IInv, PriceInv, NEW p \in Proc, act[p].pc # "idle", NEW ph \in PreSpend, Release(p, ph)
  PROVE  PriceInv'
<1> DEFINE k == act[p].key
<1>1. CASE InPhase(k, ph) /\ OwnsReservation(p)
  <2>1. entry[k].phase \in Unsent /\ entry[k].phase \in Unpaid
    BY <1>1 DEF InPhase, Unpaid, Unsent
  <2> QED
    BY <1>1, <2>1, PricedFacts, RemovePriced DEF Release
<1>2. CASE ~(InPhase(k, ph) /\ OwnsReservation(p))
  BY <1>2, ReturnPriced DEF Release, Return
<1> QED
  BY <1>1, <1>2

\* manual_recovery where nothing was promised.
LEMMA GiveUpPriced ==
  ASSUME IInv, PriceInv, NEW p \in Proc, act[p].pc # "idle", GiveUp(p, entry[act[p].key])
  PROVE  PriceInv'
<1> DEFINE k == act[p].key
           e == Recovered(entry[k])
<1>1. /\ k \in Setup /\ entry[k] \in Entries /\ Solvent(k, entry[k])
      /\ entry[k].phase \in Unsent => Sent("pay", k) = {}
  BY PricedFacts
<1>2. /\ e \in Entries /\ e.tag = "manual" /\ e.phase = entry[k].phase /\ e.pay = entry[k].pay
      /\ e.child = entry[k].child
  BY <1>1 DEF Recovered, Entries
<1>3. /\ entry' = [entry EXCEPT ![k] = e] /\ UNCHANGED <<cycles, world, late, broken>>
      /\ act' = [act EXCEPT ![p] = Idle]
  BY DEF GiveUp, Put, End
<1> HIDE DEF e
<1>4. Solvent(k, e)
  BY <1>1, <1>2 DEF Solvent
<1>5. Follows(k, e)
  BY <1>1, <1>2, EarlyPhases DEF Follows
<1> QED
  BY <1>1, <1>2, <1>3, <1>4, <1>5, IdleTold, CallPriced

\* The next call is dispatched once its phase is recorded.
LEMMA AdvancePriced ==
  ASSUME IInv, PriceInv, NEW p \in Proc, act[p].pc # "idle", NEW e \in Entries,
         NEW pc \in {"pay", "mint", "create", "install", "reconcile", "fundQuote", "fund",
                     "settings", "audit2"},
         Put(act[p].key, e), To(p, pc), UNCHANGED <<world, late, broken>>,
         Solvent(act[p].key, e), Follows(act[p].key, e)
  PROVE  PriceInv'
<1> DEFINE k == act[p].key
           a == [act[p] EXCEPT !.pc = pc, !.reply = "none"]
<1>1. k \in Setup /\ act[p] \in Calls
  BY PricedFacts
<1>2. a \in Calls /\ a.pc = pc /\ a.reply = "none"
  BY <1>1 DEF Calls, Acting, Asking
<1>3. /\ entry' = [entry EXCEPT ![k] = e] /\ UNCHANGED <<cycles, world, late, broken>>
      /\ act' = [act EXCEPT ![p] = a]
  BY DEF Put, To, Await
<1> HIDE DEF a
<1>4. Told(a)
  BY <1>2 DEF Told
<1> QED
  BY <1>1, <1>2, <1>3, <1>4, CallPriced

\* The charge for further targets is an amount.
LEMMA ExtraTyped ==
  ASSUME NEW k \in Setup
  PROVE  ExtraCharge(k) \in Int
<1>1. PICK r \in Requests : k = KeyOf(r)
  BY DEF Setup
<1> DEFINE f == r.targets
<1>2. f \in Seq(Range(f))
  BY <1>1, RequestAssumption
<1>3. Len(f) \in Nat /\ k.targets = {f[i] : i \in 1..Len(f)}
  <2>1. Len(f) \in Nat /\ DOMAIN f = 1..Len(f)
    BY <1>2
  <2>2. k.targets = Range(f)
    BY <1>1 DEF KeyOf
  <2> QED
    BY <2>1, <2>2 DEF Range
<1>4. IsFiniteSet(1..Len(f))
  BY <1>3, FS_Interval
<1>5. IsFiniteSet({f[i] : i \in 1..Len(f)})
  <2>1. [i \in 1..Len(f) |-> f[i]] \in Surjection(1..Len(f), {f[i] : i \in 1..Len(f)})
    BY DEF Surjection
  <2> QED
    BY <1>4, <2>1, FS_Surjection
<1>6. Cardinality(k.targets) \in Nat
  BY <1>3, <1>5, FS_CardinalityType
<1> QED
  BY <1>6, PriceAssumption DEF ExtraCharge

\* Up to the payment: what the quote asked for is still in the account.
LEMMA QuotePriced ==
  ASSUME IInv, PriceInv, NEW p \in Proc, BalanceReply(p) \/ QuoteReply(p)
  PROVE  PriceInv'
<1> DEFINE k == act[p].key
<1>1. act[p].pc \in {"balance", "quote"}
  BY DEF BalanceReply, QuoteReply, Step
<1>2. /\ k \in Setup /\ act[p] \in Calls /\ entry[k] \in Entries /\ Solvent(k, entry[k])
      /\ Told(act[p]) /\ Fits(k, entry[k]) /\ balance[k] \in Nat
  BY <1>1, PricedFacts DEF IInv, TypeOK
<1>3. CASE Return(p)
  BY <1>1, <1>3, ReturnPriced
<1>4. CASE /\ Await(p, [act[p] EXCEPT !.pc = "quote", !.bal = balance[k]])
           /\ UNCHANGED <<journal, world, late, broken>>
  <2> DEFINE a == [act[p] EXCEPT !.pc = "quote", !.bal = balance[k]]
  <2>1. a \in Calls /\ a.pc = "quote" /\ a.key = k /\ a.bal = balance[k]
    BY <1>2 DEF Calls
  <2>2. act' = [act EXCEPT ![p] = a]
    BY <1>4 DEF Await
  <2> HIDE DEF a
  <2>3. Told(a)
    BY <1>2, <2>1 DEF Told
  <2>4. entry' = [entry EXCEPT ![k] = entry[k]] /\ UNCHANGED <<cycles, world, late, broken>>
    BY <1>2, <1>4 DEF journal, IInv, TypeOK
  <2>5. Follows(k, entry[k])
    BY DEF Follows
  <2> QED
    BY <1>2, <2>1, <2>2, <2>3, <2>4, <2>5, CallPriced
<1>5. ASSUME NEW fee \in Fees, NEW rate \in Rates, act[p].pc = "quote",
             act[p].bal >= Requirement(k, fee, rate), entry[k] = NoEntry, Put(k, Reservation),
             Await(p, [act[p] EXCEPT !.pc = "neuron", !.fee = fee, !.rate = rate]),
             UNCHANGED <<world, late, broken>>
      PROVE  PriceInv'
  <2> DEFINE a == [act[p] EXCEPT !.pc = "neuron", !.fee = fee, !.rate = rate]
  <2>1. fee \in Nat /\ rate \in Nat
    BY PriceAssumption
  <2>2. /\ a \in Calls /\ a.pc = "neuron" /\ a.key = k /\ a.bal = act[p].bal /\ a.fee = fee
        /\ a.rate = rate
    BY <1>2, <2>1 DEF Calls
  <2>3. act' = [act EXCEPT ![p] = a]
    BY <1>5 DEF Await
  <2> HIDE DEF a
  <2>4. Told(a)
    BY <1>2, <1>5, <2>2 DEF Told
  <2>5. Reservation.child = 0 /\ Reservation.phase = "Reserved" /\ Reservation \in Entries
    BY NoEntryTyped DEF Reservation, NoEntry
  <2>6. Solvent(k, Reservation)
    BY <1>2, <1>5, <2>5, NoEntryTyped DEF Solvent, Unpaid, Unsent, PreSpend, Priced, Paid
  <2>7. Follows(k, Reservation)
    BY <1>2, <1>5, NoEntryTyped DEF Follows, Fits, Unpaid, Unsent
  <2>8. entry' = [entry EXCEPT ![k] = Reservation] /\ UNCHANGED <<cycles, world, late, broken>>
    BY <1>5 DEF Put
  <2> QED
    BY <1>2, <2>2, <2>3, <2>4, <2>5, <2>6, <2>7, <2>8, CallPriced
<1> QED
  BY <1>1, <1>3, <1>4, <1>5 DEF BalanceReply, QuoteReply, MayReserve, Step

LEMMA NeuronPriced ==
  ASSUME IInv, PriceInv, NEW p \in Proc, NeuronReply(p)
  PROVE  PriceInv'
<1> DEFINE k == act[p].key
           e == [entry[k] EXCEPT !.phase = "ProbingTargets"]
           a == [act[p] EXCEPT !.pc = "probe", !.reply = "none"]
<1>1. act[p].pc = "neuron"
  BY DEF NeuronReply, Step
<1>2. CASE Release(p, "Reserved")
  BY <1>1, <1>2, ReleasePriced DEF PreSpend
<1>3. CASE /\ InPhase(k, "Reserved") /\ Put(k, e) /\ To(p, "probe")
           /\ UNCHANGED <<world, late, broken>>
  <2>1. /\ k \in Setup /\ act[p] \in Calls /\ entry[k] \in Entries /\ Solvent(k, entry[k])
        /\ Told(act[p]) /\ (entry[k].phase \in Unsent => Sent("pay", k) = {})
    BY <1>1, PricedFacts
  <2>2. e \in Entries /\ e.phase = "ProbingTargets" /\ e.child = entry[k].child
    BY <2>1 DEF Entries, Phases
  <2>3. /\ a \in Calls /\ a.pc = "probe" /\ a.key = k /\ a.bal = act[p].bal
        /\ a.fee = act[p].fee /\ a.rate = act[p].rate /\ act' = [act EXCEPT ![p] = a]
    BY <1>3, <2>1 DEF Calls, To, Await
  <2>4. entry' = [entry EXCEPT ![k] = e] /\ UNCHANGED <<cycles, world, late, broken>>
    BY <1>3 DEF Put
  <2> HIDE DEF a, e
  <2>5. Solvent(k, e)
    BY <1>3, <2>1, <2>2
    DEF Solvent, InPhase, Uncreated, Unpaid, Unsent, PreSpend, Priced, Paid
  <2>6. Follows(k, e) /\ Told(a)
    BY <1>1, <1>3, <2>1, <2>3 DEF Follows, Told, InPhase, Unpaid, Unsent, PreSpend
  <2> QED
    BY <2>1, <2>2, <2>3, <2>4, <2>5, <2>6, CallPriced
<1> QED
  BY <1>2, <1>3 DEF NeuronReply

LEMMA ProbePriced ==
  ASSUME IInv, PriceInv, NEW p \in Proc, ProbeReply(p)
  PROVE  PriceInv'
<1> DEFINE k == act[p].key
           x == Transfer(CmcConversion(act[p].rate), act[p].fee)
           e == [entry[k] EXCEPT !.phase = "CmcTransferPrepared", !.pay = x]
<1>1. act[p].pc = "probe"
  BY DEF ProbeReply, Step
<1>2. CASE Release(p, "ProbingTargets")
  BY <1>1, <1>2, ReleasePriced DEF PreSpend
<1>3. CASE /\ InPhase(k, "ProbingTargets") /\ Put(k, e) /\ To(p, "pay")
           /\ UNCHANGED <<world, late, broken>>
  <2>1. /\ k \in Setup /\ act[p] \in Calls /\ entry[k] \in Entries /\ Solvent(k, entry[k])
        /\ Told(act[p]) /\ Fits(k, entry[k]) /\ act[p].rate \in Rates /\ balance[k] \in Nat
        /\ cycles \in InitialCycles
    BY <1>1, PricedFacts, CallFacts DEF Knows, IInv, TypeOK
  <2>2. /\ paid[k] = 0 /\ Sent("pay", k) = {} /\ entry[k].phase \in Unpaid
        /\ entry[k].phase \in Uncreated
    BY <1>3, <2>1 DEF InPhase, Fits, Uncreated, Unpaid, Unsent, PreSpend
  <2>3. CmcConversion(act[p].rate) \in Nat /\ CmcConversion(act[p].rate) > 0
    BY <2>1, MarginCovers
  <2>4. x \in Transfers /\ x.amt = CmcConversion(act[p].rate) /\ x.fee = act[p].fee
    BY <2>1, <2>3 DEF Transfer, Transfers, Calls
  <2> HIDE DEF x
  <2>5. /\ e \in Entries /\ e.phase = "CmcTransferPrepared" /\ e.pay = x
        /\ e.child = entry[k].child
    BY <2>1, <2>4 DEF Entries, Phases
  <2> HIDE DEF e
  <2>6. balance[k] >= x.amt + 2 * x.fee + MinimumFunding(k)
    <3>1. balance[k] >= Requirement(k, act[p].fee, act[p].rate)
      <4>1. act[p].bal <= balance[k] /\ act[p].bal >= Requirement(k, act[p].fee, act[p].rate)
        BY <1>1, <2>1, <2>2 DEF Told
      <4>2. Requirement(k, act[p].fee, act[p].rate) \in Int
        BY <2>1, <2>3, ExtraTyped, PriceAssumption DEF Requirement, Calls
      <4> QED
        BY <2>1, <4>1, <4>2 DEF Calls
    <3> QED
      BY <2>1, <2>3, <2>4, <3>1, ExtraTyped, PriceAssumption DEF Requirement, MinimumFunding, Calls
  <2>7. Affordable(k, e)
    BY <2>1, <2>2, <2>4, <2>5, <2>6 DEF Affordable
  <2>8. Solvent(k, e)
    BY <2>1, <2>2, <2>3, <2>4, <2>5, <2>7 DEF Solvent, Paid
  <2>9. Follows(k, e)
    BY <2>2 DEF Follows
  <2> QED
    BY <1>1, <1>3, <2>5, <2>8, <2>9, AdvancePriced
<1> QED
  BY <1>2, <1>3 DEF ProbeReply

\* A reply that finds the entry in another phase.
LEMMA FencedPriced ==
  ASSUME IInv, PriceInv, NEW p \in Proc, NEW pc \in {"pay", "mint", "create", "install",
         "reconcile", "fundQuote", "fund"}, NEW ph, Fenced(p, pc, ph)
  PROVE  PriceInv'
  BY ReturnPriced DEF Fenced, Step

\* From the payment on the entry only advances: it keeps its tag and payment.
LEMMA LaterPriced ==
  ASSUME IInv, PriceInv, NEW p \in Proc, act[p].pc # "idle", NEW e \in Entries,
         LET f == entry[act[p].key] IN
           /\ f.phase \notin Unsent /\ e.phase \notin Uncreated
           /\ f.phase \notin Priced => e.phase \notin Priced
           /\ e.tag = f.tag /\ e.pay = f.pay
  PROVE  Solvent(act[p].key, e) /\ Follows(act[p].key, e)
<1>1. Solvent(act[p].key, entry[act[p].key])
  BY PricedFacts
<1>2. e.phase \notin Paid /\ e.phase \notin Unsent /\ e.phase \notin Unpaid
  BY EarlyPhases DEF Uncreated
<1> QED
  BY <1>1, <1>2 DEF Solvent, Affordable, Follows

LEMMA PayPriced ==
  ASSUME IInv, PriceInv, NEW p \in Proc, PayReply(p)
  PROVE  PriceInv'
<1> DEFINE k == act[p].key
           e == [entry[k] EXCEPT !.phase = "CmcTransferAccepted", !.pay.accepted = TRUE]
<1>1. act[p].pc = "pay"
  BY DEF PayReply, Fenced, Step
<1>2. /\ k \in Setup /\ entry[k] \in Entries /\ act[p] \in Calls /\ Fits(k, entry[k])
      /\ Solvent(k, entry[k]) /\ Knows(act[p], entry[k])
  BY <1>1, PricedFacts, CallFacts
<1>3. CASE Fenced(p, "pay", "CmcTransferPrepared")
  BY <1>3, FencedPriced
<1>4. CASE InPhase(k, "CmcTransferPrepared") /\ act[p].reply = "ok" /\ Advance(p, e, "mint")
  <2>1. paid[k] = 1
    BY <1>1, <1>2, <1>4 DEF Knows, Answers
  <2>2. /\ entry[k].phase = "CmcTransferPrepared" /\ entry[k].pay \in Transfers
        /\ entry[k].phase \notin Unsent /\ entry[k].phase \in Priced
        /\ entry[k].phase \in Uncreated /\ entry[k].tag = "creating"
    BY <1>2, <1>4 DEF InPhase, Fits, Unsent, PreSpend, Priced, Uncreated, Unpaid
  <2>3. /\ e \in Entries /\ e.phase = "CmcTransferAccepted" /\ e.child = entry[k].child
        /\ e.pay.amt = entry[k].pay.amt /\ e.pay.fee = entry[k].pay.fee /\ e.pay.accepted
        /\ e.tag = "creating"
    BY <1>2, <2>2 DEF Entries, Phases, Transfers
  <2> HIDE DEF e
  <2>4. Affordable(k, e) /\ \E rate \in Rates : e.pay.amt = CmcConversion(rate)
    BY <1>2, <2>1, <2>2, <2>3 DEF Solvent, Affordable
  <2>5. minted[k] = 0
    BY <1>2, <2>2, EarlyPhases DEF Solvent
  <2>6. Solvent(k, e)
    BY <1>2, <2>2, <2>3, <2>4, <2>5 DEF Solvent
  <2>7. e.phase \notin Unpaid /\ e.phase \notin Unsent
    BY <2>3 DEF Unpaid, Unsent, PreSpend
  <2>8. Follows(k, e)
    BY <2>3, <2>7 DEF Follows
  <2> QED
    BY <1>1, <1>4, <2>3, <2>6, <2>8, AdvancePriced DEF Advance
<1>5. CASE /\ InPhase(k, "CmcTransferPrepared") /\ act[p].reply = "rejected"
           /\ Put(k, NoEntry) /\ End(p) /\ UNCHANGED <<world, late, broken>>
  <2>1. Sent("pay", k) = {} /\ entry[k].phase \in Unpaid
    BY <1>1, <1>2, <1>5 DEF Knows, Answers, InPhase, Unpaid
  <2> QED
    BY <1>1, <1>5, <2>1, RemovePriced
<1>6. CASE GiveUp(p, entry[k])
  BY <1>1, <1>6, GiveUpPriced
<1> QED
  BY <1>3, <1>4, <1>5, <1>6 DEF PayReply, Advance

\* What was minted is what the configuration asks for: the promise is kept.
LEMMA MintPriced ==
  ASSUME IInv, PriceInv, NEW p \in Proc, MintReply(p)
  PROVE  PriceInv'
<1> DEFINE k == act[p].key
           m == [entry[k] EXCEPT !.minted = minted[k]]
           e == [m EXCEPT !.phase = "CreateDispatched"]
<1>1. act[p].pc = "mint"
  BY DEF MintReply, Fenced, Step
<1>2. /\ k \in Setup /\ entry[k] \in Entries /\ act[p] \in Calls /\ Fits(k, entry[k])
      /\ Solvent(k, entry[k]) /\ Told(act[p]) /\ minted[k] \in Int
  BY <1>1, PricedFacts DEF IInv, TypeOK
<1>3. CASE Fenced(p, "mint", "CmcTransferAccepted")
  BY <1>3, FencedPriced
<1>4. CASE Return(p)
  BY <1>1, <1>4, ReturnPriced
<1>5. CASE GiveUp(p, entry[k])
  BY <1>1, <1>5, GiveUpPriced
<1>6. CASE /\ InPhase(k, "CmcTransferAccepted") /\ act[p].reply = "ok"
           /\ IF MayCreate(m) THEN Advance(p, e, "create") ELSE Break(p, m)
  <2>1. /\ entry[k].phase = "CmcTransferAccepted" /\ entry[k].tag = "creating"
        /\ entry[k].phase \in Paid /\ entry[k].phase \notin Unsent
        /\ entry[k].phase \in Uncreated
    BY <1>6, EarlyPhases DEF InPhase, Paid
  <2>2. minted[k] >= cycles /\ entry[k].pay.accepted /\ entry[k].child = 0
    BY <1>1, <1>2, <1>6, <2>1 DEF Solvent, Told
  <2>3. entry[k].pay \in Transfers /\ entry[k].pay # NoTx
    BY <1>2, <2>1, NoneAssumption DEF Fits
  <2>4. m.minted = minted[k] /\ m.child = 0 /\ m.pay = entry[k].pay /\ m.tag = "creating"
        /\ m \in Entries
    BY <1>2, <2>1, <2>2 DEF Entries
  <2> HIDE DEF m
  <2>5. MayCreate(m)
    BY <2>2, <2>3, <2>4 DEF MayCreate
  <2>6. e \in Entries /\ e.phase = "CreateDispatched" /\ e.pay = m.pay /\ e.tag = m.tag
    BY <2>4 DEF Entries, Phases
  <2> HIDE DEF e
  <2>7. e.phase \notin Uncreated /\ entry[k].phase \in Priced
    BY <2>1, <2>6, EarlyPhases DEF Uncreated, Unpaid, Unsent, PreSpend, Paid
  <2>8. Solvent(k, e) /\ Follows(k, e)
    BY <1>1, <2>1, <2>4, <2>6, <2>7, LaterPriced
  <2> QED
    BY <1>1, <1>6, <2>5, <2>6, <2>8, AdvancePriced DEF Advance
<1> QED
  BY <1>3, <1>4, <1>5, <1>6 DEF MintReply

\* The child is created and its code installed, or the entry is given up.
LEMMA BuildPriced ==
  ASSUME IInv, PriceInv, NEW p \in Proc, CreateReply(p) \/ InstallReply(p) \/ ReconcileReply(p)
  PROVE  PriceInv'
<1> DEFINE k == act[p].key
           c == [entry[k] EXCEPT !.phase = "ChildCreated", !.child = created[k]]
           d == [entry[k] EXCEPT !.phase = "CodeInstalled"]
<1>1. act[p].pc \in {"create", "install", "reconcile"}
  BY DEF CreateReply, InstallReply, ReconcileReply, Fenced, Step
<1>2. /\ k \in Setup /\ entry[k] \in Entries /\ created[k] \in Nat
  BY <1>1, PricedFacts DEF IInv, TypeOK
<1>3. CASE GiveUp(p, entry[k])
  BY <1>1, <1>3, GiveUpPriced
<1>4. ASSUME NEW e \in Entries, e.phase \in {"ChildCreated", "CodeInstalled"},
             e.tag = entry[k].tag, e.pay = entry[k].pay,
             entry[k].phase \in {"CreateDispatched", "ChildCreated"},
             NEW pc \in {"install", "reconcile", "fundQuote"}, Advance(p, e, pc)
      PROVE  PriceInv'
  <2>1. /\ entry[k].phase \notin Unsent /\ e.phase \notin Uncreated /\ entry[k].phase \in Priced
    BY <1>4 DEF Uncreated, Unpaid, Unsent, PreSpend, Paid, Priced
  <2>2. Solvent(k, e) /\ Follows(k, e)
    BY <1>1, <1>4, <2>1, LaterPriced
  <2> QED
    BY <1>1, <1>4, <2>2, AdvancePriced DEF Advance
<1>5. /\ c \in Entries /\ c.phase = "ChildCreated" /\ c.tag = entry[k].tag /\ c.pay = entry[k].pay
      /\ d \in Entries /\ d.phase = "CodeInstalled" /\ d.tag = entry[k].tag /\ d.pay = entry[k].pay
  BY <1>2 DEF Entries, Phases
<1> HIDE DEF c, d
<1>6. CASE InPhase(k, "CreateDispatched") /\ Advance(p, c, "install")
  BY <1>4, <1>5, <1>6 DEF InPhase
<1>7. CASE InPhase(k, "ChildCreated") /\ Advance(p, d, "fundQuote")
  BY <1>4, <1>5, <1>7 DEF InPhase
<1>8. CASE InPhase(k, "ChildCreated") /\ Advance(p, entry[k], "reconcile")
  BY <1>2, <1>4, <1>8 DEF InPhase
<1>9. CASE CreateReply(p)
  BY <1>3, <1>6, <1>9, FencedPriced DEF CreateReply, c
<1>10. CASE InstallReply(p)
  BY <1>7, <1>8, <1>10, FencedPriced DEF InstallReply, d
<1>11. CASE ReconcileReply(p)
  BY <1>3, <1>7, <1>11, FencedPriced DEF ReconcileReply, d
<1> QED
  BY <1>9, <1>10, <1>11

\* The account still funds the child if the fee has not risen: the promise is
\* kept.
LEMMA FundPriced ==
  ASSUME IInv, PriceInv, NEW p \in Proc, FundQuoteReply(p) \/ FundReply(p)
  PROVE  PriceInv'
<1> DEFINE k == act[p].key
<1>1. act[p].pc \in {"fundQuote", "fund"}
  BY DEF FundQuoteReply, FundReply, Fenced, Step
<1>2. /\ k \in Setup /\ entry[k] \in Entries /\ act[p] \in Calls /\ Fits(k, entry[k])
      /\ Solvent(k, entry[k]) /\ balance[k] \in Nat
  BY <1>1, PricedFacts DEF IInv, TypeOK
<1>3. CASE GiveUp(p, entry[k])
  BY <1>1, <1>3, GiveUpPriced
<1>4. ASSUME NEW fee \in Fees, InPhase(k, "CodeInstalled"), balance[k] - fee < MinimumFunding(k)
      PROVE  ~(fee <= entry[k].pay.fee)
  <2>1. /\ entry[k].phase = "CodeInstalled" /\ entry[k].tag = "creating"
        /\ entry[k].phase \in Priced /\ entry[k].phase \notin Unpaid
    BY <1>4 DEF InPhase, Priced, Unpaid, Unsent, PreSpend
  <2>2. paid[k] = 1 /\ entry[k].pay \in Transfers
    BY <1>2, <2>1, EarlyPhases DEF Fits
  <2>3. balance[k] >= entry[k].pay.fee + MinimumFunding(k)
    BY <1>2, <2>1, <2>2 DEF Solvent, Affordable
  <2>4. MinimumFunding(k) \in Int
    BY <1>2, ExtraTyped, PriceAssumption DEF MinimumFunding
  <2> QED
    BY <1>2, <1>4, <2>2, <2>3, <2>4, PriceAssumption DEF Transfers
<1>5. ASSUME NEW fee \in Fees, InPhase(k, "CodeInstalled"),
             balance[k] - fee >= MinimumFunding(k),
             Advance(p, [entry[k] EXCEPT !.phase = "RelayFundingPrepared",
                           !.fund = Transfer(balance[k] - fee, fee)], "fund")
      PROVE  PriceInv'
  <2> DEFINE x == Transfer(balance[k] - fee, fee)
             e == [entry[k] EXCEPT !.phase = "RelayFundingPrepared", !.fund = x]
  <2>1. x \in Transfers
    BY <1>2, PriceAssumption DEF Transfer, Transfers
  <2> HIDE DEF x
  <2>2. /\ e \in Entries /\ e.phase = "RelayFundingPrepared" /\ e.tag = entry[k].tag
        /\ e.pay = entry[k].pay
    BY <1>2, <2>1 DEF Entries, Phases
  <2>3. Advance(p, e, "fund")
    BY <1>5 DEF x
  <2> HIDE DEF e
  <2>4. /\ entry[k].phase \notin Unsent /\ e.phase \notin Uncreated /\ e.phase \notin Priced
    BY <1>5, <2>2 DEF InPhase, Uncreated, Unpaid, Unsent, PreSpend, Paid, Priced
  <2>5. Solvent(k, e) /\ Follows(k, e)
    BY <1>1, <2>2, <2>4, LaterPriced
  <2> QED
    BY <1>1, <2>2, <2>3, <2>5, AdvancePriced DEF Advance
<1>6. CASE FundQuoteReply(p)
  <2>1. \A fee \in Fees : balance[k] - fee \in Int
    BY <1>2, PriceAssumption
  <2>2. MinimumFunding(k) \in Int
    BY <1>2, ExtraTyped, PriceAssumption DEF MinimumFunding
  <2>3. CASE Fenced(p, "fundQuote", "CodeInstalled")
    BY <2>3, FencedPriced
  <2>4. ASSUME NEW fee \in Fees, InPhase(k, "CodeInstalled"),
               IF balance[k] - fee >= MinimumFunding(k)
               THEN Advance(p, [entry[k] EXCEPT !.phase = "RelayFundingPrepared",
                                  !.fund = Transfer(balance[k] - fee, fee)], "fund")
               ELSE IF fee <= entry[k].pay.fee THEN Break(p, entry[k]) ELSE GiveUp(p, entry[k])
        PROVE  PriceInv'
    <3>1. CASE balance[k] - fee >= MinimumFunding(k)
      BY <1>5, <2>4, <3>1
    <3>2. CASE ~(balance[k] - fee >= MinimumFunding(k))
      <4>1. balance[k] - fee < MinimumFunding(k)
        BY <2>1, <2>2, <3>2
      <4> QED
        BY <1>3, <1>4, <2>4, <3>2, <4>1
    <3> QED
      BY <3>1, <3>2
  <2> QED
    BY <1>3, <1>6, <2>3, <2>4 DEF FundQuoteReply
<1>7. CASE FundReply(p)
  <2> DEFINE e == [entry[k] EXCEPT !.phase = "RelayFunded", !.fund.accepted = TRUE]
             a == [act[p] EXCEPT !.pc = "audit", !.reply = "none", !.phase = "RelayFunded"]
  <2>1. CASE Fenced(p, "fund", "RelayFundingPrepared")
    BY <2>1, FencedPriced
  <2>2. CASE /\ InPhase(k, "RelayFundingPrepared") /\ Put(k, e) /\ (Await(p, a) \/ End(p))
             /\ UNCHANGED <<world, late, broken>>
    <3>1. /\ entry[k].phase = "RelayFundingPrepared" /\ entry[k].phase \notin Unsent
          /\ entry[k].phase \notin Priced /\ entry[k].phase \notin Unfunded
          /\ entry[k].phase \notin Unpaid
      BY <2>2 DEF InPhase, Unfunded, Codeless, Childless, Uncreated, Unpaid, Unsent,
                  PreSpend, Paid, Priced
    <3>2. entry[k].fund \in Transfers
      BY <1>2, <3>1 DEF Fits
    <3>3. /\ e \in Entries /\ e.phase = "RelayFunded" /\ e.tag = entry[k].tag
          /\ e.pay = entry[k].pay
      BY <1>2, <3>2 DEF Entries, Phases, Transfers
    <3>4. a \in Calls /\ a.pc = "audit" /\ act' \in {[act EXCEPT ![p] = a], [act EXCEPT ![p] = Idle]}
      BY <1>2, <2>2 DEF Calls, Asking, Funded, Await, End
    <3>5. entry' = [entry EXCEPT ![k] = e] /\ UNCHANGED <<cycles, world, late, broken>>
      BY <2>2 DEF Put
    <3> HIDE DEF a, e
    <3>6. e.phase \notin Uncreated /\ e.phase \notin Priced
      BY <3>3 DEF Uncreated, Unpaid, Unsent, PreSpend, Paid, Priced
    <3>7. Solvent(k, e) /\ Follows(k, e)
      BY <1>1, <3>1, <3>3, <3>6, LaterPriced
    <3>8. Told(a)
      BY <3>4 DEF Told
    <3> QED
      BY <1>2, <3>3, <3>4, <3>5, <3>7, <3>8, IdleTold, CallPriced
  <2> QED
    BY <1>3, <1>7, <2>1, <2>2 DEF FundReply
<1> QED
  BY <1>6, <1>7, Zenon

LEMMA AuditPriced ==
  ASSUME IInv, PriceInv, NEW p \in Proc, AuditReply(p) \/ SettingsReply(p) \/ Audit2Reply(p)
  PROVE  PriceInv'
<1> DEFINE k == act[p].key
           e == [entry[k] EXCEPT !.phase = "FinalizationAttempted"]
           f == [entry[k] EXCEPT !.tag = "active"]
<1>1. act[p].pc \in {"audit", "settings", "audit2"}
  BY DEF AuditReply, SettingsReply, Audit2Reply, Step
<1>2. /\ k \in Setup /\ entry[k] \in Entries /\ act[p] \in Calls /\ Knows(act[p], entry[k])
      /\ Solvent(k, entry[k]) /\ entry \in [Setup -> Entries]
  BY <1>1, PricedFacts, CallFacts DEF IInv, TypeOK
<1>3. CASE Return(p)
  BY <1>1, <1>3, ReturnPriced
<1>4. CASE GiveUp(p, entry[k])
  BY <1>1, <1>4, GiveUpPriced
<1>5. ASSUME NEW ph \in Funded, InPhase(k, ph)
      PROVE  entry[k].phase \notin Unsent /\ entry[k].phase \notin Priced
             /\ entry[k].phase \notin Unpaid /\ entry[k].phase \notin Uncreated
  BY <1>5 DEF InPhase, Funded, Uncreated, Unpaid, Unsent, PreSpend, Paid, Priced
<1>6. ASSUME NEW ph \in Funded, InPhase(k, ph), Activate(p)
      PROVE  PriceInv'
  <2>1. /\ f \in Entries /\ f.tag = "active" /\ f.phase = entry[k].phase
        /\ f.pay = entry[k].pay /\ f.child = entry[k].child
    BY <1>2 DEF Entries
  <2>2. /\ entry' = [entry EXCEPT ![k] = f] /\ act' = [act EXCEPT ![p] = Idle]
        /\ UNCHANGED <<cycles, world, late, broken>>
    BY <1>6 DEF Activate, Put, End
  <2> HIDE DEF f
  <2>3. Solvent(k, f) /\ Follows(k, f)
    BY <1>2, <1>5, <1>6, <2>1 DEF Solvent, Follows
  <2> QED
    BY <1>2, <2>1, <2>2, <2>3, IdleTold, CallPriced
<1>7. ASSUME NEW ph \in Funded, InPhase(k, ph), Put(k, e), To(p, "settings") \/ End(p),
             UNCHANGED <<world, late, broken>>
      PROVE  PriceInv'
  <2>1. /\ e \in Entries /\ e.phase = "FinalizationAttempted" /\ e.tag = entry[k].tag
        /\ e.pay = entry[k].pay
    BY <1>2 DEF Entries, Phases
  <2>2. entry' = [entry EXCEPT ![k] = e] /\ UNCHANGED <<cycles, world, late, broken>>
    BY <1>7 DEF Put
  <2> HIDE DEF e
  <2>3. e.phase \notin Uncreated /\ e.phase \notin Priced
    BY <2>1 DEF Uncreated, Unpaid, Unsent, PreSpend, Paid, Priced
  <2>4. Solvent(k, e) /\ Follows(k, e)
    BY <1>1, <1>5, <1>7, <2>1, <2>3, LaterPriced
  <2>5. CASE End(p)
    BY <1>2, <2>1, <2>2, <2>4, <2>5, IdleTold, CallPriced DEF End
  <2>6. CASE To(p, "settings")
    BY <1>1, <1>7, <2>1, <2>4, <2>6, AdvancePriced
  <2> QED
    BY <1>7, <2>5, <2>6
<1>8. CASE AuditReply(p)
  <2>1. act[p].phase \in Funded
    BY <1>2, <1>8 DEF AuditReply, Step, Knows
  <2> QED
    BY <1>3, <1>4, <1>6, <1>7, <1>8, <2>1 DEF AuditReply
<1>9. CASE SettingsReply(p)
  <2>1. CASE To(p, "audit2") /\ UNCHANGED <<journal, world, late, broken>>
    <3>1. Put(k, entry[k]) /\ Follows(k, entry[k])
      BY <1>2, <2>1 DEF Put, journal, Follows
    <3> QED
      BY <1>1, <1>2, <2>1, <3>1, AdvancePriced
  <2> QED
    BY <1>3, <1>9, <2>1 DEF SettingsReply
<1>10. CASE Audit2Reply(p)
  BY <1>3, <1>4, <1>6, <1>10 DEF Audit2Reply, Funded
<1> QED
  BY <1>8, <1>9, <1>10

\* reclaim_abandoned_pre_spend_reservations takes no priced entry away.
LEMMA ReclaimPriced ==
  ASSUME IInv, PriceInv
  PROVE  /\ \A k \in Setup : Solvent(k, Reclaimed[k])
         /\ \A r \in late : r.kind \in {"pay", "mint"} =>
              /\ Same(r.tx, Reclaimed[r.key])
              /\ r.kind = "mint" => Reclaimed[r.key].phase \notin Unpaid
<1>1. ASSUME NEW k \in Setup PROVE Solvent(k, Reclaimed[k])
  <2>1. Solvent(k, entry[k])
    BY DEF PriceInv, SolventInv
  <2>2. CASE Reclaimed[k] = NoEntry /\ entry[k].phase \in PreSpend
    BY <2>1, <2>2, NoEntryTyped DEF Solvent, NoEntry, Unsent, Unpaid
  <2> QED
    BY <2>1, <2>2, ReclaimedFits
<1>2. ASSUME NEW r \in late, r.kind \in {"pay", "mint"}
      PROVE  Reclaimed[r.key] = entry[r.key]
  <2>1. r.key \in Setup /\ Same(r.tx, entry[r.key])
    BY <1>2 DEF PriceInv, SameInv, IInv, TypeOK
  <2> QED
    BY <2>1, ReclaimedFits DEF Same, Unsent
<1> QED
  BY <1>1, <1>2 DEF PriceInv, SameInv

LEMMA NotifyPriced ==
  ASSUME IInv, PriceInv, TurnedAway \/ \E p \in Proc : Notify(p)
  PROVE  PriceInv'
<1>1. /\ entry' = Reclaimed /\ UNCHANGED <<cycles, world, late, broken>>
  BY DEF TurnedAway, Notify, StartNew, Resume
<1>2. UNCHANGED <<cycles, paid, minted, balance, broken>> /\ late' = late
  BY <1>1 DEF world, ledger, cmc
<1>3. \A q \in Proc : Told(act'[q])
  <2>1. CASE TurnedAway
    BY <2>1 DEF TurnedAway, PriceInv, ToldInv
  <2>2. ASSUME NEW p \in Proc, Notify(p) PROVE \A q \in Proc : Told(act'[q])
    <3>1. PICK k \in Setup : StartNew(p, k) \/ Resume(p, k)
      BY <2>2 DEF Notify
    <3>2. ASSUME NEW pc \in {"balance", "mint", "audit"}
          PROVE  /\ NewCall(k, pc).pc = pc /\ NewCall(k, pc).reply = "none"
                 /\ [NewCall(k, pc) EXCEPT !.phase = entry[k].phase].pc = pc
                 /\ [NewCall(k, pc) EXCEPT !.phase = entry[k].phase].reply = "none"
      BY DEF NewCall, Idle
    <3>3. PICK a : act' = [act EXCEPT ![p] = a] /\ a.pc \in {"balance", "mint", "audit"}
                   /\ a.reply = "none"
      BY <3>1, <3>2 DEF StartNew, Resume
    <3>4. Told(a)
      BY <3>3 DEF Told
    <3> QED
      BY <3>3, <3>4 DEF PriceInv, ToldInv, IInv, TypeOK
  <2> QED
    BY <2>1, <2>2
<1> QED
  BY <1>1, <1>2, <1>3, ReclaimPriced, StillPriced DEF PriceInv

\* What the world does with a request that is about the payment on record: a
\* payment leaves a fee and the minimum of the child, a mint covers the cycles.
LEMMA EffectPriced ==
  ASSUME IInv, PriceInv, NEW kind, NEW k \in Setup, NEW x,
         Effect(kind, k, x), Ready(kind, k, x), UNCHANGED <<journal, broken>>,
         kind \in {"pay", "mint"} => Same(x, entry[k]),
         kind = "mint" => entry[k].phase \notin Unpaid,
         late' \subseteq late,
         \A q \in Proc : /\ act'[q].pc = act[q].pc /\ act'[q].key = act[q].key
                         /\ act'[q].bal = act[q].bal /\ act'[q].fee = act[q].fee
                         /\ act'[q].rate = act[q].rate
                         /\ \/ act'[q].reply = act[q].reply
                            \/ act[q].pc = kind /\ act[q].key = k
  PROVE  PriceInv'
<1>1. /\ TypeOK /\ JournalInv /\ WorldInv /\ CallInv /\ SolventInv /\ SameInv /\ ToldInv /\ PromiseKept
  BY DEF IInv, PriceInv
<1>2. entry' = entry /\ cycles' = cycles /\ broken' = broken
  BY DEF journal
<1>3. /\ \A j \in Setup \ {k} : paid'[j] = paid[j] /\ minted'[j] = minted[j]
      /\ kind # "pay" => paid'[k] = paid[k]
      /\ kind = "pay" => paid[k] = 0 /\ paid'[k] = 1
      /\ kind # "mint" => minted'[k] = minted[k]
      /\ minted[k] # 0 => minted'[k] = minted[k]
  <2>1. Does(kind, k)
    BY EffectFacts
  <2> QED
    BY <2>1 DEF Does
<1>4. /\ entry[k] \in Entries /\ Fits(k, entry[k]) /\ Solvent(k, entry[k]) /\ balance[k] \in Nat
      /\ cycles \in InitialCycles /\ cycles \in Int /\ minted[k] \in Int
  BY <1>1, PriceAssumption DEF TypeOK, JournalInv, SolventInv
<1>5. /\ \A j \in Setup \ {k} : balance'[j] = balance[j]
      /\ kind \notin {"pay", "fund"} => balance'[k] = balance[k]
      /\ kind \in {"pay", "fund"} => balance'[k] = balance[k] - x.amt - x.fee
  BY <1>1 DEF Effect, ledger, TypeOK
<1>6. kind = "mint" /\ minted[k] = 0 =>
        \E r \in Rates : minted'[k] = x.amt * r
  BY <1>1 DEF Effect, TypeOK
<1>7. kind = "fund" => paid[k] = 1 /\ entry[k].phase \notin Priced /\ entry[k].phase \notin Paid
  <2>1. kind = "fund" => entry[k].phase = "RelayFundingPrepared"
    BY DEF Ready
  <2> QED
    BY <1>4, <2>1 DEF Fits, Unpaid, Unsent, PreSpend, Priced, Paid
<1>8. ASSUME NEW rate \in Rates, entry[k].pay.amt = CmcConversion(rate), kind = "mint",
             minted[k] = 0
      PROVE  minted'[k] >= cycles
  <2>1. PICK r \in Rates : minted'[k] = x.amt * r
    BY <1>6, <1>8
  <2>2. x.amt = CmcConversion(rate)
    BY <1>8 DEF Same
  <2> QED
    BY <1>4, <2>1, <2>2, MarginCovers
<1>9. kind = "mint" => minted'[k] # 0
  <2>1. CASE kind = "mint" /\ minted[k] = 0
    <3>1. PICK r \in Rates : minted'[k] = x.amt * r
      BY <1>6, <2>1
    <3>2. x \in Transfers /\ x.amt > 0
      BY <1>4, <2>1 DEF Same, Solvent, Ready, Bounded
    <3>3. r \in Nat /\ r > 0 /\ x.amt \in Int
      BY <3>2, PriceAssumption DEF Transfers
    <3>4. x.amt * r > 0
      BY <3>2, <3>3
    <3> QED
      BY <3>1, <3>4
  <2> QED
    BY <1>3, <2>1
<1>10. SolventInv'
  <2> SUFFICES ASSUME NEW j \in Setup PROVE Solvent(j, entry[j])'
    BY DEF SolventInv
  <2>0. Solvent(j, entry[j])
    BY <1>1 DEF SolventInv
  <2>1. CASE j # k
    BY <1>2, <1>3, <1>5, <2>0, <2>1 DEF Solvent, Affordable, CmcConversion
  <2>2. CASE j = k
    <3> DEFINE e == entry[k]
    <3>1. /\ e.phase \notin Unsent => e.pay.amt > 0
          /\ e.phase \in Uncreated => e.child = 0
      BY <1>4 DEF Solvent
    <3>2. e.phase \in Unpaid => minted'[k] = 0
      BY <1>3, <1>4 DEF Solvent
    <3>3. ASSUME e.tag = "creating", e.phase \in Priced
          PROVE  /\ \E rate \in Rates : e.pay.amt = CmcConversion(rate)
                 /\ paid'[k] = 0 => balance'[k] >= e.pay.amt + 2 * e.pay.fee + MinimumFunding(k)
                 /\ paid'[k] # 0 => balance'[k] >= e.pay.fee + MinimumFunding(k)
      <4>1. Affordable(k, e) /\ kind # "fund"
        BY <1>4, <1>7, <3>3 DEF Solvent
      <4>2. CASE kind = "pay"
        <5>1. x.amt = e.pay.amt /\ x.fee = e.pay.fee /\ x \in Transfers
          BY <4>2 DEF Same, Ready, Bounded
        <5>2. MinimumFunding(k) \in Int
          BY ExtraTyped, PriceAssumption DEF MinimumFunding
        <5>3. balance[k] >= x.amt + 2 * x.fee + MinimumFunding(k)
          BY <1>3, <4>1, <4>2, <5>1 DEF Affordable
        <5>4. balance[k] - x.amt - x.fee >= x.fee + MinimumFunding(k)
          BY <1>4, <5>1, <5>2, <5>3 DEF Transfers
        <5> QED
          BY <1>3, <1>5, <4>1, <4>2, <5>1, <5>4 DEF Affordable
      <4>3. CASE kind # "pay"
        BY <1>3, <1>5, <4>1, <4>3 DEF Affordable
      <4> QED
        BY <4>2, <4>3
    <3>4. ASSUME e.tag = "creating", e.phase \in Paid
          PROVE  e.pay.accepted /\ (minted'[k] # 0 => minted'[k] >= cycles)
      <4>1. e.pay.accepted /\ (minted[k] # 0 => minted[k] >= cycles)
        BY <1>4, <3>4 DEF Solvent
      <4>2. \E rate \in Rates : e.pay.amt = CmcConversion(rate)
        BY <3>3, <3>4, EarlyPhases
      <4>3. CASE kind = "mint" /\ minted[k] = 0
        BY <1>8, <4>1, <4>2, <4>3
      <4>4. CASE kind # "mint" \/ minted[k] # 0
        BY <1>3, <4>1, <4>4
      <4> QED
        BY <4>3, <4>4
    <3> QED
      BY <1>2, <2>2, <3>1, <3>2, <3>3, <3>4 DEF Solvent, Affordable, CmcConversion
  <2> QED
    BY <2>1, <2>2
<1>11. SameInv'
  BY <1>1, <1>2 DEF SameInv, Same
<1>12. ToldInv'
  <2> SUFFICES ASSUME NEW q \in Proc PROVE Told(act[q])'
    BY DEF ToldInv
  <2>1. Told(act[q])
    BY <1>1 DEF ToldInv
  <2>2. act[q].pc \in {"quote", "neuron", "probe", "mint"} => act[q].key \in Setup
    BY <1>1 DEF CallInv, Knows
  <2>3. /\ act'[q].pc \in {"quote", "neuron", "probe"} /\ paid'[act'[q].key] = 0
             => act'[q].bal <= balance'[act'[q].key]
    BY <1>3, <1>5, <1>7, <2>1, <2>2 DEF Told
  <2>4. act'[q].pc \in {"neuron", "probe"} =>
          act'[q].bal >= Requirement(act'[q].key, act'[q].fee, act'[q].rate)
    BY <2>1 DEF Told
  <2>5. act'[q].pc = "mint" /\ act'[q].reply = "ok" => minted'[act'[q].key] # 0
    <3>1. \A j \in Setup : minted[j] # 0 => minted'[j] = minted[j]
      BY <1>3
    <3> QED
      BY <1>9, <2>1, <2>2, <3>1 DEF Told
  <2> QED
    BY <1>2, <2>3, <2>4, <2>5 DEF Told, Requirement, CmcConversion
<1> QED
  BY <1>1, <1>2, <1>10, <1>11, <1>12 DEF PriceInv, PromiseKept

\* A request of a call is about the payment on record.
LEMMA RequestPriced ==
  ASSUME IInv, PriceInv, NEW p \in Proc, Waiting(p), act[p].pc \in {"pay", "mint"}
  PROVE  LET k == act[p].key IN
         /\ k \in Setup /\ TxOf(p) = entry[k].pay /\ Same(TxOf(p), entry[k])
         /\ act[p].pc = "mint" => entry[k].phase \notin Unpaid
<1>1. act[p].key \in Setup /\ Knows(act[p], entry[act[p].key])
  BY CallFacts
<1>2. TxOf(p) = entry[act[p].key].pay
  BY DEF TxOf
<1>3. /\ act[p].pc = "mint" => entry[act[p].key].phase \notin Unpaid
      /\ act[p].pc = "pay" => entry[act[p].key].phase = "CmcTransferPrepared"
  BY <1>1, AwaitedFacts DEF Knows, Acting
<1> QED
  BY <1>1, <1>2, <1>3, EarlyPhases DEF Same

LEMMA ExecutedPriced ==
  ASSUME IInv, PriceInv, NEW p \in Proc, Executed(p)
  PROVE  PriceInv'
<1>1. PICK k, kind, x : k = act[p].key /\ kind = act[p].pc /\ x = TxOf(p)
  OBVIOUS
<1>2. k \in Setup /\ Effect(kind, k, x) /\ Ready(kind, k, x)
  BY <1>1, ExecutedReady
<1>3. Waiting(p) /\ UNCHANGED <<journal, broken>> /\ late' \subseteq late
  BY DEF Executed
<1>4. /\ kind \in {"pay", "mint"} => Same(x, entry[k])
      /\ kind = "mint" => entry[k].phase \notin Unpaid
  BY <1>1, <1>3, RequestPriced
<1>5. PICK r : act' = [act EXCEPT ![p].reply = r]
  BY DEF Executed, Reply
<1>6. ASSUME NEW q \in Proc
      PROVE  /\ act'[q].pc = act[q].pc /\ act'[q].key = act[q].key
             /\ act'[q].bal = act[q].bal /\ act'[q].fee = act[q].fee
             /\ act'[q].rate = act[q].rate
             /\ \/ act'[q].reply = act[q].reply
                \/ act[q].pc = kind /\ act[q].key = k
  BY <1>1, <1>5 DEF IInv, TypeOK, Calls
<1> QED
  BY <1>2, <1>3, <1>4, <1>6, EffectPriced

LEMMA LateExecutePriced ==
  ASSUME IInv, PriceInv, LateExecute
  PROVE  PriceInv'
<1>1. PICK s \in late : Effect(s.kind, s.key, s.tx) /\ late' = late \ {s}
  BY DEF LateExecute
<1>2. PICK k, kind, x : k = s.key /\ kind = s.kind /\ x = s.tx
  OBVIOUS
<1>3. k \in Setup /\ Effect(kind, k, x) /\ Ready(kind, k, x)
  BY <1>1, <1>2, LateReady
<1>4. /\ kind \in {"pay", "mint"} => Same(x, entry[k])
      /\ kind = "mint" => entry[k].phase \notin Unpaid
  BY <1>2 DEF PriceInv, SameInv
<1>5. UNCHANGED <<journal, act, broken>> /\ late' \subseteq late
  BY <1>1 DEF LateExecute
<1> QED
  BY <1>3, <1>4, <1>5, EffectPriced

\* An answer, or the end of a wait, that moves no money.
LEMMA AnswerPriced ==
  ASSUME IInv, PriceInv, NEW p \in Proc,
         Rejected(p) \/ RefusedForGood(p) \/ Answered(p) \/ GivenUp(p)
  PROVE  PriceInv'
<1>1. Waiting(p)
  BY DEF Rejected, RefusedForGood, Answered, GivenUp
<1>2. /\ UNCHANGED <<cycles, entry, paid, minted, balance, broken>>
      /\ late' \subseteq late \cup Abandoned(p)
  BY DEF Rejected, RefusedForGood, Answered, GivenUp, journal, world, ledger, cmc
<1>3. PICK r : act' = [act EXCEPT ![p].reply = r] /\ (act[p].pc = "mint" => r # "ok")
  <2>1. CASE Answered(p)
    BY <2>1 DEF Answered, Reply, Asking
  <2> QED
    BY <2>1 DEF Rejected, RefusedForGood, GivenUp, Reply
<1>4. ASSUME NEW q \in Proc PROVE Told(act'[q])
  <2>1. Told(act[q])
    BY DEF PriceInv, ToldInv
  <2>2. /\ act'[q].pc = act[q].pc /\ act'[q].key = act[q].key
        /\ act'[q].bal = act[q].bal /\ act'[q].fee = act[q].fee
        /\ act'[q].rate = act[q].rate
        /\ act'[q].pc = "mint" /\ act'[q].reply = "ok" => act[q].reply = "ok"
    BY <1>3 DEF IInv, TypeOK, Calls
  <2> QED
    BY <2>1, <2>2 DEF Told
<1>5. ASSUME NEW s \in late', s.kind \in {"pay", "mint"}
      PROVE  /\ Same(s.tx, entry'[s.key])
             /\ s.kind = "mint" => entry'[s.key].phase \notin Unpaid
  <2>1. CASE s \in late
    BY <1>2, <1>5, <2>1 DEF PriceInv, SameInv
  <2>2. CASE s = Request(p)
    BY <1>1, <1>2, <1>5, <2>2, RequestPriced DEF Request
  <2> QED
    BY <1>2, <2>1, <2>2 DEF Abandoned
<1> QED
  BY <1>2, <1>4, <1>5, StillPriced DEF PriceInv, SolventInv

\* Time passes, or a user pays in.
LEMMA OutsidePriced ==
  ASSUME IInv, PriceInv, Tick \/ \E k \in Setup : Deposit(k)
  PROVE  PriceInv'
<1>1. /\ UNCHANGED <<cycles, entry, paid, minted, act, late, broken>>
  BY DEF Tick, Deposit, journal, world, ledger, cmc
<1>2. \A k \in Setup : balance'[k] \in Nat /\ balance[k] \in Nat /\ balance'[k] >= balance[k]
  <2>1. balance \in [Setup -> Nat]
    BY DEF IInv, TypeOK
  <2>2. ASSUME NEW k \in Setup, Deposit(k)
        PROVE  \A j \in Setup : balance'[j] \in Nat /\ balance'[j] >= balance[j]
    BY <2>1, <2>2, PriceAssumption DEF Deposit
  <2>3. CASE Tick
    BY <2>1, <2>3 DEF Tick, world, ledger
  <2> QED
    BY <2>1, <2>2, <2>3
<1>3. SolventInv'
  <2> SUFFICES ASSUME NEW k \in Setup PROVE Solvent(k, entry[k])'
    BY DEF SolventInv
  <2> DEFINE e == entry[k]
  <2>1. Solvent(k, e) /\ e \in Entries /\ Fits(k, e)
    BY DEF PriceInv, SolventInv, IInv, TypeOK, JournalInv
  <2>2. ASSUME e.tag = "creating", e.phase \in Priced
        PROVE  /\ \E rate \in Rates : e.pay.amt = CmcConversion(rate)
               /\ paid[k] = 0 => balance'[k] >= e.pay.amt + 2 * e.pay.fee + MinimumFunding(k)
               /\ paid[k] # 0 => balance'[k] >= e.pay.fee + MinimumFunding(k)
    <3>1. Affordable(k, e)
      BY <2>1, <2>2 DEF Solvent
    <3>2. e.pay \in Transfers
      BY <2>1, <2>2, EarlyPhases DEF Fits
    <3>3. MinimumFunding(k) \in Int
      BY ExtraTyped, PriceAssumption DEF MinimumFunding
    <3> QED
      BY <1>2, <3>1, <3>2, <3>3 DEF Affordable, Transfers
  <2> QED
    BY <1>1, <2>1, <2>2 DEF Solvent, Affordable, CmcConversion
<1>4. SameInv'
  BY <1>1 DEF PriceInv, SameInv, Same
<1>5. ToldInv'
  <2> SUFFICES ASSUME NEW q \in Proc PROVE Told(act[q])'
    BY DEF ToldInv
  <2>1. Told(act[q])
    BY DEF PriceInv, ToldInv
  <2>2. act[q].pc # "idle" => act[q].key \in Setup /\ act[q].bal \in Nat
    BY CallFacts DEF Calls
  <2> QED
    BY <1>1, <1>2, <2>1, <2>2 DEF Told, Requirement, CmcConversion
<1> QED
  BY <1>1, <1>3, <1>4, <1>5 DEF PriceInv, PromiseKept

\* A new configuration is taken only when no creation is priced with the old
\* one, and no quote survives an upgrade.
LEMMA UpgradePriced ==
  ASSUME IInv, PriceInv, Upgrade
  PROVE  PriceInv'
<1>1. /\ UNCHANGED <<paid, minted, balance, broken>> /\ act' = [p \in Proc |-> Idle]
      /\ cycles' = cycles \/ Creating = {}
      /\ late' = late \cup UNION {Abandoned(p) : p \in Proc}
  BY DEF Upgrade, MayConfigure, world, ledger, cmc
<1>2. ASSUME NEW k \in Setup
      PROVE  /\ entry'[k] = Reconciled(entry[k]) /\ entry[k] \in Entries
             /\ Solvent(k, entry[k]) /\ Reconciled(entry[k]) \in Entries
             /\ \/ Reconciled(entry[k]) = entry[k]
                \/ Reconciled(entry[k]) = NoEntry /\ entry[k].phase \in PreSpend
                \/ /\ Reconciled(entry[k]).tag = "manual"
                   /\ Reconciled(entry[k]).phase = entry[k].phase
                   /\ Reconciled(entry[k]).pay = entry[k].pay
                   /\ Reconciled(entry[k]).child = entry[k].child
  <2>1. /\ entry'[k] = Reconciled(entry[k]) /\ entry[k] \in Entries /\ Solvent(k, entry[k])
    BY DEF Upgrade, PriceInv, SolventInv, IInv, TypeOK
  <2>2. /\ Recovered(entry[k]).tag = "manual" /\ Recovered(entry[k]).phase = entry[k].phase
        /\ Recovered(entry[k]).pay = entry[k].pay /\ Recovered(entry[k]).child = entry[k].child
    BY <2>1 DEF Recovered, Entries
  <2> QED
    BY <2>1, <2>2, ReconciledFacts
<1>3. SolventInv'
  <2> SUFFICES ASSUME NEW k \in Setup PROVE Solvent(k, entry[k])'
    BY DEF SolventInv
  <2>1. CASE Reconciled(entry[k]) = NoEntry /\ entry[k].phase \in PreSpend
    <3>1. minted[k] = 0 /\ entry'[k] = NoEntry
      BY <1>2, <2>1 DEF Solvent, Unpaid, Unsent
    <3> QED
      BY <1>1, <3>1, NoEntryTyped DEF Solvent, NoEntry, Unsent
  <2>2. CASE Reconciled(entry[k]) = entry[k] /\ entry[k].tag = "creating"
    <3>1. cycles' = cycles
      BY <1>1, <2>2 DEF Creating
    <3> QED
      BY <1>1, <1>2, <2>2, <3>1 DEF Solvent, Affordable, CmcConversion
  <2>3. CASE /\ Reconciled(entry[k]).tag # "creating"
             /\ Reconciled(entry[k]).phase = entry[k].phase
             /\ Reconciled(entry[k]).pay = entry[k].pay
             /\ Reconciled(entry[k]).child = entry[k].child
    BY <1>1, <1>2, <2>3 DEF Solvent
  <2> QED
    BY <1>2, <2>1, <2>2, <2>3
<1>4. SameInv'
  <2> SUFFICES ASSUME NEW r \in late', r.kind \in {"pay", "mint"}
               PROVE  /\ Same(r.tx, entry'[r.key])
                      /\ r.kind = "mint" => entry'[r.key].phase \notin Unpaid
    BY DEF SameInv, Same
  <2>1. /\ r.key \in Setup /\ Same(r.tx, entry[r.key])
        /\ r.kind = "mint" => entry[r.key].phase \notin Unpaid
    <3>1. CASE r \in late
      BY <3>1 DEF PriceInv, SameInv, IInv, TypeOK
    <3>2. CASE r \notin late
      <4>1. PICK p \in Proc : r \in Abandoned(p)
        BY <1>1, <3>2
      <4>2. Waiting(p) /\ r = Request(p)
        BY <4>1 DEF Abandoned
      <4> QED
        BY <4>2, RequestPriced DEF Request
    <3> QED
      BY <3>1, <3>2
  <2>2. entry[r.key].phase \notin PreSpend
    BY <2>1 DEF Same, Unsent
  <2> QED
    BY <1>2, <2>1, <2>2 DEF Same
<1>5. ToldInv'
  <2>1. \A q \in Proc : act'[q].pc = "idle"
    BY <1>1, IdleTyped
  <2> QED
    BY <2>1 DEF ToldInv, Told
<1> QED
  BY <1>1, <1>3, <1>4, <1>5 DEF PriceInv, PromiseKept

LEMMA InitPriced == Init => PriceInv
<1> SUFFICES ASSUME Init PROVE PriceInv
  OBVIOUS
<1>1. SolventInv
  BY NoEntryTyped DEF Init, SolventInv, Solvent, NoEntry, Unsent
<1>2. SameInv /\ ToldInv /\ PromiseKept
  BY IdleTyped DEF Init, SameInv, ToldInv, Told, PromiseKept
<1> QED
  BY <1>1, <1>2 DEF PriceInv

LEMMA StepPriced == IInv /\ PriceInv /\ [Next]_vars => PriceInv'
<1> SUFFICES ASSUME IInv, PriceInv, [Next]_vars PROVE PriceInv'
  OBVIOUS
<1>1. ASSUME NEW p \in Proc, Call(p) PROVE PriceInv'
  BY <1>1, NotifyPriced, QuotePriced, NeuronPriced, ProbePriced, PayPriced, MintPriced,
     BuildPriced, FundPriced, AuditPriced DEF Call
<1>2. ASSUME NEW p \in Proc, World(p) PROVE PriceInv'
  <2>1. CASE Trap(p)
    BY <2>1, ReturnPriced DEF Trap, Return
  <2> QED
    BY <1>2, <2>1, ExecutedPriced, AnswerPriced DEF World
<1>3. CASE UNCHANGED vars
  <2>1. /\ UNCHANGED <<cycles, entry, paid, minted, balance, act, late, broken>>
    BY <1>3 DEF vars, journal, world, ledger, cmc
  <2> QED
    BY <2>1, StillPriced DEF PriceInv, SolventInv, SameInv, ToldInv
<1> QED
  BY <1>1, <1>2, <1>3, OutsidePriced, NotifyPriced, LateExecutePriced, UpgradePriced DEF Next

\* Where the fee has not risen and the rate stays within the margin, a setup
\* that was quoted is never sent to recovery for want of cycles or of money,
\* whatever calls overlap, however late a payment or a mint is carried out,
\* and across every change of the configuration (current_requirement_e8s).
THEOREM PromiseIsKept == Spec => []PromiseKept
<1>1. IInv /\ [Next]_vars /\ PriceInv => PriceInv'
  BY StepPriced
<1>2. PriceInv => PromiseKept
  BY DEF PriceInv
<1> QED
  BY <1>1, <1>2, InitPriced, SetupInvariant, PTL DEF Spec

-----------------------------------------------------------------------------
(* The contract.                                                             *)

\* The refinement mapping, by name.
DoneOf(k) == <<paid[k], One(minted[k] # 0), created[k], One(code[k]), funded[k],
               One(control[k] = "none")>>
Done == [k \in Setup |-> DoneOf(k)]
Announced == {k \in Setup : entry[k].tag = "active"}

\* An effect the contract counts, after all those before it.
LEMMA EffectRefines ==
  ASSUME IInv, NEW kind \in Acting, NEW k \in Setup, NEW x,
         Effect(kind, k, x), Ready(kind, k, x), entry' = entry
  PROVE  [Contract!Next]_(Contract!vars)
<1>1. Does(kind, k)
  BY EffectFacts
<1> USE DEF Does
<1>2. /\ Fits(k, entry[k]) /\ code[k] \in BOOLEAN /\ created[k] \in {0, 1}
      /\ created[k] = 0 <=> control[k] = "nobody"
  BY DEF IInv, JournalInv, TypeOK, WorldInv, Once
<1>3. Announced' = Announced
  BY DEF Announced
<1>4. \A j \in Setup \ {k} : Done'[j] = Done[j]
  BY <1>1 DEF Done, DoneOf, One
<1>5. Done'[k] = DoneOf(k)' /\ Done[k] = DoneOf(k)
  BY DEF Done
<1>6. CASE DoneOf(k)' = DoneOf(k)
  <2>1. Done' = Done
    BY <1>4, <1>5, <1>6 DEF Done
  <2> QED
    BY <1>3, <2>1 DEF Contract!vars, Done, DoneOf, Announced
<1>7. ASSUME NEW i \in 1..6, DoneOf(k)[i] = 0, \A j \in 1..(i - 1) : DoneOf(k)[j] = 1,
             DoneOf(k)' = [DoneOf(k) EXCEPT ![i] = 1], DoneOf(k)'[i] = 1
      PROVE  [Contract!Next]_(Contract!vars)
  <2>1. Done' = [Done EXCEPT ![k] = [DoneOf(k) EXCEPT ![i] = 1]]
    BY <1>4, <1>5, <1>7 DEF Done
  <2>2. Done' = [Done EXCEPT ![k][i] = 1]
    BY <1>5, <2>1
  <2>3. Done' # Done
    BY <1>5, <1>7
  <2>4. Contract!Effect(k, i)
    BY <1>3, <1>5, <1>7, <2>2 DEF Contract!Effect, Done, DoneOf, Announced
  <2> QED
    BY <2>3, <2>4 DEF Contract!Next, Contract!Effects, Done, DoneOf
<1> USE DEF One
<1>8. CASE kind = "pay"
  <2>1. DoneOf(k)' = [DoneOf(k) EXCEPT ![1] = 1]
    BY <1>1, <1>8 DEF DoneOf
  <2>2. DoneOf(k)[1] = 0 /\ DoneOf(k)'[1] = 1 /\ \A j \in 1..0 : DoneOf(k)[j] = 1
    BY <1>1, <1>8 DEF DoneOf
  <2> QED
    BY <1>7, <2>1, <2>2
<1>9. CASE kind = "mint"
  <2>1. CASE minted[k] # 0 \/ minted'[k] = 0
    <3>1. (minted[k] # 0) = (minted'[k] # 0)
      BY <1>1, <2>1
    <3>2. DoneOf(k)' = DoneOf(k)
      BY <1>1, <1>9, <3>1 DEF DoneOf
    <3> QED
      BY <1>6, <3>2
  <2>2. CASE minted[k] = 0 /\ minted'[k] # 0
    <3>1. DoneOf(k)' = [DoneOf(k) EXCEPT ![2] = 1]
      BY <1>1, <1>9, <2>2 DEF DoneOf
    <3>2. DoneOf(k)[2] = 0 /\ DoneOf(k)'[2] = 1 /\ \A j \in 1..1 : DoneOf(k)[j] = 1
      BY <1>1, <1>9, <2>2 DEF DoneOf
    <3> QED
      BY <1>7, <3>1, <3>2
  <2> QED
    BY <2>1, <2>2
<1>10. CASE kind = "create"
  <2>1. paid[k] = 1 /\ minted[k] # 0
    BY <1>2, <1>10 DEF Ready, Fits, Uncreated, Unpaid, Unsent, PreSpend, Paid
  <2>2. DoneOf(k)' = [DoneOf(k) EXCEPT ![3] = 1]
    BY <1>1, <1>10 DEF DoneOf
  <2>3. DoneOf(k)[3] = 0 /\ DoneOf(k)'[3] = 1 /\ \A j \in 1..2 : DoneOf(k)[j] = 1
    BY <1>1, <1>10, <2>1 DEF DoneOf
  <2> QED
    BY <1>7, <2>2, <2>3
<1>11. CASE kind = "install"
  <2>1. CASE code[k] = TRUE
    <3>1. DoneOf(k)' = DoneOf(k)
      BY <1>1, <1>11, <2>1 DEF DoneOf
    <3> QED
      BY <1>6, <3>1
  <2>2. CASE code[k] = FALSE
    <3>1. created[k] = 1
      BY <1>1, <1>2, <1>11
    <3>2. entry[k].phase \notin Uncreated
      BY <1>2, <3>1 DEF Fits
    <3>3. paid[k] = 1 /\ minted[k] # 0
      BY <1>2, <3>2 DEF Fits, Uncreated
    <3>4. DoneOf(k)' = [DoneOf(k) EXCEPT ![4] = 1]
      BY <1>1, <1>11 DEF DoneOf
    <3>5. DoneOf(k)[4] = 0 /\ DoneOf(k)'[4] = 1 /\ \A j \in 1..3 : DoneOf(k)[j] = 1
      BY <1>1, <1>11, <2>2, <3>1, <3>3 DEF DoneOf
    <3> QED
      BY <1>7, <3>4, <3>5
  <2> QED
    BY <1>2, <2>1, <2>2
<1>12. CASE kind = "fund"
  <2>1. paid[k] = 1 /\ minted[k] # 0 /\ created[k] = 1 /\ code[k]
    BY <1>2, <1>12 DEF Ready, Fits, Codeless, Childless, Uncreated, Unpaid, Unsent, PreSpend, Paid
  <2>2. DoneOf(k)' = [DoneOf(k) EXCEPT ![5] = 1]
    BY <1>1, <1>12 DEF DoneOf
  <2>3. DoneOf(k)[5] = 0 /\ DoneOf(k)'[5] = 1 /\ \A j \in 1..4 : DoneOf(k)[j] = 1
    BY <1>1, <1>12, <2>1 DEF DoneOf
  <2> QED
    BY <1>7, <2>2, <2>3
<1>13. CASE kind = "settings"
  <2>1. paid[k] = 1 /\ minted[k] # 0 /\ created[k] = 1 /\ code[k] /\ funded[k] = 1
    BY <1>2, <1>13 DEF Ready, Fits, Codeless, Childless, Uncreated, Unpaid, Unsent, PreSpend,
                       Paid, Funded
  <2>2. DoneOf(k)' = [DoneOf(k) EXCEPT ![6] = 1]
    BY <1>1, <1>13 DEF DoneOf
  <2>3. DoneOf(k)[6] = 0 /\ DoneOf(k)'[6] = 1 /\ \A j \in 1..5 : DoneOf(k)[j] = 1
    BY <1>1, <1>13, <2>1 DEF DoneOf
  <2> QED
    BY <1>7, <2>2, <2>3
<1> QED
  BY <1>8, <1>9, <1>10, <1>11, <1>12, <1>13 DEF Acting

\* Nothing the contract speaks of changes.
LEMMA Unnoticed ==
  ASSUME UNCHANGED <<paid, minted, created, code, funded, control>>, Announced' = Announced
  PROVE  [Contract!Next]_(Contract!vars)
<1>1. Done' = Done
  BY DEF Done, DoneOf, One
<1> QED
  BY <1>1 DEF Contract!vars, Done, DoneOf, Announced

\* What a call may write: nothing, a reclaim, or for its own setup an entry
\* that does not announce it.
Writes(p) ==
  \/ entry' = entry
  \/ entry' = Reclaimed
  \/ \E e : /\ entry' = [entry EXCEPT ![act[p].key] = e] /\ e.tag # "active"
            /\ entry[act[p].key].tag # "active"

LEMMA WritesQuietly ==
  ASSUME IInv, NEW p \in Proc, Writes(p)
  PROVE  Announced' = Announced
<1>1. entry \in [Setup -> Entries]
  BY DEF IInv, TypeOK
<1>2. CASE entry' = Reclaimed
  BY <1>2, NoEntryTyped DEF Reclaimed, Abandonable, Announced
<1> QED
  BY <1>1, <1>2 DEF Writes, Announced

\* Only the last audit announces a setup.
LEMMA CallWrites ==
  ASSUME IInv, NEW p \in Proc, Call(p)
  PROVE  /\ world' = world
         /\ \/ Writes(p)
            \/ /\ Activate(p) /\ act[p].reply = "final" /\ act[p].pc \in {"audit", "audit2"}
               /\ entry[act[p].key].tag = "creating"
<1>0. ASSUME NEW e, entry[act[p].key].tag # "active", e.tag # "active",
             Put(act[p].key, e)
      PROVE  Writes(p)
  BY <1>0 DEF Put, Writes
<1>1. ASSUME Return(p) PROVE world' = world /\ Writes(p)
  BY <1>1 DEF Return, Writes, journal
<1>2. CASE Notify(p)
  BY <1>2 DEF Notify, StartNew, Resume, Writes
<1>3. CASE BalanceReply(p)
  BY <1>1, <1>3 DEF BalanceReply, Writes, journal
<1> DEFINE k == act[p].key
<1>4. ASSUME act[p].pc # "idle"
      PROVE  k \in Setup /\ entry[k] \in Entries
  BY <1>4, CallFacts
<1>5. ASSUME NEW e \in Entries, GiveUp(p, e) \/ Break(p, e), entry[k].tag # "active"
      PROVE  world' = world /\ Writes(p)
  <2>1. Recovered(e).tag = "manual"
    BY <1>5 DEF Recovered, Entries
  <2> QED
    BY <1>0, <1>5, <2>1 DEF GiveUp, Break
<1>6. ASSUME NEW e, NEW pc, e.tag # "active", Advance(p, e, pc), entry[k].tag # "active"
      PROVE  world' = world /\ Writes(p)
  BY <1>0, <1>6 DEF Advance
<1>7. CASE QuoteReply(p)
  <2>1. CASE /\ entry[k] = NoEntry /\ Put(k, Reservation) /\ UNCHANGED world
    BY <1>0, <2>1, NoEntryTyped
  <2> QED
    BY <1>1, <1>7, <2>1 DEF QuoteReply, MayReserve
<1>8. ASSUME NEW ph, Release(p, ph) PROVE world' = world /\ Writes(p)
  <2>1. CASE InPhase(k, ph) /\ Put(k, NoEntry)
    BY <1>0, <1>8, <2>1, NoEntryTyped DEF Release, InPhase
  <2> QED
    BY <1>8, <2>1 DEF Release, Writes, journal
<1>9. CASE NeuronReply(p)
  <2>1. CASE /\ InPhase(k, "Reserved") /\ UNCHANGED world
             /\ Put(k, [entry[k] EXCEPT !.phase = "ProbingTargets"])
    <3>1. act[p].pc # "idle"
      BY <1>9 DEF NeuronReply, Step
    <3>2. [entry[k] EXCEPT !.phase = "ProbingTargets"].tag = entry[k].tag
      BY <1>4, <3>1 DEF Entries
    <3> QED
      BY <1>0, <2>1, <3>2 DEF InPhase
  <2> QED
    BY <1>8, <1>9, <2>1 DEF NeuronReply
<1>10. CASE ProbeReply(p)
  <2> DEFINE e == [entry[k] EXCEPT !.phase = "CmcTransferPrepared",
                     !.pay = Transfer(CmcConversion(act[p].rate), act[p].fee)]
  <2>1. CASE InPhase(k, "ProbingTargets") /\ UNCHANGED world /\ Put(k, e)
    <3>1. act[p].pc # "idle"
      BY <1>10 DEF ProbeReply, Step
    <3>2. e.tag = entry[k].tag
      BY <1>4, <3>1 DEF Entries
    <3> QED
      BY <1>0, <2>1, <3>2 DEF InPhase
  <2> QED
    BY <1>8, <1>10, <2>1 DEF ProbeReply
<1>11. ASSUME NEW pc, NEW ph, Fenced(p, pc, ph) PROVE world' = world /\ Writes(p)
  BY <1>1, <1>11 DEF Fenced
<1>12. CASE PayReply(p)
  <2>1. act[p].pc # "idle"
    BY <1>12 DEF PayReply, Fenced, Step
  <2> DEFINE e == [entry[k] EXCEPT !.phase = "CmcTransferAccepted", !.pay.accepted = TRUE]
  <2>2. e.tag = entry[k].tag /\ entry[k] \in Entries
    BY <1>4, <2>1 DEF Entries
  <2> HIDE DEF e
  <2>3. CASE /\ InPhase(k, "CmcTransferPrepared")
             /\ \/ Advance(p, e, "mint")
                \/ Put(k, NoEntry) /\ UNCHANGED world
                \/ GiveUp(p, entry[k])
    BY <1>0, <1>5, <1>6, <2>2, <2>3, NoEntryTyped DEF InPhase
  <2> QED
    BY <1>11, <1>12, <2>3 DEF PayReply, e
<1>13. CASE MintReply(p)
  <2>1. act[p].pc # "idle"
    BY <1>13 DEF MintReply, Fenced, Step
  <2> DEFINE m == [entry[k] EXCEPT !.minted = minted[k]]
             e == [m EXCEPT !.phase = "CreateDispatched"]
  <2>2. m \in Entries /\ m.tag = entry[k].tag /\ entry[k] \in Entries
    BY <1>4, <2>1 DEF Entries, IInv, TypeOK
  <2> HIDE DEF m
  <2>3. e.tag = m.tag
    BY <2>2 DEF Entries
  <2> HIDE DEF e
  <2>4. CASE /\ InPhase(k, "CmcTransferAccepted")
             /\ \/ Return(p) \/ GiveUp(p, entry[k]) \/ Advance(p, e, "create") \/ Break(p, m)
    BY <1>1, <1>5, <1>6, <2>2, <2>3, <2>4 DEF InPhase
  <2> QED
    BY <1>11, <1>13, <2>4 DEF MintReply, e, m
<1>14. CASE CreateReply(p)
  <2>1. act[p].pc # "idle"
    BY <1>14 DEF CreateReply, Fenced, Step
  <2> DEFINE e == [entry[k] EXCEPT !.phase = "ChildCreated", !.child = created[k]]
  <2>2. e.tag = entry[k].tag /\ entry[k] \in Entries
    BY <1>4, <2>1 DEF Entries
  <2> HIDE DEF e
  <2>3. CASE /\ InPhase(k, "CreateDispatched")
             /\ GiveUp(p, entry[k]) \/ Advance(p, e, "install")
    BY <1>5, <1>6, <2>2, <2>3 DEF InPhase
  <2> QED
    BY <1>11, <1>14, <2>3 DEF CreateReply, e
<1>15. CASE InstallReply(p) \/ ReconcileReply(p)
  <2>1. act[p].pc # "idle"
    BY <1>15 DEF InstallReply, ReconcileReply, Fenced, Step
  <2> DEFINE e == [entry[k] EXCEPT !.phase = "CodeInstalled"]
  <2>2. e.tag = entry[k].tag /\ entry[k] \in Entries
    BY <1>4, <2>1 DEF Entries
  <2> HIDE DEF e
  <2>3. CASE /\ InPhase(k, "ChildCreated")
             /\ \/ GiveUp(p, entry[k]) \/ Advance(p, e, "fundQuote")
                \/ Advance(p, entry[k], "reconcile")
    BY <1>5, <1>6, <2>2, <2>3 DEF InPhase
  <2> QED
    BY <1>11, <1>15, <2>3 DEF InstallReply, ReconcileReply, e
<1>16. CASE FundQuoteReply(p)
  <2>1. act[p].pc # "idle"
    BY <1>16 DEF FundQuoteReply, Fenced, Step
  <2>2. entry[k] \in Entries
    BY <1>4, <2>1
  <2>3. CASE /\ InPhase(k, "CodeInstalled")
             /\ GiveUp(p, entry[k]) \/ Break(p, entry[k])
    BY <1>5, <2>2, <2>3 DEF InPhase
  <2>4. ASSUME NEW fee \in Fees, InPhase(k, "CodeInstalled"),
               Advance(p, [entry[k] EXCEPT !.phase = "RelayFundingPrepared",
                             !.fund = Transfer(balance[k] - fee, fee)], "fund")
        PROVE  world' = world /\ Writes(p)
    <3> DEFINE e == [entry[k] EXCEPT !.phase = "RelayFundingPrepared",
                       !.fund = Transfer(balance[k] - fee, fee)]
    <3>1. e.tag = entry[k].tag /\ Advance(p, e, "fund")
      BY <2>2, <2>4 DEF Entries
    <3> HIDE DEF e
    <3> QED
      BY <1>6, <2>4, <3>1 DEF InPhase
  <2> QED
    BY <1>11, <1>16, <2>3, <2>4 DEF FundQuoteReply
<1>17. CASE FundReply(p)
  <2>1. act[p].pc # "idle"
    BY <1>17 DEF FundReply, Fenced, Step
  <2> DEFINE e == [entry[k] EXCEPT !.phase = "RelayFunded", !.fund.accepted = TRUE]
  <2>2. e.tag = entry[k].tag /\ entry[k] \in Entries
    BY <1>4, <2>1 DEF Entries
  <2> HIDE DEF e
  <2>3. CASE /\ InPhase(k, "RelayFundingPrepared")
             /\ \/ GiveUp(p, entry[k])
                \/ Put(k, e) /\ UNCHANGED world
    BY <1>0, <1>5, <2>2, <2>3 DEF InPhase
  <2> QED
    BY <1>11, <1>17, <2>3 DEF FundReply, e
<1>18. CASE AuditReply(p)
  <2>1. act[p].pc = "audit"
    BY <1>18 DEF AuditReply, Step
  <2> DEFINE e == [entry[k] EXCEPT !.phase = "FinalizationAttempted"]
  <2>2. e.tag = entry[k].tag /\ entry[k] \in Entries
    BY <1>4, <2>1 DEF Entries
  <2> HIDE DEF e
  <2>3. CASE InPhase(k, act[p].phase) /\ GiveUp(p, entry[k])
    BY <1>5, <2>2, <2>3 DEF InPhase
  <2>4. CASE InPhase(k, act[p].phase) /\ Put(k, e) /\ UNCHANGED world
    BY <1>0, <2>2, <2>4 DEF InPhase
  <2>5. CASE InPhase(k, act[p].phase) /\ act[p].reply = "final" /\ Activate(p)
    BY <2>1, <2>5 DEF InPhase, Activate
  <2> QED
    BY <1>1, <1>18, <2>3, <2>4, <2>5 DEF AuditReply, e
<1>19. CASE SettingsReply(p)
  BY <1>1, <1>19 DEF SettingsReply, Writes, journal
<1>20. CASE Audit2Reply(p)
  <2>1. act[p].pc = "audit2"
    BY <1>20 DEF Audit2Reply, Step
  <2>2. entry[k] \in Entries
    BY <1>4, <2>1
  <2>3. CASE InPhase(k, "FinalizationAttempted") /\ GiveUp(p, entry[k])
    BY <1>5, <2>2, <2>3 DEF InPhase
  <2>4. CASE InPhase(k, "FinalizationAttempted") /\ act[p].reply = "final" /\ Activate(p)
    BY <2>1, <2>4 DEF InPhase, Activate
  <2> QED
    BY <1>1, <1>20, <2>3, <2>4 DEF Audit2Reply
<1> QED
  BY <1>2, <1>3, <1>7, <1>9, <1>10, <1>12, <1>13, <1>14, <1>15, <1>16, <1>17, <1>18, <1>19, <1>20
  DEF Call

\* The setup is announced when every effect has happened.
LEMMA AnnounceRefines ==
  ASSUME IInv, NEW p \in Proc, Activate(p), act[p].reply = "final",
         act[p].pc \in {"audit", "audit2"}, entry[act[p].key].tag = "creating"
  PROVE  [Contract!Next]_(Contract!vars)
<1> DEFINE k == act[p].key
<1>1. act[p].pc # "idle"
  OBVIOUS
<1>2. k \in Setup /\ entry[k] \in Entries /\ Fits(k, entry[k]) /\ Knows(act[p], entry[k])
      /\ entry \in [Setup -> Entries]
  BY <1>1, CallFacts DEF IInv, TypeOK
<1>3. control[k] = "none"
  BY <1>2 DEF Knows
<1>4. entry[k].phase = "FinalizationAttempted"
  BY <1>2, <1>3 DEF Fits
<1>5. paid[k] = 1 /\ minted[k] # 0 /\ created[k] = 1 /\ code[k] /\ funded[k] = 1
  BY <1>2, <1>4 DEF Fits, Codeless, Childless, Uncreated, Unpaid, Unsent, PreSpend,
                    Paid, Funded
<1>6. /\ paid' = paid /\ funded' = funded /\ minted' = minted
      /\ created' = created /\ code' = code /\ control' = control
      /\ entry' = [entry EXCEPT ![k] = [entry[k] EXCEPT !.tag = "active"]]
  BY DEF Activate, Put, world, ledger, cmc, children
<1>7. PICK j \in Setup : j = k
  BY <1>2
<1>8. Announced' = Announced \cup {j} /\ j \notin Announced
  <2>1. [entry[k] EXCEPT !.tag = "active"].tag = "active"
    BY <1>2 DEF Entries
  <2>2. entry'[k].tag = "active" /\ \A u \in Setup \ {k} : entry'[u] = entry[u]
    BY <1>2, <1>6, <2>1
  <2> QED
    BY <1>7, <2>2 DEF Announced
<1>9. Done' = Done /\ \A i \in 1..6 : Done[j][i] = 1
  <2>1. Done' = Done
    BY <1>6 DEF Done, DoneOf, One
  <2>2. Done[j] = <<1, 1, 1, 1, 1, 1>>
    BY <1>3, <1>5, <1>7 DEF Done, DoneOf, One
  <2> QED
    BY <2>1, <2>2
<1>10. Contract!Announce(j)
  BY <1>8, <1>9 DEF Contract!Announce, Contract!Effects, Done, DoneOf, Announced
<1>11. Announced' # Announced
  BY <1>8
<1> QED
  BY <1>10, <1>11 DEF Contract!Next, Announced

LEMMA StepRefines == IInv /\ [Next]_vars => [Contract!Next]_(Contract!vars)
<1> SUFFICES ASSUME IInv, [Next]_vars PROVE [Contract!Next]_(Contract!vars)
  OBVIOUS
<1>0. ASSUME world' = world
      PROVE  UNCHANGED <<paid, minted, created, code, funded, control>>
  BY <1>0 DEF world, ledger, cmc, children
<1>1. ASSUME NEW p \in Proc, Call(p) PROVE [Contract!Next]_(Contract!vars)
  <2>1. CASE Writes(p)
    BY <1>0, <1>1, <2>1, CallWrites, WritesQuietly, Unnoticed
  <2> QED
    BY <1>1, <2>1, CallWrites, AnnounceRefines
<1>2. ASSUME journal' = journal PROVE Announced' = Announced /\ entry' = entry
  BY <1>2 DEF journal, Announced
<1>3. ASSUME NEW p \in Proc, World(p) PROVE [Contract!Next]_(Contract!vars)
  <2>1. CASE Executed(p)
    <3>1. PICK k, kind, x : k = act[p].key /\ kind = act[p].pc /\ x = TxOf(p)
      OBVIOUS
    <3>2. k \in Setup /\ kind \in Acting /\ Effect(kind, k, x) /\ Ready(kind, k, x)
      BY <2>1, <3>1, ExecutedReady
    <3>3. entry' = entry
      BY <1>2, <2>1 DEF Executed
    <3> QED
      BY <3>2, <3>3, EffectRefines
  <2>2. CASE RefusedForGood(p)
    BY <1>2, <2>2, Unnoticed DEF RefusedForGood, ledger, children
  <2>3. CASE Rejected(p) \/ Answered(p) \/ GivenUp(p) \/ Trap(p)
    BY <1>0, <1>2, <2>3, Unnoticed DEF Rejected, Answered, GivenUp, Trap
  <2> QED
    BY <1>3, <2>1, <2>2, <2>3 DEF World
<1>4. ASSUME NEW k \in Setup, Deposit(k) PROVE [Contract!Next]_(Contract!vars)
  BY <1>2, <1>4, Unnoticed DEF Deposit, cmc, children
<1>5. CASE TurnedAway
  <2>1. Announced' = Announced
    BY <1>5, NoEntryTyped DEF TurnedAway, Reclaimed, Abandonable, Announced
  <2> QED
    BY <1>0, <1>5, <2>1, Unnoticed DEF TurnedAway
<1>6. CASE Tick
  BY <1>0, <1>2, <1>6, Unnoticed DEF Tick
<1>7. CASE LateExecute
  <2>1. PICK r \in late : Effect(r.kind, r.key, r.tx)
    BY <1>7 DEF LateExecute
  <2>2. entry' = entry
    BY <1>2, <1>7 DEF LateExecute
  <2> QED
    BY <2>1, <2>2, LateReady, EffectRefines
<1>8. CASE Upgrade
  <2>1. \A k \in Setup : entry'[k] = Reconciled(entry[k]) /\ entry[k] \in Entries
    BY <1>8 DEF Upgrade, IInv, TypeOK
  <2>2. \A k \in Setup : entry'[k].tag = "active" <=> entry[k].tag = "active"
    <3> SUFFICES ASSUME NEW k \in Setup
                 PROVE  entry'[k].tag = "active" <=> entry[k].tag = "active"
      OBVIOUS
    <3>1. Recovered(entry[k]).tag = "manual"
      BY <2>1 DEF Recovered, Entries
    <3> QED
      BY <2>1, <3>1, NoEntryTyped DEF Reconciled
  <2>3. Announced' = Announced
    BY <2>2 DEF Announced
  <2> QED
    BY <1>0, <1>8, <2>3, Unnoticed DEF Upgrade
<1>9. CASE UNCHANGED vars
  BY <1>0, <1>2, <1>9, Unnoticed DEF vars
<1> QED
  BY <1>1, <1>3, <1>4, <1>5, <1>6, <1>7, <1>8, <1>9 DEF Next

\* The factory implements its contract: however many notify calls overlap or
\* are cut off, a setup is paid for, minted, created, installed, funded and
\* given away at most once each, in this order, and announced only afterwards.
THEOREM FactoryImplementsContract == Spec => ImplementsContract
<1>1. Init => Contract!Init
  <2> SUFFICES ASSUME Init PROVE Contract!Init
    OBVIOUS
  <2>1. \A k \in Setup : DoneOf(k) = <<0, 0, 0, 0, 0, 0>>
    BY DEF Init, DoneOf, One
  <2>2. <<0, 0, 0, 0, 0, 0>> = [i \in 1..6 |-> 0]
    OBVIOUS
  <2>3. Done = [k \in Setup |-> [i \in 1..6 |-> 0]]
    BY <2>1, <2>2 DEF Done
  <2>4. Announced = {}
    BY NoEntryTyped DEF Init, Announced
  <2> QED
    BY <2>3, <2>4 DEF Contract!Init, Contract!Effects, Done, DoneOf, Announced
<1> QED
  BY <1>1, SetupInvariant, StepRefines, PTL DEF Spec, ImplementsContract, Contract!Spec
=============================================================================

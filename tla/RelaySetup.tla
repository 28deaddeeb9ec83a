----------------------------- MODULE RelaySetup -----------------------------
(***************************************************************************)
(* canisters/historian: the self-service factory of Relay canisters         *)
(* (relay_setup.rs, relay_setup/admission.rs).  Anybody may notify a setup, *)
(* any number of times.  A call that finds no entry pays for a new Relay    *)
(* from the setup's account; one that finds a paid or a funded entry        *)
(* resumes it.  Before money moves, calls are kept apart by a transient     *)
(* ticket that expires; afterwards only by the phase of the journal entry,  *)
(* read again after every await.                                            *)
(*                                                                          *)
(* The code between two awaits is one action.  Calls that only read (fee    *)
(* and rate, neuron, targets) are one await each.  A ledger or CMC call may *)
(* be given up and executed later; a management call that reports an error  *)
(* may have taken effect.  A callback may trap, and an upgrade may cut off  *)
(* every call in flight.                                                    *)
(***************************************************************************)
EXTENDS Integers, Sequences, FiniteSets, Functions

CONSTANTS Proc,            \* notify calls that may be in flight together
          Requests,        \* setups a caller may ask for
          Forbidden,       \* targets that no new setup may have
          Canonical,       \* canonical_relay_targets, reserved for Jupiter
          MaxTargets,      \* MAX_RELAY_TARGETS
          MaxRecipients,   \* MAX_SURPLUS_RECIPIENTS
          MaxCreating,     \* MAX_CONCURRENT_FUNDED_RELAY_SETUPS
          Slots,           \* NEW_SLOTS and COMPLETION_SLOTS, by lane
          Attempts,        \* ATTEMPTS_PER_WINDOW
          Window, Lease,   \* WINDOW_SECONDS, LEASE_SECONDS
          MaxTime,         \* bound: the clock stops here
          MaxTokens,       \* bound: tickets given out
          SetupMin, Extra, \* relay_setup_min_e8s, EXTRA_TARGET_CHARGE_E8S
          Margin, Seed,    \* relay_cycle_safety_margin_e8s, .._one_seed_e8s
          InitialCycles,   \* values relay_initial_cycles may be configured to
          Fees, Rates,     \* what the ledger and the CMC may answer
          Amount,          \* e8s a user pays into a setup account
          NoTx             \* None

\* CanonicalRelaySetup::canonicalize: the order does not matter, a target or
\* a recipient named twice is refused whatever its memo.
Destinations(req) == [i \in DOMAIN req.recipients |-> req.recipients[i].dest]
IsCanonical(req) ==
  /\ Len(req.targets) \in 1 .. MaxTargets /\ IsInjective(req.targets)
  /\ Len(req.recipients) <= MaxRecipients /\ IsInjective(Destinations(req))
KeyOf(req) == [targets |-> Range(req.targets), recipients |-> Range(req.recipients)]
Setup == {KeyOf(r) : r \in {q \in Requests : IsCanonical(q)}}

\* validate_new_target_eligibility, reject_reserved_canonical_target_set
Eligible(k) == k.targets \cap Forbidden = {} /\ k.targets # Canonical

Lanes == {"new", "completion"}
Phases == {"Reserved", "ProbingTargets", "CmcTransferPrepared",
           "CmcTransferAccepted", "CmcNotifySucceeded", "CreateDispatched",
           "ChildCreated", "CodeInstalled", "RelayFundingPrepared",
           "RelayFunded", "FinalizationAttempted"}
PreSpend == {"Reserved", "ProbingTargets"}
Paid     == {"CmcTransferAccepted", "CmcNotifySucceeded"}
Funded   == {"RelayFunded", "FinalizationAttempted"}

\* Targets come as a list.
ASSUME RequestAssumption == \A r \in Requests : r.targets \in Seq(Range(r.targets))

ASSUME SizeAssumption ==
  /\ MaxTargets \in Nat /\ MaxRecipients \in Nat /\ MaxCreating \in Nat /\ Attempts \in Nat
  /\ Slots \in [Lanes -> Nat] /\ Window \in Nat \ {0} /\ Lease \in Nat
  /\ MaxTime \in Nat /\ MaxTokens \in Nat

ASSUME PriceAssumption ==
  /\ SetupMin \in Nat /\ Extra \in Nat /\ Margin \in Nat /\ Seed \in Nat
  /\ InitialCycles \subseteq Nat \ {0} /\ InitialCycles # {}
  /\ Fees \subseteq Nat /\ Rates \subseteq Nat \ {0} /\ Amount \in Nat

\* A transfer: the payment to the CMC, or the funding of the child.
Transfers == [amt : Int, fee : Nat, accepted : BOOLEAN]

ASSUME NoneAssumption == NoTx \notin Transfers

VARIABLES
  now,
  cycles,   \* configured relay_initial_cycles
  entry,    \* the journal
  slots, tokens, win,  \* admission: tickets, last token, rate windows
  act,      \* the calls in flight
  balance,  \* the setup accounts
  paid, funded,   \* number of executed transfers to the CMC and to the child
  minted,   \* cycles the CMC minted for the payment
  refused,  \* payments the CMC refused for good
  created, code, control,  \* the children
  late,     \* requests on their way whose caller no longer waits
  broken    \* history: setups that a broken promise sent to recovery

journal   == <<cycles, entry>>
admission == <<slots, tokens, win>>
ledger    == <<balance, paid, funded>>
cmc       == <<minted, refused>>
children  == <<created, code, control>>
world     == <<ledger, cmc, children>>
vars == <<now, journal, admission, act, world, late, broken>>

-----------------------------------------------------------------------------
(* Prices.                                                                  *)

ExtraCharge(k) == (Cardinality(k.targets) - 1) * Extra
NominalMinimum(k) == SetupMin + ExtraCharge(k)
CeilDiv(n, d) == (n + d - 1) \div d

CmcConversion(rate) == CeilDiv(cycles, rate) + Margin

\* The margin is there for the rate to change between the quote and the mint:
\* what was bought at rate r is enough at rate s.
ASSUME RateAssumption ==
  \A c \in InitialCycles : \A r, s \in Rates : (CeilDiv(c, r) + Margin) * s >= c

\* Mutant: the second ledger fee is forgotten.
RequirementOneFee(k, fee, rate) ==
  LET live == CmcConversion(rate) + Margin + Seed + fee
  IN  (IF live > SetupMin THEN live ELSE SetupMin) + ExtraCharge(k)

Requirement(k, fee, rate) ==
  LET live == CmcConversion(rate) + Margin + Seed + 2 * fee
  IN  (IF live > SetupMin THEN live ELSE SetupMin) + ExtraCharge(k)

MinimumFunding(k) == Seed + Margin + ExtraCharge(k)

-----------------------------------------------------------------------------
(* The journal.                                                             *)

Entries == [tag : {"none", "creating", "manual", "active"},
            phase : Phases \cup {"none"}, pay : Transfers \cup {NoTx}, minted : Int,
            child : Nat, fund : Transfers \cup {NoTx}]
NoEntry == [tag |-> "none", phase |-> "none", pay |-> NoTx, minted |-> 0,
            child |-> 0, fund |-> NoTx]
Reservation == [NoEntry EXCEPT !.tag = "creating", !.phase = "Reserved"]
Transfer(amt, fee) == [amt |-> amt, fee |-> fee, accepted |-> FALSE]

\* The Creating-key index, which insert_entry and remove_entry keep in step.
Creating == {k \in Setup : entry[k].tag = "creating"}

\* Mutant: the phase is not read again after an await.
InAnyPhase(k, ph) == TRUE

\* require_phase
InPhase(k, ph) == entry[k].tag = "creating" /\ entry[k].phase = ph

Put(k, e) == entry' = [entry EXCEPT ![k] = e] /\ UNCHANGED cycles
Recovered(e) == [e EXCEPT !.tag = "manual"]

\* relay_id_with_complete_activation_evidence
HasEvidence(e) ==
  /\ e.child # 0 /\ e.minted # 0
  /\ e.pay # NoTx /\ e.pay.accepted /\ e.fund # NoTx /\ e.fund.accepted

-----------------------------------------------------------------------------
(* Admission tickets.                                                       *)

Tickets == [key : Setup, token : Nat, lane : Lanes, expires : Nat]

Acting  == {"pay", "mint", "create", "install", "fund", "settings"}
Bounded == {"pay", "mint", "fund"}
Asking  == {"reconcile", "audit", "audit2"}

Calls == [pc : Acting \cup Asking \cup
                 {"idle", "balance", "quote", "neuron", "probe", "fundQuote"},
          key : Setup \cup {NoTx}, token : Nat, bal : Nat, fee : Nat, rate : Nat,
          phase : Funded \cup {"none"},
          reply : {"none", "ok", "error", "terminal", "rejected", "unknown",
                   "bad", "pre", "final"}]
Idle == [pc |-> "idle", key |-> NoTx, token |-> 0, bal |-> 0, fee |-> 0,
         rate |-> 0, phase |-> "none", reply |-> "none"]

LiveSlots == {s \in slots : s.expires > now}

\* Guard::acquire succeeds.
CanAdmit(k, lane) ==
  /\ \A s \in LiveSlots : s.key # k
  /\ Cardinality({s \in LiveSlots : s.lane = lane}) < Slots[lane]
  /\ now \div Window >= win[lane].number
  /\ now \div Window = win[lane].number => win[lane].used < Attempts
  /\ tokens < MaxTokens

Admit(k, lane) ==
  /\ slots' = LiveSlots \cup {[key |-> k, token |-> tokens + 1, lane |-> lane,
                               expires |-> now + Lease]}
  /\ tokens' = tokens + 1
  /\ win' = [win EXCEPT ![lane] =
       [number |-> now \div Window,
        used |-> IF now \div Window > @.number THEN 1 ELSE @.used + 1]]

\* Ticket::owns_slot, also after expiry while nobody was admitted since.
OwnsSlot(p) == \E s \in slots : s.token = act[p].token

\* Mutant: the cleanup of a call does not ask whose reservation it is.
OwnsSlotAny(p) == TRUE

\* May the call clean up the reservation?
OwnsReservation(p) == OwnsSlot(p)

\* Ticket::check
Live(p) == \E s \in LiveSlots : s.token = act[p].token

\* Drop of the guard: the call returns.
End(p) == /\ act' = [act EXCEPT ![p] = Idle]
          /\ slots' = {s \in slots : s.token # act[p].token}
          /\ UNCHANGED <<tokens, win>>

Await(p, a) == act' = [act EXCEPT ![p] = a] /\ UNCHANGED admission

-----------------------------------------------------------------------------
(* The outside world.                                                       *)

TypeOK ==
  /\ now \in Nat /\ cycles \in InitialCycles /\ entry \in [Setup -> Entries]
  /\ slots \in SUBSET Tickets /\ tokens \in Nat
  /\ win \in [Lanes -> [number : Nat, used : Nat]] /\ act \in [Proc -> Calls]
  /\ balance \in [Setup -> Nat] /\ paid \in [Setup -> Nat] /\ funded \in [Setup -> Nat]
  /\ minted \in [Setup -> Int] /\ refused \in SUBSET Setup
  /\ created \in [Setup -> Nat] /\ code \in [Setup -> BOOLEAN]
  /\ control \in [Setup -> {"nobody", "historian", "none"}]
  /\ late \in SUBSET [kind : Acting, key : Setup, tx : Transfers \cup {NoTx}]
  /\ broken \in SUBSET Setup

Init ==
  /\ now = 1 /\ cycles \in InitialCycles
  /\ entry = [k \in Setup |-> NoEntry]
  /\ slots = {} /\ tokens = 0
  /\ win = [l \in Lanes |-> [number |-> 0, used |-> 0]]
  /\ act = [p \in Proc |-> Idle]
  /\ balance = [k \in Setup |-> 0]
  /\ paid = [k \in Setup |-> 0] /\ funded = [k \in Setup |-> 0]
  /\ minted = [k \in Setup |-> 0] /\ refused = {}
  /\ created = [k \in Setup |-> 0]
  /\ code = [k \in Setup |-> FALSE]
  /\ control = [k \in Setup |-> "nobody"]
  /\ late = {} /\ broken = {}

Tick == /\ now < MaxTime /\ now' = now + 1
        /\ UNCHANGED <<journal, admission, act, world, late, broken>>

Deposit(k) == /\ balance[k] = 0 /\ paid[k] = 0
              /\ balance' = [balance EXCEPT ![k] = Amount]
              /\ UNCHANGED <<now, journal, admission, act, paid, funded, cmc,
                             children, late, broken>>

\* The effect of a request of setup k; x is its transfer, if it is one.
Effect(kind, k, x) ==
  \/ /\ kind \in {"pay", "fund"} /\ balance[k] >= x.amt + x.fee
     /\ balance' = [balance EXCEPT ![k] = @ - x.amt - x.fee]
     /\ IF kind = "pay"
        THEN paid' = [paid EXCEPT ![k] = @ + 1] /\ UNCHANGED funded
        ELSE funded' = [funded EXCEPT ![k] = @ + 1] /\ UNCHANGED paid
     /\ UNCHANGED <<cmc, children>>
  \/ /\ kind = "mint" /\ paid[k] > 0 /\ k \notin refused
     /\ IF minted[k] # 0 THEN UNCHANGED minted  \* notify_top_up is idempotent
        ELSE \E r \in Rates : minted' = [minted EXCEPT ![k] = x.amt * r]
     /\ UNCHANGED <<ledger, refused, children>>
  \/ /\ kind = "create"
     /\ created' = [created EXCEPT ![k] = @ + 1]
     /\ control' = [control EXCEPT ![k] = "historian"]
     /\ UNCHANGED <<ledger, cmc, code>>
  \/ /\ kind = "install" /\ control[k] = "historian"
     /\ code' = [code EXCEPT ![k] = TRUE]
     /\ UNCHANGED <<ledger, cmc, created, control>>
  \/ /\ kind = "settings" /\ control[k] = "historian"
     /\ control' = [control EXCEPT ![k] = "none"]
     /\ UNCHANGED <<ledger, cmc, created, code>>

\* The transfer a call is about: the payment, or the funding of the child.
TxOf(p) == IF act[p].pc = "fund" THEN entry[act[p].key].fund
           ELSE entry[act[p].key].pay

Waiting(p) == act[p].pc \in Acting \cup Asking /\ act[p].reply = "none"
Reply(p, r) == act' = [act EXCEPT ![p].reply = r]

\* A call takes effect.  A management call may report an error all the same;
\* the answer of the CMC may be lost or be one that cannot be decoded.
Executed(p) ==
  /\ Waiting(p) /\ act[p].pc \in Acting
  /\ Effect(act[p].pc, act[p].key, TxOf(p))
  /\ \E r \in CASE act[p].pc \in {"pay", "fund"} -> {"ok"}
               [] act[p].pc = "mint" -> {"ok", "error", "terminal"}
               [] OTHER -> {"ok", "error"} : Reply(p, r)
  /\ UNCHANGED <<now, journal, admission, late, broken>>

\* A call is refused and has no effect.
Rejected(p) ==
  /\ Waiting(p) /\ act[p].pc \in Acting
  /\ Reply(p, IF act[p].pc \in {"pay", "fund"} THEN "rejected" ELSE "error")
  /\ UNCHANGED <<now, journal, admission, world, late, broken>>

\* The CMC refuses the payment for good.
RefusedForGood(p) ==
  /\ Waiting(p) /\ act[p].pc = "mint" /\ minted[act[p].key] = 0
  /\ Reply(p, "terminal")
  /\ refused' = refused \cup {act[p].key}
  /\ UNCHANGED <<now, journal, admission, ledger, minted, children, late,
                 broken>>

\* canister_status, as classify_relay_finalization_state sees it.
Observed(k) == IF ~code[k] THEN "bad"
               ELSE IF control[k] = "none" THEN "final" ELSE "pre"

Answered(p) ==
  /\ Waiting(p) /\ act[p].pc \in Asking
  /\ \E r \in {Observed(act[p].key), "error"} : Reply(p, r)
  /\ UNCHANGED <<now, journal, admission, world, late, broken>>

Request(p) == [kind |-> act[p].pc, key |-> act[p].key, tx |-> TxOf(p)]
Abandoned(p) == IF Waiting(p) /\ act[p].pc \in Acting THEN {Request(p)} ELSE {}

\* A bounded wait ends without an answer.
GivenUp(p) ==
  /\ Waiting(p) /\ act[p].pc \in Bounded
  /\ Reply(p, IF act[p].pc = "mint" THEN "error" ELSE "unknown")
  /\ late' = late \cup Abandoned(p)
  /\ UNCHANGED <<now, journal, admission, world, broken>>

LateExecute ==
  /\ \E r \in late : Effect(r.kind, r.key, r.tx) /\ late' = late \ {r}
  /\ UNCHANGED <<now, journal, admission, act, broken>>

\* A callback traps: the journal stays, the guard is dropped.
Trap(p) == /\ act[p].pc # "idle" /\ ~Waiting(p)
           /\ End(p)
           /\ UNCHANGED <<now, journal, world, late, broken>>

-----------------------------------------------------------------------------
(* Upgrade.                                                                 *)

\* Mutant: a payment that was only prepared is taken for one not sent.
ReconciledForgetful(e) ==
  IF e.tag # "creating" \/ e.phase \in Paid THEN e
  ELSE IF e.phase \in PreSpend \cup {"CmcTransferPrepared"} THEN NoEntry
       ELSE Recovered(e)

\* reconcile_interrupted_creating_entries_after_upgrade
Reconciled(e) ==
  IF e.tag # "creating" \/ e.phase \in Paid THEN e
  ELSE IF e.phase \in PreSpend THEN NoEntry ELSE Recovered(e)

\* apply_upgrade_args: what a paid creation was priced with is frozen.
MayConfigure(c) == c = cycles \/ Creating = {}

Upgrade ==
  /\ \E c \in InitialCycles : MayConfigure(c) /\ cycles' = c
  /\ entry' = [k \in Setup |-> Reconciled(entry[k])]
  /\ slots' = {} /\ win' = [l \in Lanes |-> [number |-> 0, used |-> 0]]
  /\ act' = [p \in Proc |-> Idle]
  /\ late' = late \cup UNION {Abandoned(p) : p \in Proc}
  /\ UNCHANGED <<now, tokens, world, broken>>

-----------------------------------------------------------------------------
(* relay_setup_notify up to the payment: the ticket decides.                *)

\* reclaim_abandoned_pre_spend_reservations, the first thing a call does.
Abandonable(k) == /\ entry[k].tag = "creating" /\ entry[k].phase \in PreSpend
                  /\ \A s \in LiveSlots : s.key # k
Reclaimed == [k \in Setup |-> IF Abandonable(k) THEN NoEntry ELSE entry[k]]
CreatingIn(f) == {k \in Setup : f[k].tag = "creating"}

NewCall(k, pc) == [Idle EXCEPT !.pc = pc, !.key = k, !.token = tokens + 1]

\* The evidence a creation call is dispatched on.
MayCreate(e) == /\ e.minted >= cycles /\ e.child = 0
                /\ e.pay # NoTx /\ e.pay.accepted

StartNew(p, k) ==
  /\ Reclaimed[k] = NoEntry /\ Eligible(k)
  /\ Cardinality(CreatingIn(Reclaimed)) < MaxCreating
  /\ CanAdmit(k, "new") /\ Admit(k, "new")
  /\ act' = [act EXCEPT ![p] = NewCall(k, "balance")]
  /\ entry' = Reclaimed

\* continue_paid_creation and drive_relay_finalization, explicitly resumed.
\* CmcNotifySucceeded is written and passed within one message.
Resume(p, k) ==
  /\ entry[k].tag = "creating" /\ CanAdmit(k, "completion")
  /\ Admit(k, "completion") /\ entry' = Reclaimed
  /\ \/ /\ entry[k].phase = "CmcTransferAccepted"
        /\ act' = [act EXCEPT ![p] = NewCall(k, "mint")]
     \/ /\ entry[k].phase \in Funded
        /\ act' = [act EXCEPT ![p] = [NewCall(k, "audit") EXCEPT
                                        !.phase = entry[k].phase]]

Notify(p) ==
  /\ act[p].pc = "idle"
  /\ \E k \in Setup : StartNew(p, k) \/ Resume(p, k)
  /\ UNCHANGED <<now, cycles, world, late, broken>>

\* A call that is turned away has reclaimed all the same, and so may have
\* purged the expired tickets.
TurnedAway ==
  /\ entry' = Reclaimed /\ entry' # entry
  /\ slots' \in {slots, LiveSlots}
  /\ UNCHANGED <<now, cycles, tokens, win, act, world, late, broken>>

Return(p) == End(p) /\ UNCHANGED <<now, journal, world, late, broken>>
Step(p, pc) == /\ act[p].pc = pc
               /\ pc \in Acting \cup Asking => act[p].reply # "none"
To(p, pc) == Await(p, [act[p] EXCEPT !.pc = pc, !.reply = "none"])

BalanceReply(p) ==
  LET k == act[p].key IN
  /\ Step(p, "balance")
  /\ \/ /\ Live(p) /\ balance[k] >= NominalMinimum(k)
        /\ Await(p, [act[p] EXCEPT !.pc = "quote", !.bal = balance[k]])
        /\ UNCHANGED <<now, journal, world, late, broken>>
     \/ Return(p)   \* unanswered, too late or too little

\* reserve: both were checked before the awaits.
MayReserve(k) == entry[k] = NoEntry /\ Cardinality(Creating) < MaxCreating

QuoteReply(p) ==
  LET k == act[p].key IN
  /\ Step(p, "quote")
  /\ \/ \E fee \in Fees, rate \in Rates :
          /\ Live(p) /\ act[p].bal >= Requirement(k, fee, rate) /\ MayReserve(k)
          /\ Put(k, Reservation)
          /\ Await(p, [act[p] EXCEPT !.pc = "neuron", !.fee = fee, !.rate = rate])
          /\ UNCHANGED <<now, world, late, broken>>
     \/ Return(p)

\* remove_owned_reservation, then return.
Release(p, ph) ==
  LET k == act[p].key IN
  /\ IF InPhase(k, ph) /\ OwnsReservation(p) THEN Put(k, NoEntry)
     ELSE UNCHANGED journal
  /\ End(p) /\ UNCHANGED <<now, world, late, broken>>

NeuronReply(p) ==
  LET k == act[p].key IN
  /\ Step(p, "neuron")
  /\ \/ /\ Live(p) /\ InPhase(k, "Reserved")
        /\ Put(k, [entry[k] EXCEPT !.phase = "ProbingTargets"])
        /\ To(p, "probe") /\ UNCHANGED <<now, world, late, broken>>
     \/ Release(p, "Reserved")

ProbeReply(p) ==
  LET k == act[p].key IN
  /\ Step(p, "probe")
  /\ \/ /\ Live(p) /\ InPhase(k, "ProbingTargets")
        /\ Put(k, [entry[k] EXCEPT !.phase = "CmcTransferPrepared",
                     !.pay = Transfer(CmcConversion(act[p].rate), act[p].fee)])
        /\ To(p, "pay") /\ UNCHANGED <<now, world, late, broken>>
     \/ Release(p, "ProbingTargets")

-----------------------------------------------------------------------------
(* From the payment on: the journal decides.                                *)

\* The next phase is recorded and the next call is dispatched.
Advance(p, e, pc) == /\ Put(act[p].key, e) /\ To(p, pc)
                     /\ UNCHANGED <<now, world, late, broken>>
\* manual_recovery
GiveUp(p, e) == /\ Put(act[p].key, Recovered(e)) /\ End(p)
                /\ UNCHANGED <<now, world, late, broken>>
\* manual_recovery where the factory had promised to succeed.
Break(p, e) == /\ Put(act[p].key, Recovered(e)) /\ End(p)
               /\ broken' = broken \cup {act[p].key}
               /\ UNCHANGED <<now, world, late>>

\* A reply that finds the entry in another phase changes nothing.
Fenced(p, pc, ph) == /\ Step(p, pc) /\ ~InPhase(act[p].key, ph) /\ Return(p)

PayReply(p) ==
  LET k == act[p].key  e == entry[k]  r == act[p].reply IN
  \/ Fenced(p, "pay", "CmcTransferPrepared")
  \/ /\ Step(p, "pay") /\ InPhase(k, "CmcTransferPrepared")
     /\ \/ /\ r = "ok"
           /\ Advance(p, [e EXCEPT !.phase = "CmcTransferAccepted",
                                  !.pay.accepted = TRUE], "mint")
        \/ /\ r = "rejected" /\ Put(k, NoEntry) /\ End(p)
           /\ UNCHANGED <<now, world, late, broken>>
        \/ r = "unknown" /\ GiveUp(p, e)

MintReply(p) ==
  LET k == act[p].key
      e == [entry[k] EXCEPT !.minted = minted[k]]
      r == act[p].reply IN
  \/ Fenced(p, "mint", "CmcTransferAccepted")
  \/ /\ Step(p, "mint") /\ InPhase(k, "CmcTransferAccepted")
     /\ \/ r = "error" /\ Return(p)
        \/ r = "terminal" /\ GiveUp(p, entry[k])
        \/ /\ r = "ok"
           /\ IF MayCreate(e)
              THEN Advance(p, [e EXCEPT !.phase = "CreateDispatched"], "create")
              ELSE Break(p, e)

CreateReply(p) ==
  LET k == act[p].key  e == entry[k]  r == act[p].reply IN
  \/ Fenced(p, "create", "CreateDispatched")
  \/ /\ Step(p, "create") /\ InPhase(k, "CreateDispatched")
     /\ \/ r = "error" /\ GiveUp(p, e)
        \/ r = "ok" /\ Advance(p, [e EXCEPT !.phase = "ChildCreated",
                                           !.child = created[k]], "install")

InstallReply(p) ==
  LET k == act[p].key  e == entry[k]  r == act[p].reply IN
  \/ Fenced(p, "install", "ChildCreated")
  \/ /\ Step(p, "install") /\ InPhase(k, "ChildCreated")
     /\ \/ r = "ok" /\ Advance(p, [e EXCEPT !.phase = "CodeInstalled"], "fundQuote")
        \/ r = "error" /\ Advance(p, e, "reconcile")

\* An install that reported an error: is the approved module there?
ReconcileReply(p) ==
  LET k == act[p].key  e == entry[k]  r == act[p].reply IN
  \/ Fenced(p, "reconcile", "ChildCreated")
  \/ /\ Step(p, "reconcile") /\ InPhase(k, "ChildCreated")
     /\ IF r \in {"pre", "final"}
        THEN Advance(p, [e EXCEPT !.phase = "CodeInstalled"], "fundQuote")
        ELSE GiveUp(p, e)

\* Balance and fee are read again.  The user was promised that this suffices
\* as long as the fee has not risen.
FundQuoteReply(p) ==
  LET k == act[p].key  e == entry[k] IN
  \/ Fenced(p, "fundQuote", "CodeInstalled")
  \/ /\ Step(p, "fundQuote") /\ InPhase(k, "CodeInstalled")
     /\ \/ GiveUp(p, e)   \* no answer
        \/ \E fee \in Fees :
             IF balance[k] - fee >= MinimumFunding(k)
             THEN Advance(p, [e EXCEPT !.phase = "RelayFundingPrepared",
                                !.fund = Transfer(balance[k] - fee, fee)], "fund")
             ELSE IF fee <= e.pay.fee THEN Break(p, e) ELSE GiveUp(p, e)

FundReply(p) ==
  LET k == act[p].key
      e == [entry[k] EXCEPT !.phase = "RelayFunded", !.fund.accepted = TRUE]
      r == act[p].reply IN
  \/ Fenced(p, "fund", "RelayFundingPrepared")
  \/ /\ Step(p, "fund") /\ InPhase(k, "RelayFundingPrepared")
     /\ \/ r # "ok" /\ GiveUp(p, entry[k])
        \/ /\ r = "ok" /\ Put(k, e)
           /\ \/ Live(p) /\ Await(p, [act[p] EXCEPT !.pc = "audit",
                              !.reply = "none", !.phase = "RelayFunded"])
              \/ End(p)   \* expired, or out of calls
           /\ UNCHANGED <<now, world, late, broken>>

-----------------------------------------------------------------------------
(* drive_relay_finalization: every call needs a live ticket again, and one  *)
(* that has calls left.                                                     *)

Activate(p) == /\ Put(act[p].key, [entry[act[p].key] EXCEPT !.tag = "active"])
               /\ End(p) /\ UNCHANGED <<now, world, late, broken>>

AuditReply(p) ==
  LET k == act[p].key  e == entry[k]  r == act[p].reply IN
  \/ /\ Step(p, "audit") /\ (Live(p) => ~InPhase(k, act[p].phase))
     /\ Return(p)
  \/ /\ Step(p, "audit") /\ Live(p) /\ InPhase(k, act[p].phase)
     /\ \/ r = "error" /\ HasEvidence(e) /\ Return(p)
        \/ r = "final" /\ HasEvidence(e) /\ Activate(p)
        \/ /\ r = "pre" /\ HasEvidence(e)
           /\ Put(k, [e EXCEPT !.phase = "FinalizationAttempted"])
           /\ To(p, "settings") \/ End(p)
           /\ UNCHANGED <<now, world, late, broken>>
        \/ (r = "bad" \/ ~HasEvidence(e)) /\ GiveUp(p, e)

SettingsReply(p) ==
  LET k == act[p].key IN
  /\ Step(p, "settings")
  /\ \/ /\ Live(p) /\ InPhase(k, "FinalizationAttempted")
        /\ To(p, "audit2") /\ UNCHANGED <<now, journal, world, late, broken>>
     \/ Return(p)

Audit2Reply(p) ==
  LET k == act[p].key  e == entry[k]  r == act[p].reply IN
  \/ /\ Step(p, "audit2") /\ (Live(p) => ~InPhase(k, "FinalizationAttempted"))
     /\ Return(p)
  \/ /\ Step(p, "audit2") /\ Live(p) /\ InPhase(k, "FinalizationAttempted")
     /\ \/ r \in {"error", "pre"} /\ HasEvidence(e) /\ Return(p)
        \/ r = "final" /\ HasEvidence(e) /\ Activate(p)
        \/ (r = "bad" \/ ~HasEvidence(e)) /\ GiveUp(p, e)

-----------------------------------------------------------------------------
Call(p) == \/ Notify(p) \/ BalanceReply(p) \/ QuoteReply(p) \/ NeuronReply(p)
           \/ ProbeReply(p) \/ PayReply(p) \/ MintReply(p) \/ CreateReply(p)
           \/ InstallReply(p) \/ ReconcileReply(p) \/ FundQuoteReply(p)
           \/ FundReply(p) \/ AuditReply(p) \/ SettingsReply(p) \/ Audit2Reply(p)

World(p) == \/ Executed(p) \/ Rejected(p) \/ RefusedForGood(p)
            \/ Answered(p) \/ GivenUp(p) \/ Trap(p)

Next == \/ \E p \in Proc : Call(p) \/ World(p)
        \/ \E k \in Setup : Deposit(k)
        \/ TurnedAway \/ Tick \/ LateExecute \/ Upgrade

Spec == Init /\ [][Next]_vars

-----------------------------------------------------------------------------
(* Properties.                                                              *)

\* A call whose ticket is live still has the reservation it made: neither a
\* reclaim, nor the cleanup of an expired call, nor a rival took it away
\* (reclaim_abandoned_pre_spend_reservations, remove_owned_reservation).  And
\* no more setups are in creation than the factory reserves cycles for, also
\* when several calls passed the first capacity check together (reserve).
ReservationSafe ==
  /\ Cardinality(Creating) <= MaxCreating
  /\ \A p \in Proc : Live(p) =>
       /\ act[p].pc = "neuron" => InPhase(act[p].key, "Reserved")
       /\ act[p].pc = "probe"  => InPhase(act[p].key, "ProbingTargets")

\* Money or a child that exists, or may yet come to exist through a request
\* on its way, is remembered: the entry is never removed nor priced as unpaid
\* (remove_reservation, reconcile_interrupted_creating_entries_after_upgrade).
SpendingIsJournalled ==
  \A k \in Setup :
    \/ paid[k] > 0
    \/ \E r \in late : r.key = k /\ r.kind = "pay"
    => /\ entry[k].tag # "none" /\ entry[k].phase \notin PreSpend
       /\ entry[k].pay # NoTx

\* Where the fee did not rise since the quote, no setup fails for want of
\* cycles or money the user was told would do: the quote, the conversion and
\* the frozen configuration fit together (current_requirement_e8s).
PromiseKept == broken = {}

\* The factory implements its contract: every irreversible effect at most
\* once, in order, and nothing is announced before all of them.
One(b) == IF b THEN 1 ELSE 0
Contract == INSTANCE RelaySetupContract WITH
  done <- [k \in Setup |->
            <<paid[k], One(minted[k] # 0), created[k], One(code[k]), funded[k],
              One(control[k] = "none")>>],
  active <- {k \in Setup : entry[k].tag = "active"}
ImplementsContract == Contract!Spec
=============================================================================

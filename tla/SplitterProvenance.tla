------------------------- MODULE SplitterProvenance -------------------------
(***************************************************************************)
(* canisters/relay: who funded what a splitter passed on to subaccount 1.   *)
(* The reward sweep reads the transactions of a splitter account backwards  *)
(* to a moment at which the account was empty, and replays them: a job is a *)
(* default leg followed by a subaccount 1 leg, and it consumes whole        *)
(* deposits, oldest first.  A history that does not fit is refused, and the *)
(* reward with it; so the reader depends on the writer, RelaySplitter,      *)
(* never producing one that does not.                                       *)
(*                                                                          *)
(* A transaction is known by its place in the history; each deposit is its  *)
(* own source.  Delegated, burnt and approved debits and memos are refused  *)
(* by the code; the splitter account never has any.                         *)
(***************************************************************************)
EXTENDS RelaySplitter, SequencesExt

\* invert_account_transaction: what a transaction did to the balance.
Effect(e) == IF e.leg = 0 THEN e.amt ELSE 0 - (e.amt + e.fee)

\* BackwardHistory: the balance before the k-th transaction, from the live one.
OpeningBalance(h, bal) ==
  LET before[k \in 1 .. Len(h) + 1] ==
        IF k > Len(h) THEN bal ELSE before[k + 1] - Effect(h[k])
  IN  before

\* authoritative_transactions: the replay begins where the balance was zero.
\* Which of these places it is depends on how many pages were read.
AuthoritativeStarts(h, bal) ==
  {k \in DOMAIN h : OpeningBalance(h, bal)[k] = 0}

PrefixSum(h, queue, n) == MapThenSumSet(LAMBDA i : h[queue[i]].amt, 1 .. n)

\* proportional_allocations: of amount amt, what falls to the i-th of the
\* deposits of queue that make up total.
Allocation(h, queue, total, amt, i) ==
  (PrefixSum(h, queue, i) * amt) \div total
    - (PrefixSum(h, queue, i - 1) * amt) \div total

\* Mutant: a job takes all deposits that had arrived when its first leg was
\* executed.
FundingOfPinned(h, queue, total, pin) == IF pin = 0 THEN {} ELSE {pin}

\* consume_job_funding: how many deposits make up total exactly; none of them
\* may have come after the first leg.
FundingOf(h, queue, total, pin) ==
  {n \in 1 .. pin : PrefixSum(h, queue, n) = total}

\* A replay: deposits not consumed yet, a default leg without its pair (its
\* place, and how many deposits there were), what was attributed to whom.
Replay(h) == [queue |-> <<>>, open |-> 0, pin |-> 0, ok |-> TRUE,
              src |-> [i \in DOMAIN h |-> 0]]

Refuse(r) == [r EXCEPT !.ok = FALSE]

\* The pair of legs d and e is one that build_splitter_plan makes of total.
PairFits(i, d, e, total) ==
  /\ d.amt > 0 /\ e.amt > 0
  /\ d.amt + d.fee = DefaultGross(i, total)

\* consume_job_funding: the first n deposits waiting are consumed by leg k,
\* of a job over total; they share in it if the leg is wanted.
Consume(h, r, n, total, k, wanted) ==
  LET share(c) == LET x == CHOOSE x \in 1 .. n : r.queue[x] = c
                  IN  Allocation(h, r.queue, total, h[k].amt, x)
  IN  [r EXCEPT !.open = 0, !.pin = 0,
         !.queue = SubSeq(@, n + 1, Len(@)),
         !.src = [c \in DOMAIN h |->
                    IF k \in wanted /\ \E x \in 1 .. n : r.queue[x] = c
                    THEN @[c] + share(c) ELSE @[c]]]

\* reconstruct_splitter_history_bounded: transaction k; wanted are the
\* subaccount 1 legs the batch is made of.
ReplayStep(i, h, wanted, r, k) ==
  LET e     == h[k]
      total == h[r.open].amt + h[r.open].fee + e.amt + e.fee
      fund  == FundingOf(h, r.queue, total, r.pin)
  IN
  CASE e.leg = 0 -> [r EXCEPT !.queue = Append(@, k)]
    [] e.leg = 1 -> IF r.open # 0 THEN Refuse(r)
                    ELSE [r EXCEPT !.open = k, !.pin = Len(r.queue)]
    [] e.leg = 2 -> IF r.open = 0 THEN Refuse(r)
                    ELSE IF ~PairFits(i, h[r.open], e, total) \/ fund = {}
                    THEN Refuse(r)
                    ELSE Consume(h, r, Min(fund), total, k, wanted)

\* The replay from place from; what came after the last leg of interest is
\* not looked at, and no pair may be open there.
Reconstruct(i, h, from, wanted) ==
  LET upTo[k \in from - 1 .. Max(wanted)] ==
        IF k < from THEN Replay(h)
        ELSE LET r == upTo[k - 1]
             IN  IF r.ok THEN ReplayStep(i, h, wanted, r, k) ELSE r
      last == upTo[Max(wanted)]
  IN  IF last.open # 0 THEN Refuse(last) ELSE last

-----------------------------------------------------------------------------
Anchors(h, from) == {k \in from .. Len(h) : h[k].leg = 2}

\* Wherever the reader stops going back and whichever legs it asks for, the
\* replay of history h of splitter i, which leaves balance bal, is accepted,
\* attributes exactly what those legs brought to subaccount 1, and counts no
\* deposit for more than it was.
CanBeRead(i, h, bal) ==
  \A from \in AuthoritativeStarts(h, bal) :
    \A wanted \in SUBSET Anchors(h, from) \ {{}} :
      LET r == Reconstruct(i, h, from, wanted) IN
      /\ r.ok
      /\ MapThenSumSet(LAMBDA c : r.src[c], DOMAIN h)
           = MapThenSumSet(LAMBDA k : h[k].amt, wanted)
      /\ \A c \in DOMAIN h :
           r.src[c] > 0 => h[c].leg = 0 /\ r.src[c] <= h[c].amt

\* Every transaction leaves the splitter's history readable for the reward
\* sweep: deposits between planning and the legs, legs executed late or under
\* a new identity, changed fees, dropped and quarantined jobs do not spoil it.
Attributable ==
  [][\A i \in Splitters :
       log'[i] # log[i] => CanBeRead(i, log'[i], balance'[i])]_vars
=============================================================================

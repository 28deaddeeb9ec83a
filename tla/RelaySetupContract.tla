------------------------- MODULE RelaySetupContract -------------------------
(***************************************************************************)
(* What the Relay factory promises for each setup, whatever calls overlap,  *)
(* expire, trap or are cut off by an upgrade: the irreversible effects of a *)
(* creation (pay the CMC, mint, create the child, install it, fund it, give *)
(* up control of it) happen at most once each and in this order, and the    *)
(* setup is announced as active only after the last one.                    *)
(***************************************************************************)
EXTENDS Naturals

CONSTANT Setup

VARIABLES done,   \* how often each effect has happened
          active  \* the setups announced as active

vars == <<done, active>>

Effects == 1 .. 6

Init == /\ done = [k \in Setup |-> [i \in Effects |-> 0]]
        /\ active = {}

Effect(k, i) == /\ done[k][i] = 0
                /\ \A j \in 1 .. (i - 1) : done[k][j] = 1
                /\ done' = [done EXCEPT ![k][i] = 1]
                /\ UNCHANGED active

Announce(k) == /\ k \notin active /\ active' = active \cup {k}
               /\ \A i \in Effects : done[k][i] = 1
               /\ UNCHANGED done

\* Most steps of an implementation do nothing here, and TLC finds out first.
Next == \/ done' # done /\ \E k \in Setup, i \in Effects : Effect(k, i)
        \/ active' # active /\ \E k \in Setup : Announce(k)

Spec == Init /\ [][Next]_vars
=============================================================================

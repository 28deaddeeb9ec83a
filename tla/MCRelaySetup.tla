---------------------------- MODULE MCRelaySetup ----------------------------
(* A small instance of RelaySetup for TLC: two setups, one of them asked for *)
(* in either order, and requests that are refused.                          *)
EXTENDS RelaySetup, TLC

CONSTANTS a, b, p1, p2

MCProc == {p1, p2}
ToDest(d, m) == [dest |-> d, memo |-> m]
Ask(t, r) == [targets |-> t, recipients |-> r]
MCRequests == {Ask(<<a>>, <<>>), Ask(<<a, b>>, <<ToDest(a, 0)>>),
               Ask(<<b, a>>, <<ToDest(a, 0)>>), Ask(<<b, b>>, <<>>),
               Ask(<<a>>, <<ToDest(a, 0), ToDest(a, 1)>>)}
MCCanonical == {b}
MCSlots == [l \in Lanes |-> 2]
Symmetry == Permutations(MCProc)
=============================================================================

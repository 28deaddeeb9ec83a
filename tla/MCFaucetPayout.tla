--------------------------- MODULE MCFaucetPayout ---------------------------
(* Small instances of FaucetPayout, one per question: the fallback of a     *)
(* refunded top-up beside a balance that would cover a second payment, a    *)
(* page of two payouts, a history of two pages, one of two neuron stakes,  *)
(* and two tranches.                                                        *)
EXTENDS FaucetPayout, TLC

Round(kind, weight, dust, tranches, end) ==
  [kind |-> kind, weight |-> weight, dust |-> dust, tranches |-> tranches,
   end |-> end]

MCRounds ==
  {Round(<<"topup">>, <<1>>, 16, 1, 24),
   Round(<<"raw", "topup">>, <<2, 1>>, 0, 1, 16),
   Round(<<"stake", "raw", "raw">>, <<2, 1, 1>>, 0, 1, 16),
   Round(<<"stake", "stake">>, <<1, 1>>, 0, 1, 16),
   Round(<<"raw">>, <<1>>, 2, 2, 24)}

\* Activations are interchangeable.
MCSymmetry == Permutations(Proc)
=============================================================================

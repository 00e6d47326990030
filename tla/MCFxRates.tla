----------------------------- MODULE MCFxRates -----------------------------
(* FxRates on small instances: the values the configurations give its constants. *)
EXTENDS FxRates, TLC

CONSTANTS KES, a, b

MCLocal == {KES}
MCRequests == {a, b}
MCRefreshed == <<KES, KES>>
MCSymmetry == Permutations(MCRequests)
=============================================================================

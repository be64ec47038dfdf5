--------------------------- MODULE MCMasterQueue ---------------------------
(* MasterQueue for TLC: two promotions and two commands under way at once. *)
EXTENDS MasterQueue, TLC

CONSTANTS k1, k2

TwoKeepers   == {k1, k2}
TwoPromoters == {"scheduler", "watchdog"}
Interchanged == Permutations(TwoKeepers)
=============================================================================

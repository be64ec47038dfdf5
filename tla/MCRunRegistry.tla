--------------------------- MODULE MCRunRegistry ---------------------------
(* Two launches compete with each other and with one direct run.           *)
EXTENDS RunRegistry, TLC

LaunchesAlike == Permutations(Launches)

Troubled == {[kills |-> 2, reuse |-> 1, stops |-> 0],
             [kills |-> 1, reuse |-> 0, stops |-> 1],
             [kills |-> 0, reuse |-> 1, stops |-> 1]}
=============================================================================

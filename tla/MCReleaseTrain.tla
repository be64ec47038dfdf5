--------------------------- MODULE MCReleaseTrain ---------------------------
(* Two trains compete; a deploy by hand takes no lock.                     *)
EXTENDS ReleaseTrain, TLC

CONSTANTS t1, t2, hand

TrainsAlike == Permutations(Trains)
=============================================================================

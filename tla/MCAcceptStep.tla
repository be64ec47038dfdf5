---------------------------- MODULE MCAcceptStep ----------------------------
(* Budgets of AcceptStep for TLC.                                          *)
EXTENDS AcceptStep

Budget(i, r, c, h) == [iters |-> i, retries |-> r, crashes |-> c, human |-> h]

\* Two iterations with a crash and an interference, or one of two worker turns
\* with a crash and two interferences.
Disturbed == {Budget(2, 0, 1, 1), Budget(1, 1, 1, 2)}

\* Two iterations, two crashes.
Crashing == {Budget(2, 0, 2, 0)}
=============================================================================

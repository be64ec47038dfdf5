---------------------------- MODULE MCPlanEdits ----------------------------
(* Model values for PlanEdits.                                             *)
EXTENDS PlanEdits

CONSTANTS s1, s2, m, f, d1, d2, h1, nobody
=============================================================================

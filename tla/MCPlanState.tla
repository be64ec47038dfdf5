---------------------------- MODULE MCPlanState ----------------------------
(* Model values for PlanState: one or two drivers, an operator, one plan.  *)
EXTENDS PlanStateRefinement

CONSTANTS s1, s2, m, f, d1, d2, h1, nobody
=============================================================================

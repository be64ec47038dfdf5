-------------------------- MODULE MCShipTransition --------------------------
(* Model values for ShipTransition: two sub-plans, a runner, one session. *)
EXTENDS ShipTransition, TLC

CONSTANTS a, b, runner, session, none

\* For the safety run: nothing tells one sub-plan from another.
SubPlans == Permutations({a, b})
=============================================================================

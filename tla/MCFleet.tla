------------------------------ MODULE MCFleet ------------------------------
(* Fleet for TLC: two masters, both promoters, one keeper, and the people  *)
(* and faults of each scenario.                                            *)
EXTENDS Fleet

BothPromoters == {"scheduler", "watchdog"}

Scenario(m, c, s, a, d) == [masters |-> m, commands |-> c, steps |-> s, acks |-> a, deaths |-> d]

Days == {Scenario(2, 0, 0, 0, 0), Scenario(1, 1, 0, 0, 0), Scenario(1, 0, 0, 1, 0),
         Scenario(1, 0, 0, 0, 1), Scenario(1, 0, 1, 0, 0)}
=============================================================================

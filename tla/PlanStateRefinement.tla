------------------------ MODULE PlanStateRefinement ------------------------
(***************************************************************************)
(* PlanState implements AtomicPlans.  The history of the abstract store is *)
(* the journal's intents that changed their file, at their positions: the  *)
(* completed ones, and an open one whose new bytes are already on disk.    *)
(***************************************************************************)
EXTENDS PlanState

Effective == UNION {Written(x) : x \in Paths}

Changed(row) == [path |-> row.path, actor |-> row.actor,
                 before |-> row.before, after |-> row.after]

History == [n \in Effective |-> Changed(log[n])]

Atomic == INSTANCE AtomicPlans WITH
            history <- History,
            Start <- Queued

\* transition() is one atomic step to its callers, whatever crashes between
\* its intent, its replacement and its completion, and whoever recovers it.
TransitionsAreAtomic == Atomic!Spec
=============================================================================

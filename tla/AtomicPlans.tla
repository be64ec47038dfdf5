---------------------------- MODULE AtomicPlans ----------------------------
(***************************************************************************)
(* What a client of plan_state.transition may rely on: plan files change   *)
(* one at a time, each change is made to the latest bytes and recorded in  *)
(* one history, and nobody but a human changes what is held, except that a *)
(* green gate lifts a quarantine and an integrity repair puts a status or  *)
(* a hold back, never against a human hold.  There are no locks, intents,  *)
(* crashes or recoveries here.                                             *)
(*                                                                         *)
(* The history maps increasing positions to changes.  Only their order is  *)
(* promised: positions may be skipped, as an implementation does that also *)
(* records attempts which changed nothing.                                 *)
(***************************************************************************)
EXTENDS PlanJournal

CONSTANTS Paths, Start

VARIABLES files, history

Actors == {"driver", "human", "integrity-repair", "legacy-verification-return"}

Init == files = Start /\ history = <<>>

Record(n, change) ==
  /\ \A k \in DOMAIN history : k < n
  /\ history' = [k \in DOMAIN history \cup {n} |-> IF k = n THEN change ELSE history[k]]

\* A held plan changes without a human when a green gate lifts a quarantine.
Lifts(before, after) ==
  /\ before.status = "blocked" /\ before.hold # "human" /\ before.auto_block_fails > 0
  /\ OwnedState(after) = [OwnedState(before) EXCEPT !.status = "in-progress",
                                                    !.auto_block_fails = 0]

\* It also does when an integrity repair writes back what a worker changed.
Repairs(actor, before, after) ==
  /\ actor = "integrity-repair"
  /\ OwnedState(after) = [OwnedState(before) EXCEPT !.status = after.status,
                                                    !.hold = after.hold]
  /\ before.hold = "human" => after.hold = "human"

\* One atomic, recorded and authorised change of one plan.
Change(x) ==
  /\ files'[x] # files[x]
  /\ files' = [files EXCEPT ![x] = files'[x]]
  /\ \E actor \in Actors, n \in DOMAIN history' :
       /\ Record(n, [path |-> x, actor |-> actor, before |-> files[x], after |-> files'[x]])
       /\ actor # "human" /\ Held(files[x]) =>
            \/ OwnedState(files'[x]) = OwnedState(files[x])
            \/ Lifts(files[x], files'[x])
            \/ Repairs(actor, files[x], files'[x])

Next == \E x \in Paths : Change(x)

Spec == Init /\ [][Next]_<<files, history>>
=============================================================================

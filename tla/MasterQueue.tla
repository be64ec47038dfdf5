---------------------------- MODULE MasterQueue ----------------------------
(***************************************************************************)
(* The masters of one project, the automation that promotes them and the   *)
(* people and tools that park them.                                        *)
(*                                                                         *)
(* skills/ilk-loop/scripts/promote_next_master.py reads every master once  *)
(* and then writes at most two of them; park_master.py reads them, decides *)
(* and writes one.  Nothing is locked between the reading and the writing, *)
(* each write is one transition of plan_state.py (module PlanState), and   *)
(* the scheduler and the watchdog both run the promotion.                  *)
(*                                                                         *)
(* A master's number is its place in the promotion order.                  *)
(***************************************************************************)
EXTENDS Naturals, FiniteSets, FiniteSetsExt

CONSTANTS MasterCount,
          Promoters,  \* who runs promote_next_master.py
          Keepers,    \* who runs park_master.py
          MaxCommands \* commands and repairs by people

ASSUME QueueAssumption == MasterCount \in Nat \ {0} /\ MaxCommands \in Nat

Masters  == 1 .. MasterCount
NoMaster == 0

VARIABLES status, \* of each master's front matter
          hold,   \* a human park of the whole project, or of one master only
          work,   \* of its sub-plans: some can run, all stuck, all shipped
          pick,   \* what a promotion decided and has yet to write
          order,  \* what a command of park_master.py has yet to write
          commands \* that people may still give

queueVars == <<status, hold, work, pick, order, commands>>

Statuses == {"queued", "active", "blocked", "shipped"}
Works    == {"runnable", "stuck", "done"}
Commands == {"none", "park", "yield", "auto", "unpark", "release"}
Picks    == [demote : Masters \cup {NoMaster}, promote : Masters \cup {NoMaster}, stale : BOOLEAN]
Orders   == [command : Commands, master : Masters \cup {NoMaster}, stale : BOOLEAN]

NoPick  == [demote |-> NoMaster, promote |-> NoMaster, stale |-> FALSE]
NoOrder == [command |-> "none", master |-> NoMaster, stale |-> FALSE]

Held          == \E m \in Masters : hold[m] = "project"
ActiveOnes    == {m \in Masters : status[m] = "active"}
HumanHeld(m)  == hold[m] # "none"
Unfinished    == {m \in ActiveOnes : work[m] # "done"}
First(S)      == IF S = {} THEN NoMaster ELSE Min(S)

\* A driver's transition leaves a blocked master and a human hold alone.
DriverMay(m) == status[m] # "blocked" /\ ~HumanHeld(m)

\* A change of the queue overtakes the promotions that have read it, and so does
\* a transition of an overtaken promotion.
Marked(p) == IF pick[p] = NoPick THEN NoPick ELSE [pick[p] EXCEPT !.stale = TRUE]
Overtaken == [p \in Promoters |-> Marked(p)]

\* The first n masters wait, the others are shipped.
QueueInit(n) ==
  /\ status = [m \in Masters |-> IF m <= n THEN "queued" ELSE "shipped"]
  /\ hold = [m \in Masters |-> "none"]
  /\ work = [m \in Masters |-> IF m <= n THEN "runnable" ELSE "done"]
  /\ pick = [p \in Promoters |-> NoPick]
  /\ order = [k \in Keepers |-> NoOrder]

-----------------------------------------------------------------------------
(* promote_next_master.py *)

Healthy == {m \in ActiveOnes : work[m] = "runnable"}
Stalled == {m \in ActiveOnes : work[m] = "stuck"}
Ready   == {m \in Masters : status[m] = "queued" /\ work[m] = "runnable"}

\* Mutated form: a healthy active master does not stop a promotion.
HastyDecision == [NoPick EXCEPT !.demote = First(Stalled), !.promote = First(Ready)]

Decision ==
  IF Healthy # {} THEN NoPick
  ELSE [NoPick EXCEPT !.demote = First(Stalled), !.promote = First(Ready)]

\* The masters are read and the decision is taken, unless the project is held.
Decide(p) ==
  /\ pick[p] = NoPick
  /\ pick' = [pick EXCEPT ![p] = IF Held THEN NoPick ELSE Decision]
  /\ UNCHANGED <<status, hold, work, order, commands>>

\* What a promotion has left to write after one of its two transitions.
Rest(p) == IF pick[p].demote = NoMaster \/ pick[p].promote = NoMaster THEN NoPick
           ELSE [pick[p] EXCEPT !.demote = NoMaster]

\* One transition of a promotion; a refused one ends it.
Shift(p, m, to) ==
  /\ m # NoMaster
  /\ IF status[m] = to \/ DriverMay(m)
     THEN /\ status' = [status EXCEPT ![m] = to]
          /\ pick' = [o \in Promoters |-> IF o = p THEN Rest(p)
                                         ELSE IF pick[p].stale THEN Marked(o) ELSE pick[o]]
     ELSE status' = status /\ pick' = [pick EXCEPT ![p] = NoPick]
  /\ UNCHANGED <<hold, work, order, commands>>

Demote(p) == Shift(p, pick[p].demote, "blocked")

Promote(p) == pick[p].demote = NoMaster /\ Shift(p, pick[p].promote, "active")

-----------------------------------------------------------------------------
(* park_master.py *)

\* Mutated form: a plain unpark does not look at the hold.
AcceptsHeld(c, m) ==
  CASE c \in {"park", "yield"} -> status[m] \in {"queued", "active"}
    [] c = "auto" -> status[m] \in {"queued", "active", "shipped"}
    [] OTHER      -> status[m] = "blocked"

\* What the command requires of the master it has read.
Accepts(c, m) ==
  CASE c \in {"park", "yield"} -> status[m] \in {"queued", "active"}
    [] c = "auto"    -> status[m] \in {"queued", "active", "shipped"}
    [] c = "unpark"  -> status[m] = "blocked" /\ ~HumanHeld(m)
    [] c = "release" -> status[m] = "blocked"

ReadMasters(k, c, m) ==
  /\ order[k] = NoOrder /\ commands > 0
  /\ Accepts(c, m)
  /\ order' = [order EXCEPT ![k] = [command |-> c, master |-> m, stale |-> FALSE]]
  /\ commands' = commands - 1
  /\ UNCHANGED <<status, hold, work, pick>>

\* The fields are read again and compared with themselves; a human's write is
\* never refused, the runner's park is a driver's.
Change(c, m) ==
  IF c = "auto" /\ ~DriverMay(m)
  THEN UNCHANGED <<status, hold, pick>>
  ELSE /\ status' = [status EXCEPT ![m] = IF c \in {"unpark", "release"} THEN "queued" ELSE "blocked"]
       /\ hold' = [hold EXCEPT ![m] = CASE c = "park" -> "project"
                                        [] c = "yield" -> "yield"
                                        [] c = "auto" -> @
                                        [] OTHER -> "none"]
       /\ pick' = Overtaken

ChangePark(k) ==
  LET m == order[k].master
  IN /\ order[k] # NoOrder
     /\ order' = [j \in Keepers |-> IF j = k THEN NoOrder
                                   ELSE [order[j] EXCEPT !.stale = @ \/ order[j].master = m]]
     /\ Change(order[k].command, m)
     /\ UNCHANGED <<work, commands>>

\* A command that nothing comes between.
KeepAtOnce(c, m) ==
  /\ c # "none" /\ commands > 0 /\ Accepts(c, m)
  /\ Change(c, m)
  /\ commands' = commands - 1
  /\ UNCHANGED <<work, order>>

\* A person frees a blocked sub-plan.
Repair(m) ==
  /\ work[m] = "stuck" /\ commands > 0
  /\ work' = [work EXCEPT ![m] = "runnable"]
  /\ commands' = commands - 1
  /\ pick' = Overtaken
  /\ UNCHANGED <<status, hold, order>>

Keep == \E k \in Keepers :
          \/ ChangePark(k)
          \/ \E c \in Commands \ {"none"}, m \in Masters : ReadMasters(k, c, m)
-----------------------------------------------------------------------------
(* The queue by itself: module Fleet says when the scan and the runs come. *)

\* reconcile_master_status: a hold and a blocked master are left alone.
Reconciled == [m \in Masters |->
  IF status[m] = "blocked" THEN "blocked"
  ELSE IF work[m] = "done" THEN "shipped"
  ELSE IF status[m] = "shipped" THEN "active" ELSE status[m]]

Scan ==
  /\ ~Held /\ status' = Reconciled
  /\ UNCHANGED <<hold, work, pick, order, commands>>

\* A run ships an active master, or leaves it nothing that can run.
WorkEnds(m) ==
  /\ m \in Healthy
  /\ \E w \in {"done", "stuck"} : work' = [work EXCEPT ![m] = w]
  /\ UNCHANGED <<status, hold, pick, order, commands>>

QueueNext ==
  \/ \E p \in Promoters : Decide(p) \/ Demote(p) \/ Promote(p)
  \/ Keep \/ Scan
  \/ \E m \in Masters : Repair(m) \/ WorkEnds(m)

QueueSpec == QueueInit(MasterCount) /\ commands = MaxCommands /\ [][QueueNext]_queueVars

\* The queue stays in its types.
QueueTypeOK ==
  /\ status \in [Masters -> Statuses] /\ work \in [Masters -> Works]
  /\ hold \in [Masters -> {"none", "project", "yield"}]
  /\ pick \in [Promoters -> Picks] /\ order \in [Keepers -> Orders]

\* A master with work is promoted beside an active one that can run only when a park, an
\* unpark or a repaired sub-plan overtook the decision: two promoters that read
\* the same queue agree, whatever the order of their four writes.
OneActive ==
  [][\A m \in Masters : status'[m] = "active" /\ status[m] # "active" /\ work[m] # "done" =>
       Healthy \subseteq {m} \/ \E p \in Promoters : pick[p].stale]_queueVars

\* A human's hold goes by a release, or by a plain unpark that had read the
\* master before the hold was set.
UnparkIsOlder ==
  [][\A m \in Masters : HumanHeld(m) /\ hold'[m] = "none" =>
       \E k \in Keepers : order[k].master = m /\ (order[k].command = "release" \/ order[k].stale)]_queueVars
=============================================================================

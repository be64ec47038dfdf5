--------------------------- MODULE ShipTransition ---------------------------
(***************************************************************************)
(* Shipping a sub-plan is two writes to two stores: the marker commit in   *)
(* the repository, then `status: shipped` in the plan file.                *)
(* skills/ilk-loop/scripts/ship_transition.py writes them in this order    *)
(* under an intent file, `.ship-intent.json`, one for all sub-plans of a   *)
(* plans directory, and its repair finishes what died in between.          *)
(*                                                                         *)
(* The runner (run_ilk_loop_claude.sh) ships what it dispatched, reverts   *)
(* foreign ships, converges the interrupted one and reverts what the gate  *)
(* rejects, in this order in every iteration.  Manual sessions ship and    *)
(* repair at any time.  A status change is one atomic transition           *)
(* (PlanState); reading the intent and unlinking it right away is one step.*)
(***************************************************************************)
EXTENDS Naturals, FiniteSets

CONSTANTS Subs,      \* the slugs of the sub-plans
          Runner,    \* the loop driver, or the worker it waits for
          Sessions,  \* manual sessions of an operator
          NoSub,
          MaxFaults  \* deaths and lost writes of a run

Procs == {Runner} \cup Sessions

ASSUME NamesAssumption == NoSub \notin Subs /\ Runner \notin Sessions
ASSUME FaultsAssumption == MaxFaults \in Nat

VARIABLES status,   \* the plan files
          marked,   \* slugs with a marker commit in the ancestry of HEAD
          reverts,  \* ship-reverts.jsonl: the slug, and whether a commit is named
          intent,   \* the slug of .ship-intent.json
          pc, job,  \* where each process is, and what it is doing
          turn,     \* the runner's iteration: its target and its baseline
          forged,   \* slugs a worker marked shipped by hand
          undone,   \* slugs whose last ship was deliberately reverted
          faults

vars == <<status, marked, reverts, intent, pc, job, turn, forged, undone, faults>>

NoJob  == [sub |-> NoSub]
NoTurn == [target |-> NoSub]

Init ==
  /\ status = [s \in Subs |-> "in-progress"]
  /\ marked = {} /\ reverts = {} /\ intent = NoSub
  /\ pc = [p \in Procs |-> "idle"]
  /\ job = [p \in Procs |-> NoJob]
  /\ turn = NoTurn
  /\ forged = {} /\ undone = {}
  /\ faults = 0

Goto(p, label) == pc' = [pc EXCEPT ![p] = label]

\* Back to where the call came from.
Return(p) == /\ pc' = [pc EXCEPT ![p] = job[p].back]
             /\ job' = [job EXCEPT ![p] = NoJob]

-----------------------------------------------------------------------------
(* ship(): intent, marker commit, status, intent cleared.                  *)

\* Refused on a held plan before anything is written.
ShipFrom(p, s, back) ==
  /\ status[s] # "blocked"
  /\ job' = [job EXCEPT ![p] = [sub |-> s, back |-> back]]
  /\ Goto(p, "intent")
  /\ UNCHANGED <<status, marked, reverts, intent, turn, forged, undone, faults>>

WriteIntent(p) ==
  /\ pc[p] = "intent"
  /\ intent' = job[p].sub
  /\ undone' = undone \ {job[p].sub}
  /\ Goto(p, "marker")
  /\ UNCHANGED <<status, marked, reverts, job, turn, forged, faults>>

\* Mutant of CommitMarker: status and marker are written in the other order.
CommitMarkerLater(p) ==
  /\ pc[p] = "marker"
  /\ status' = [status EXCEPT ![job[p].sub] = "shipped"]
  /\ Goto(p, "status")
  /\ UNCHANGED <<marked, reverts, intent, job, turn, forged, undone, faults>>

\* A marker that exists is not committed twice.
CommitMarker(p) ==
  /\ pc[p] = "marker"
  /\ marked' = marked \cup {job[p].sub}
  /\ Goto(p, "status")
  /\ UNCHANGED <<status, reverts, intent, job, turn, forged, undone, faults>>

\* transition() refuses a plan that has been held meanwhile: ship() raises and
\* leaves its intent behind.
WriteStatus(p) ==
  /\ pc[p] = "status"
  /\ IF status[job[p].sub] = "blocked"
     THEN Return(p) /\ UNCHANGED status
     ELSE /\ status' = [status EXCEPT ![job[p].sub] = "shipped"]
          /\ Goto(p, "clear")
          /\ UNCHANGED job
  /\ UNCHANGED <<marked, reverts, intent, turn, forged, undone, faults>>

\* clear_intent unlinks the file, whichever slug it names by now.
ClearIntent(p) ==
  /\ pc[p] = "clear"
  /\ intent' = NoSub
  /\ Return(p)
  /\ UNCHANGED <<status, marked, reverts, turn, forged, undone, faults>>

Ship(p) == WriteIntent(p) \/ CommitMarker(p) \/ WriteStatus(p) \/ ClearIntent(p)

-----------------------------------------------------------------------------
(* repair(apply=True).                                                     *)

RepairFrom(p, only, back) ==
  /\ job' = [job EXCEPT ![p] = [sub |-> NoSub, only |-> only, back |-> back,
                                found |-> {}]]
  /\ Goto(p, "retire")
  /\ UNCHANGED <<status, marked, reverts, intent, forged, undone, faults>>

Durable(s) == s \in marked /\ status[s] = "shipped"

\* retire_completed_intent looks at the intent, the log and the plan ...
Retire(p) ==
  /\ pc[p] = "retire"
  /\ IF intent \in Subs /\ Durable(intent) THEN Goto(p, "unlink") ELSE Goto(p, "detect")
  /\ UNCHANGED <<status, marked, reverts, intent, job, turn, forged, undone, faults>>

\* ... and unlinks it afterwards.
Unlink(p) ==
  /\ pc[p] = "unlink"
  /\ intent' = NoSub
  /\ Goto(p, "detect")
  /\ UNCHANGED <<status, marked, reverts, job, turn, forged, undone, faults>>

\* What detect() reports as marker-without-status.  The other direction is
\* refused and changes nothing.
Diverged == {s \in marked : status[s] # "shipped"}

\* A worker may only converge the sub-plan it was dispatched for.
MayRepair(p, found) == job[p].back = "turn" => found \subseteq {turn.target}

Detect(p) ==
  /\ pc[p] = "detect"
  /\ LET found == IF job[p].only THEN Diverged \cap {intent} ELSE Diverged IN
     IF found = {} \/ ~MayRepair(p, found) THEN Return(p)
     ELSE /\ job' = [job EXCEPT ![p].found = found]
          /\ Goto(p, "converge")
  /\ UNCHANGED <<status, marked, reverts, intent, turn, forged, undone, faults>>

\* Mutant of IsReverted: only the intent tells a revert from an interruption.
NeverReverted(s) == FALSE

IsReverted(s) == [slug |-> s, commit |-> TRUE] \in reverts

\* A row without a commit, always older than one with: _is_reverted asks
\* None.startswith of it.
Unreadable(s) == [slug |-> s, commit |-> FALSE] \in reverts

\* One diverged pair: an exception at an unreadable row, skipped if the runner
\* reverted it, an exception if the plan is held, and otherwise moved forward
\* to its marker.
Converge(p) ==
  /\ pc[p] = "converge"
  /\ \E s \in job[p].found :
       LET rest == job[p].found \ {s} IN
       \/ Unreadable(s) /\ Return(p) /\ UNCHANGED status
       \/ /\ ~Unreadable(s) /\ IsReverted(s)
          /\ IF rest = {} THEN Return(p)
             ELSE UNCHANGED pc /\ job' = [job EXCEPT ![p].found = rest]
          /\ UNCHANGED status
       \/ /\ ~Unreadable(s) /\ ~IsReverted(s) /\ status[s] = "blocked"
          /\ Return(p) /\ UNCHANGED status
       \/ /\ ~Unreadable(s) /\ ~IsReverted(s) /\ status[s] # "blocked"
          /\ status' = [status EXCEPT ![s] = "shipped"]
          /\ job' = [job EXCEPT ![p].found = rest, ![p].sub = s]
          /\ Goto(p, "forget")
  /\ UNCHANGED <<marked, reverts, intent, turn, forged, undone, faults>>

\* The intent goes if it names the pair just converged.
Forget(p) ==
  /\ pc[p] = "forget"
  /\ intent' = IF intent = job[p].sub THEN NoSub ELSE intent
  /\ IF job[p].found = {} THEN Return(p) ELSE Goto(p, "converge") /\ UNCHANGED job
  /\ UNCHANGED <<status, marked, reverts, turn, forged, undone, faults>>

Repair(p) == Retire(p) \/ Unlink(p) \/ Detect(p) \/ Converge(p) \/ Forget(p)

-----------------------------------------------------------------------------
(* A deliberate revert: status back, a row in ship-reverts.jsonl, and for a *)
(* measured red also the intent invalidated.                                *)

Shipping(p, s) == pc[p] \in {"intent", "marker", "status"} /\ job[p].sub = s

RevertFrom(s, site, back) ==
  /\ status[s] = "shipped"
  /\ status' = [status EXCEPT ![s] = "in-progress"]
  /\ undone' = IF \E p \in Procs : Shipping(p, s) THEN undone ELSE undone \cup {s}
  /\ forged' = forged \ {s}
  /\ job' = [job EXCEPT ![Runner] = [sub |-> s, site |-> site, back |-> back]]
  /\ Goto(Runner, "row")
  /\ UNCHANGED <<marked, reverts, intent, faults>>

\* Mutant of RecordRevert: the row names a commit that need not exist.
RecordAnyRevert ==
  /\ pc[Runner] = "row"
  /\ reverts' = reverts \cup {[slug |-> job[Runner].sub, commit |-> TRUE]}
  /\ IF job[Runner].site = "integrity" THEN Goto(Runner, "invalidate") /\ UNCHANGED job
                                       ELSE Return(Runner)
  /\ UNCHANGED <<status, marked, intent, turn, forged, undone, faults>>

\* The row names the marker commit, if there is one.  The runner goes on
\* without the row when it cannot be written.
RecordRevert ==
  /\ pc[Runner] = "row"
  /\ \/ /\ reverts' = reverts \cup {[slug |-> job[Runner].sub,
                                      commit |-> job[Runner].sub \in marked]}
        /\ UNCHANGED faults
     \/ faults < MaxFaults /\ faults' = faults + 1 /\ UNCHANGED reverts
  /\ IF job[Runner].site = "integrity" THEN Goto(Runner, "invalidate") /\ UNCHANGED job
                                       ELSE Return(Runner)
  /\ UNCHANGED <<status, marked, intent, turn, forged, undone>>

InvalidateIntent ==
  /\ pc[Runner] = "invalidate"
  /\ intent' = IF intent = job[Runner].sub THEN NoSub ELSE intent
  /\ Return(Runner)
  /\ UNCHANGED <<status, marked, reverts, turn, forged, undone, faults>>

-----------------------------------------------------------------------------
(* The runner's iteration.                                                 *)

Dispatch(s) ==
  /\ pc[Runner] = "idle" /\ status[s] = "in-progress"
  /\ turn' = [target |-> s, left |-> {x \in Subs \ {s} : status[x] # "shipped"},
              measured |-> TRUE]
  /\ Goto(Runner, "turn")
  /\ UNCHANGED <<status, marked, reverts, intent, job, forged, undone, faults>>

\* The worker writes `status: shipped` into a plan file itself.
WorkerForges(s) ==
  /\ pc[Runner] = "turn" /\ status[s] = "in-progress"
  /\ status' = [status EXCEPT ![s] = "shipped"]
  /\ forged' = forged \cup {s}
  /\ UNCHANGED <<marked, reverts, intent, pc, job, turn, undone, faults>>

\* The worker finishes an interrupted ship of its own sub-plan.
WorkerRepairs == pc[Runner] = "turn" /\ RepairFrom(Runner, TRUE, "turn") /\ UNCHANGED turn

\* A green gate completes the target: the driver ships it.
DriverShips ==
  /\ pc[Runner] = "turn" /\ status[turn.target] = "in-progress"
  /\ ShipFrom(Runner, turn.target, "one-ship")

\* The gate does not: there is nothing to ship, or nothing was measured.
WorkerEnds ==
  /\ pc[Runner] = "turn"
  /\ \E measured \in BOOLEAN : turn' = [turn EXCEPT !.measured = measured]
  /\ Goto(Runner, "one-ship")
  /\ UNCHANGED <<status, marked, reverts, intent, job, forged, undone, faults>>

\* One pass over what was not shipped at the start: only the dispatched
\* sub-plan may ship in an iteration.
RevertForeign ==
  /\ pc[Runner] = "one-ship"
  /\ \E s \in turn.left :
       /\ turn' = [turn EXCEPT !.left = @ \ {s}]
       /\ \/ RevertFrom(s, "one-ship", "one-ship")
          \/ /\ status[s] # "shipped"
             /\ UNCHANGED <<status, marked, reverts, intent, pc, job, forged, undone, faults>>

\* Mutant of ConvergeShip: no iteration converges.
ConvergeNothing ==
  /\ pc[Runner] = "one-ship" /\ turn.left = {}
  /\ turn' = [turn EXCEPT !.left = Subs]
  /\ Goto(Runner, "integrity")
  /\ UNCHANGED <<status, marked, reverts, intent, job, forged, undone, faults>>

\* An iteration whose gate was not measured converges nothing.
ConvergeShip ==
  /\ pc[Runner] = "one-ship" /\ turn.left = {}
  /\ turn' = [turn EXCEPT !.left = Subs]
  /\ IF turn.measured THEN RepairFrom(Runner, TRUE, "integrity")
     ELSE /\ Goto(Runner, "integrity")
          /\ UNCHANGED <<status, marked, reverts, intent, job, forged, undone, faults>>

\* test_ship_integrity, one pass over the registry: a measured ship is
\* rejected or stands, an unmeasured one of the target is reverted.
EnforceIntegrity ==
  /\ pc[Runner] = "integrity"
  /\ \E s \in turn.left :
       /\ turn' = [turn EXCEPT !.left = @ \ {s}]
       /\ \/ turn.measured /\ RevertFrom(s, "integrity", "integrity")
          \/ ~turn.measured /\ s = turn.target /\ RevertFrom(s, "inconclusive", "integrity")
          \/ /\ status[s] = "shipped" => turn.measured \/ s # turn.target
             /\ UNCHANGED <<status, marked, reverts, intent, pc, job, forged, undone, faults>>

EndIteration ==
  /\ pc[Runner] = "integrity" /\ turn.left = {}
  /\ turn' = NoTurn
  /\ Goto(Runner, "idle")
  /\ UNCHANGED <<status, marked, reverts, intent, job, forged, undone, faults>>

-----------------------------------------------------------------------------
(* The operator, and death.                                                *)

SessionShips(p, s) == p # Runner /\ pc[p] = "idle" /\ ShipFrom(p, s, "idle")

SessionRepairs(p) ==
  /\ p # Runner /\ pc[p] = "idle"
  /\ \E only \in BOOLEAN : RepairFrom(p, only, "idle")
  /\ UNCHANGED turn

\* A quarantine or an operator holds the plan, and a release reopens it.
Hold(s) ==
  /\ status[s] \in {"in-progress", "blocked"}
  /\ status' = [status EXCEPT ![s] = IF @ = "blocked" THEN "in-progress" ELSE "blocked"]
  /\ UNCHANGED <<marked, reverts, intent, pc, job, turn, forged, undone, faults>>

Crash(p) ==
  /\ pc[p] # "idle" /\ faults < MaxFaults
  /\ faults' = faults + 1
  /\ Goto(p, "idle")
  /\ job' = [job EXCEPT ![p] = NoJob]
  /\ turn' = IF p = Runner THEN NoTurn ELSE turn
  /\ UNCHANGED <<status, marked, reverts, intent, forged, undone>>

\* What a process does once it is busy, without choosing to die.
Work ==
  \/ \E p \in Procs : Ship(p) \/ Repair(p)
  \/ RecordRevert \/ InvalidateIntent
  \/ DriverShips \/ WorkerEnds \/ RevertForeign \/ ConvergeShip
  \/ EnforceIntegrity \/ EndIteration

Next ==
  \/ Work
  \/ \E s \in Subs : Dispatch(s) \/ WorkerForges(s) \/ Hold(s)
  \/ WorkerRepairs
  \/ \E p \in Sessions : SessionRepairs(p) \/ \E s \in Subs : SessionShips(p, s)
  \/ \E p \in Procs : Crash(p)

Spec == Init /\ [][Next]_vars

\* Every process that has begun goes on or dies, the runner goes on dispatching
\* while there is work, and not every gate stays unmeasured.
Measured == DriverShips \/ (WorkerEnds /\ turn'.measured)

Fairness ==
  /\ \A p \in Procs : WF_vars(Ship(p) \/ Repair(p))
  /\ WF_vars(RecordRevert \/ InvalidateIntent \/ RevertForeign \/ ConvergeShip
             \/ EnforceIntegrity \/ EndIteration)
  /\ WF_vars(\E s \in Subs : Dispatch(s))
  /\ SF_vars(Measured)

FairSpec == Spec /\ Fairness

-----------------------------------------------------------------------------

Labels == {"idle", "intent", "marker", "status", "clear",
           "retire", "unlink", "detect", "converge", "forget",
           "row", "invalidate", "turn", "one-ship", "integrity"}

\* A process is at a line of one of the procedures; only the runner iterates.
TypeOK ==
  /\ status \in [Subs -> {"in-progress", "shipped", "blocked"}]
  /\ marked \subseteq Subs
  /\ reverts \subseteq [slug : Subs, commit : BOOLEAN]
  /\ \A row \in reverts : row.commit => row.slug \in marked
  /\ forged \subseteq Subs /\ undone \subseteq Subs
  /\ intent \in Subs \cup {NoSub}
  /\ pc \in [Procs -> Labels]
  /\ \A p \in Sessions : pc[p] \notin {"turn", "one-ship", "integrity", "row", "invalidate"}
  /\ turn = NoTurn \/ turn.target \in Subs
  /\ faults \in 0 .. MaxFaults

\* No ship without evidence: whoever dies where, a plan that says shipped has
\* its marker commit, unless a worker wrote the status by hand.
ShippedIsMarked ==
  \A s \in Subs : status[s] = "shipped" => s \in marked \/ s \in forged

\* The runner makes s shipped: no new ship of it is under way, no session's
\* repair does it, and no worker's own hand.
Reships(s) ==
  /\ status[s] # "shipped" /\ status'[s] = "shipped" /\ s \notin forged'
  /\ \A p \in Procs : ~Shipping(p, s)
  /\ \A p \in Sessions : pc[p] # "converge"

\* As long as no process died and no revert row was lost, a convergence never
\* out-votes a deliberate revert, whatever a session ships or repairs between
\* the runner's own steps (run_ilk_loop_claude.sh 3907: the intent "distinguishes
\* 'died mid-write' from 'a gate unwound this'").
UncutRevertStands == [][faults = 0 => \A s \in undone : ~Reships(s)]_vars

Interrupted(s) == intent = s /\ s \in marked /\ status[s] = "in-progress" /\ ~IsReverted(s)

\* An interrupted ship the intent attests to does not stay half done: it is
\* converged, reverted or held, or another ship takes over the intent; unless
\* its sub-plan was once reverted without a marker commit.
ReadableConverges ==
  \A s \in Subs : Interrupted(s) /\ ~Unreadable(s) ~> ~Interrupted(s)
=============================================================================

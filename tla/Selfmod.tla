------------------------------ MODULE Selfmod ------------------------------
(***************************************************************************)
(* The toolkit's own project under the loop: a run works in a worktree of  *)
(* the clone whose scripts every loop of the host executes, and moves the  *)
(* clone only by a fast-forward that no other run may see.                 *)
(*                                                                         *)
(* run_ilk_loop_claude.sh sets the isolation up, retries a deferred merge  *)
(* at a start, and merges after a green iteration; selfmod_worktree.py is  *)
(* the merge of a legacy run, selfmod_landing.py that of a code-only one.  *)
(* Runs of other projects come and go, yield at an iteration boundary to a *)
(* pending merge, and are relaunched by their watchdogs.                   *)
(*                                                                         *)
(* A commit is a number, and a head the set of the commits it reaches: a   *)
(* fast-forward is a move to a superset.  Each process the runner starts   *)
(* is a step or more of its own, and the run may die between any two.  The *)
(* marker .ilk-merge-deferred decides nothing: a retry writes it where it  *)
(* is missing.                                                             *)
(***************************************************************************)
EXTENDS Naturals

CONSTANTS Others,      \* the loops of other projects that use this clone
          Threshold,   \* NO_PROGRESS_THRESHOLD of the scheduler
          MaxCommits,  \* bound: commits, of workers and of the operator
          MaxLaunches, \* bound: launches no pending merge asked for, and acknowledgements
          MaxFaults    \* bound: red gates, deaths and disturbances of the clone

ASSUME SelfmodAssumption ==
  /\ Threshold \in Nat \ {0}
  /\ MaxCommits \in Nat /\ MaxLaunches \in Nat /\ MaxFaults \in Nat

VARIABLES clone,    \* HEAD of the live clone
          dirty,    \* the clone has modified tracked files
          tree,     \* HEAD of worktrees/selfmod-batch, or NoTree
          wip,      \* the worktree has uncommitted files
          made,     \* commits made so far
          red,      \* commits that no gate but a red one has measured since
          others,   \* the other loops
          run,      \* the runner of the toolkit's project
          sentinel, \* its last-exit.json
          saved,    \* selfmod-state.json: the recorded head, or NoTree
          stall,    \* no-progress.json: the count, and whether a moved plan or an
                    \* acknowledgement has cleared it since
          left      \* launches and faults still allowed

gitVars == <<clone, dirty, tree, wip, made, red>>
vars == <<gitVars, others, run, sentinel, saved, stall, left>>

NoTree == {}

Off == [pc |-> "off", caller |-> "none", rc |-> "none", owned |-> FALSE, isolated |-> FALSE,
        deferred |-> FALSE, path |-> "clone", base |-> NoTree, fresh |-> {}, stop |-> "none"]

Init ==
  /\ clone = {0} /\ tree = NoTree /\ made = 0 /\ red = {}
  /\ dirty = FALSE /\ wip = FALSE
  /\ others = [o \in Others |-> "off"]
  /\ run = Off
  /\ sentinel = [state |-> "none", deferred |-> FALSE]
  /\ saved = NoTree
  /\ stall = [count |-> 0, cleared |-> TRUE]
  /\ left = [launches |-> MaxLaunches, faults |-> MaxFaults]

At(pc) == run.pc = pc

\* unmerged_worktree_commits
Unmerged == tree \ clone


\* What the scan and the other runners take for a pending merge.
MergePending ==
  /\ sentinel.state = "merge-deferred" \/ sentinel.deferred
  /\ Unmerged # {}

Fault == left.faults > 0 /\ left' = [left EXCEPT !.faults = @ - 1]

Blockers == {o \in Others : others[o] = "live"}

-----------------------------------------------------------------------------
(* Launch and preflight *)

Launched ==
  /\ At("off")
  /\ \E owned \in BOOLEAN : run' = [Off EXCEPT !.pc = "preflight", !.owned = owned]
  /\ sentinel' = [state |-> "running", deferred |-> FALSE]
  /\ UNCHANGED <<gitVars, others, saved>>

\* A run that is "done" may have ended because everything was shipped.
EndedClean == IF sentinel.state = "done" THEN BOOLEAN ELSE {FALSE}

\* The scheduler counts a launch that neither a clean end, nor a plan that moved,
\* nor an acknowledgement speaks for, and makes none that reaches its threshold.
Counted ==
  \E clean \in EndedClean :
    LET n == IF clean \/ stall.cleared THEN 0 ELSE stall.count + 1
    IN  n < Threshold /\ stall' = [count |-> n, cleared |-> FALSE]

\* The bound is reached: the project waits for its plans or for an operator.
Stopped == stall.count >= Threshold /\ ~stall.cleared

RefuseMerge ==
  /\ MergePending /\ At("off")
  /\ ~stall.cleared /\ stall.count + 1 = Threshold
  /\ stall' = [stall EXCEPT !.count = Threshold]
  /\ UNCHANGED <<gitVars, others, run, sentinel, saved, left>>

\* The scheduler dispatches a pending merge, whatever its queue says.
DispatchMerge == MergePending /\ Launched /\ Counted /\ UNCHANGED left

\* The queue has work, which the scheduler counts too, or a person wants a run.
Launch ==
  /\ left.launches > 0 /\ left' = [left EXCEPT !.launches = @ - 1]
  /\ Launched
  /\ Counted \/ UNCHANGED stall

\* The terminal sentinel.  A deferral is its state, or a field beside it.
End(state) ==
  /\ run' = Off
  /\ sentinel' = [state |-> state, deferred |-> run.deferred]

Retry(caller) == [run EXCEPT !.pc = "merge", !.caller = caller]

\* Nothing is runnable: a merge that is owed is tried before the run ends, but
\* not when what is shipped lacks its proof.
Preflight ==
  /\ At("preflight")
  /\ \/ /\ run' = [run EXCEPT !.pc = "setup"]
        /\ UNCHANGED sentinel
     \/ /\ tree \in {NoTree, clone}
        /\ End("done")
     \/ End("unproven")
     \/ /\ tree \notin {NoTree, clone}
        /\ run' = Retry("preflight")
        /\ UNCHANGED sentinel
  /\ UNCHANGED <<clone, dirty, tree, wip, made, red, others, saved, stall, left>>

-----------------------------------------------------------------------------
(* Isolation at the start of an iteration *)

\* Mutated form: a clean worktree follows the clone whatever it holds.
FollowedBlindly == IF tree = NoTree \/ ~wip THEN clone ELSE tree

\* create: a new worktree at the clone's HEAD; one that exists is moved there
\* when it is clean and has no commit of its own.
Created == IF tree = NoTree \/ (~wip /\ tree \subseteq clone) THEN clone ELSE tree

\* Isolation that is in place is kept; in a worktree without it, which a red
\* iteration leaves behind, PROJECT_PATH is not the clone and none is required.
KeepPlace ==
  /\ At("setup") /\ run.path = "tree"
  /\ run' = [run EXCEPT !.pc = "enter"]
  /\ UNCHANGED <<gitVars, others, sentinel, saved, stall, left>>

Isolate ==
  /\ At("setup") /\ run.path = "clone"
  /\ tree' = Created
  /\ LET in == [run EXCEPT !.isolated = TRUE, !.path = "tree"]
     IN IF tree' = clone
        THEN run' = [in EXCEPT !.pc = "enter"]
        ELSE run' = [in EXCEPT !.pc = "merge", !.caller = "setup"]
  /\ UNCHANGED <<clone, dirty, wip, made, red, others, sentinel, saved, stall, left>>

\* The state is recorded, and an owned iteration freezes the base it may land
\* on: a clean clone at the worktree's own head.
Enter ==
  /\ At("enter")
  /\ saved' = IF run.isolated THEN tree ELSE saved
  /\ run' = [run EXCEPT !.pc = "work", !.fresh = {},
               !.base = IF clone = tree /\ ~dirty THEN clone ELSE NoTree]
  /\ UNCHANGED <<gitVars, others, sentinel, stall, left>>

-----------------------------------------------------------------------------
(* The iteration *)

\* The iteration may move a plan's status or step, which the scheduler compares.
MayMove == \E moved \in {stall.cleared, TRUE} : stall' = [stall EXCEPT !.cleared = moved]

Commit ==
  /\ made < MaxCommits
  /\ made' = made + 1 /\ tree' = tree \cup {made'}

\* A legacy worker commits itself; any worker may leave files behind.
Work ==
  /\ At("work")
  /\ \/ ~run.owned /\ Commit /\ run' = [run EXCEPT !.pc = "gate", !.fresh = {made'}]
     \/ UNCHANGED <<made, tree>> /\ run' = [run EXCEPT !.pc = "gate"]
  /\ wip' \in BOOLEAN
  /\ UNCHANGED <<clone, dirty, red, others, sentinel, saved, stall, left>>

\* After the gates: the work is kept out of the clone.  The deferral of an
\* earlier iteration keeps its isolation.
Withheld(done, stop) == [done EXCEPT !.pc = "closing", !.stop = stop,
                           !.isolated = @ /\ run.deferred]

\* An iteration goes on to merge, but not into a clone somebody touched.
Merges == run.isolated /\ ~dirty

\* What is recorded, and where the iteration goes, unless a gate is red.
MergesNext(done) ==
  /\ saved' = IF run.isolated THEN tree' ELSE saved
  /\ run' = IF Merges THEN [done EXCEPT !.pc = IF run.owned THEN "land" ELSE "merge",
                             !.caller = "iteration"]
            ELSE Withheld(done, IF run.isolated THEN "touched" ELSE done.stop)

GreenGate ==
  /\ At("gate")
  /\ \/ run.owned /\ Commit
     \/ UNCHANGED <<made, tree>>
  /\ red' = red \ tree'
  /\ MergesNext([run EXCEPT !.fresh = @ \cup (tree' \ tree)])
  /\ MayMove
  /\ UNCHANGED <<clone, dirty, wip, others, sentinel, left>>

\* A worker that was killed before it committed is not gated: its files become
\* a commit, and the iteration merges.  An owned one has nothing accepted to
\* land, and its files stay.
Interrupted ==
  /\ At("gate") /\ run.fresh = {}
  /\ \/ ~run.owned /\ wip /\ Commit /\ wip' = FALSE
     \/ UNCHANGED <<made, tree, wip>>
  /\ \E stop \in {"timeout"} \cup (IF run.owned THEN {} ELSE {"none"}) :
       MergesNext([run EXCEPT !.stop = stop, !.base = NoTree])
  /\ MayMove
  /\ UNCHANGED <<clone, dirty, red, others, sentinel, left>>

\* The work stays in the worktree; the run stops, or a legacy one tries again.
RedGate ==
  /\ At("gate") /\ Fault
  /\ red' = red \cup run.fresh
  /\ saved' = IF run.isolated THEN tree ELSE saved
  /\ \E stop \in {"red"} \cup (IF run.owned THEN {} ELSE {"none"}) : run' = Withheld(run, stop)
  /\ MayMove
  /\ UNCHANGED <<clone, dirty, tree, wip, made, others, sentinel>>

-----------------------------------------------------------------------------
(* The merge of selfmod_worktree.py *)

Answer(rc) == [run EXCEPT !.pc = "back", !.rc = rc]

\* create once more, the dirty check, and both probes for live runs.
MergeProbes ==
  /\ At("merge")
  /\ tree' = Created
  /\ run' = IF dirty THEN Answer("failed")
            ELSE IF Blockers # {} THEN Answer("deferred")
            ELSE [run EXCEPT !.pc = "ff"]
  /\ UNCHANGED <<clone, dirty, wip, made, red, others, sentinel, saved, stall, left>>

\* The divergence check and merge --ff-only, which git refuses over local
\* edits of the files it would change.
MergeForward ==
  /\ At("ff")
  /\ \/ /\ clone \subseteq tree
        /\ clone' = tree /\ run' = [run EXCEPT !.pc = "remove"]
     \/ /\ tree \subseteq clone
        /\ run' = [run EXCEPT !.pc = "remove"] /\ UNCHANGED clone
     \/ /\ \/ ~(clone \subseteq tree) /\ ~(tree \subseteq clone)
           \/ dirty /\ Unmerged # {}
        /\ run' = Answer("failed") /\ UNCHANGED clone
  /\ UNCHANGED <<dirty, tree, wip, made, red, others, sentinel, saved, stall, left>>

\* The worktree is removed unless files are left in it; the run goes on.
RemoveTree ==
  /\ At("remove")
  /\ tree' = IF wip THEN tree ELSE NoTree
  /\ run' = [Answer("merged") EXCEPT !.path = "clone"]
  /\ UNCHANGED <<clone, dirty, wip, made, red, others, sentinel, saved, stall, left>>

(* The landing of selfmod_landing.py *)

\* The frozen base, the accepted tree and the probe, under the merge lock.
LandProbes ==
  /\ At("land")
  /\ run' = IF run.base = NoTree \/ wip \/ Blockers # {} THEN Answer("failed")
            ELSE [run EXCEPT !.pc = "landff"]
  /\ UNCHANGED <<gitVars, others, sentinel, saved, stall, left>>

LandForward ==
  /\ At("landff")
  /\ IF clone \in {run.base, tree} /\ ~dirty
     THEN clone' = tree /\ run' = [run EXCEPT !.pc = "landed"]
     ELSE run' = Answer("failed") /\ UNCHANGED clone
  /\ UNCHANGED <<dirty, tree, wip, made, red, others, sentinel, saved, stall, left>>

\* The clone is exactly what was accepted; the worktree is kept.
LandVerifies ==
  /\ At("landed")
  /\ IF clone = tree /\ ~dirty
     THEN /\ saved' = tree
          /\ run' = [Answer("merged") EXCEPT !.path = "clone"]
     ELSE run' = Answer("failed") /\ UNCHANGED saved
  /\ UNCHANGED <<clone, dirty, tree, wip, made, red, others, sentinel, stall, left>>

-----------------------------------------------------------------------------
(* What the callers make of the answer *)

Resumed == [run EXCEPT !.caller = "none", !.rc = "none"]

PreflightResumes ==
  /\ At("back") /\ run.caller = "preflight"
  /\ \/ run.rc = "merged" /\ run' = [Resumed EXCEPT !.pc = "setup"] /\ UNCHANGED sentinel
     \/ run.rc = "merged" /\ End("done")
     \/ run.rc = "deferred" /\ End("merge-deferred")
     \/ run.rc = "failed" /\ End("failed")
  /\ UNCHANGED <<clone, dirty, tree, wip, made, red, others, saved, stall, left>>

\* Mutated form: after a landed retry the isolation is taken to be in place.
NotReentered == <<tree, [Resumed EXCEPT !.pc = "enter"]>>

\* A landed retry removed the worktree: it is entered anew.
Reentered == <<Created, [Resumed EXCEPT !.pc = "enter", !.path = "tree"]>>

SetupResumes ==
  /\ At("back") /\ run.caller = "setup"
  /\ IF run.rc = "failed" THEN End("failed") /\ UNCHANGED tree
     ELSE /\ IF run.rc = "merged" THEN tree' = Reentered[1] /\ run' = Reentered[2]
             ELSE run' = [Resumed EXCEPT !.pc = "enter"] /\ UNCHANGED tree
          /\ UNCHANGED sentinel
  /\ UNCHANGED <<clone, dirty, wip, made, red, others, saved, stall, left>>

\* reconcile refuses a worktree that vanished before its commits landed.
Lost == tree = NoTree /\ ~(saved \subseteq clone)

\* A deferral keeps its isolation, a landing gives it up, a failure ends the run.
IterationResumes ==
  /\ At("back") /\ run.caller = "iteration"
  /\ LET deferred == IF run.rc = "failed" THEN run.deferred ELSE run.rc = "deferred"
     IN run' = [Resumed EXCEPT !.pc = "closing", !.deferred = deferred, !.isolated = deferred,
                  !.stop = IF Lost THEN "invalid" ELSE IF run.rc = "failed" THEN "failed" ELSE @]
  /\ saved' = IF tree # NoTree THEN tree ELSE saved
  /\ UNCHANGED <<clone, dirty, tree, wip, made, red, others, sentinel, stall, left>>

\* A deferred merge and no new commit end the run, as its stop reason does, the
\* queue or the last iteration; the loop's next turn sets up again.
Close ==
  /\ At("closing")
  /\ LET stop == IF run.deferred /\ run.fresh = {} THEN "blocked" ELSE run.stop
     IN IF stop # "none" THEN End(stop)
        ELSE \/ End("done")
             \/ run' = [run EXCEPT !.pc = "setup", !.fresh = {}] /\ UNCHANGED sentinel
  /\ UNCHANGED <<gitVars, others, saved, stall, left>>

\* Killed: the sentinel goes on saying "running".
RunDies ==
  /\ ~At("off") /\ Fault
  /\ run' = Off
  /\ UNCHANGED <<gitVars, others, sentinel, saved, stall>>

-----------------------------------------------------------------------------
(* The other loops and the operator *)

Costed == left.launches > 0 /\ left' = [left EXCEPT !.launches = @ - 1]

\* The scheduler holds new work while a merge is pending; the watchdog of a run
\* that yielded does not ask.
OtherStarts(o) ==
  /\ others[o] = "yielded" \/ (others[o] = "off" /\ ~MergePending)
  /\ Costed
  /\ others' = [others EXCEPT ![o] = "live"]
  /\ UNCHANGED <<gitVars, run, sentinel, saved, stall>>

\* Its queue, its iterations or a pending merge end it at a boundary.
OtherEnds(o) ==
  /\ others[o] = "live"
  /\ \/ others' = [others EXCEPT ![o] = "off"]
     \/ MergePending /\ others' = [others EXCEPT ![o] = "yielded"]
  /\ UNCHANGED <<gitVars, run, sentinel, saved, stall, left>>

\* A commit in the clone, an edit of it by a worker or a person, and its end.
Disturb ==
  /\ \/ /\ Fault /\ made < MaxCommits
        /\ made' = made + 1 /\ clone' = clone \cup {made'} /\ UNCHANGED dirty
     \/ Fault /\ ~dirty /\ dirty' = TRUE /\ UNCHANGED <<made, clone>>
     \/ dirty /\ dirty' = FALSE /\ UNCHANGED <<made, clone, left>>
  /\ UNCHANGED <<tree, wip, red, others, run, sentinel, saved, stall>>

\* The operator's resolve-ack, or an edit of a plan by hand.
Acknowledge ==
  /\ ~stall.cleared /\ Costed
  /\ stall' = [stall EXCEPT !.cleared = TRUE]
  /\ UNCHANGED <<gitVars, others, run, sentinel, saved>>

RunSteps ==
  \/ Preflight \/ KeepPlace \/ Isolate \/ Enter
  \/ Work \/ GreenGate \/ Interrupted \/ RedGate
  \/ MergeProbes \/ MergeForward \/ RemoveTree
  \/ LandProbes \/ LandForward \/ LandVerifies
  \/ PreflightResumes \/ SetupResumes \/ IterationResumes \/ Close

Next ==
  \/ DispatchMerge \/ RefuseMerge \/ Launch \/ RunSteps \/ RunDies
  \/ Disturb \/ Acknowledge
  \/ \E o \in Others : OtherStarts(o) \/ OtherEnds(o)

Spec == Init /\ [][Next]_vars

\* A run goes on until it ends, every other run ends, and the scheduler's polls
\* come back to a pending merge and dispatch it or refuse it at the bound.  An
\* acknowledgement is owed to nobody.
FairSpec ==
  /\ Spec
  /\ WF_vars(RunSteps) /\ WF_vars(DispatchMerge \/ RefuseMerge)
  /\ \A o \in Others : WF_vars(OtherEnds(o))

-----------------------------------------------------------------------------
(* Properties *)

\* Every commit a worker or the operator made is reachable from the clone or the
\* worktree, whatever the refreshes, removals, refused merges and deaths between:
\* no branch holds the detached worktree's commits.
NothingLost == 1 .. made \subseteq clone \cup tree

\* A worker is dispatched into the worktree, never into the clone whose scripts
\* the host executes, also when the retry of a merge at the start of the
\* iteration has just landed and removed the worktree.
OutOfClone == At("work") => run.path = "tree" /\ tree # NoTree


\* "On a red gate or ship-integrity violation, the worktree is kept so the red
\* work does not land in the live clone" (run_ilk_loop_claude.sh 8244): no commit
\* of the clone is one that only a red gate has measured.
RedStaysOut == red \cap clone = {}
=============================================================================

----------------------------- MODULE AcceptStep -----------------------------
(***************************************************************************)
(* Acceptance of one authored step, and its recovery at the next start:    *)
(* driver_step.py, acceptance_recovery.py, iteration_record.py and the     *)
(* iterations of run_ilk_loop_claude.sh that call them (code-only mode,    *)
(* execution in the project's own clone).                                  *)
(*                                                                         *)
(* Accepting a step changes two resources that no single write covers: the *)
(* git branch (the driver's commit) and the plan file (current_step, under *)
(* PlanJournal's compare-and-set).  A receipt, acceptance-*.json, is       *)
(* written ahead of each change; a runner that starts again finishes the   *)
(* iteration whose receipt no close record follows, or refuses.            *)
(*                                                                         *)
(* A tree is a value; a commit is a record on one linear branch; a frozen  *)
(* context names its base commit by position.  The plan transition is the  *)
(* three durable steps of PlanState, here with the checks and the intent   *)
(* in one step: ChecksStillHold of PlanState is what allows that.          *)
(***************************************************************************)
EXTENDS PlanJournal

CONSTANTS Sub, Master,   \* the dispatched sub-plan and its master
          Trees,         \* contents of the execution tree
          BaseTree,      \* the tree the run starts from
          Steps,         \* authored steps of the sub-plan
          MaxIters,      \* iterations, over all runs
          Budgets        \* bounds of a run: iterations, further worker turns
                         \* after a red gate, crashes and failed recoveries,
                         \* and interferences

ASSUME PlansAssumption == Sub # Master
ASSUME TreesAssumption == BaseTree \in Trees
ASSUME AcceptBoundsAssumption ==
  /\ Steps \in Nat \ {0} /\ MaxIters \in Nat \ {0}
  /\ \A b \in Budgets : b.iters \in 0 .. MaxIters

Iterations == 1 .. MaxIters

VARIABLES
  files, log,   \* the two plan files and state-transitions.jsonl
  commits,      \* the branch, oldest first
  work, index,  \* the working tree and git's index
  history,      \* driver-gate-history.json
  contexts,     \* ctx-<i>.json, the frozen context of each iteration
  receipts,     \* acceptance-*.json
  closes,       \* the close records of .ilk-loop.log
  ledger,       \* ship-proof.jsonl: what it says of each iteration
  pc, mode,     \* where the runner is: down, recovering, or live
  cur,          \* the iteration it works on
  acc,          \* what the acceptance in progress holds in memory
  write,        \* the plan transition in progress
  retries, iters, crashes, human  \* counters for the bounds

plan     == <<files, log>>
repo     == <<commits, work, index>>
records  == <<history, contexts, receipts, closes, ledger>>
counters == <<retries, iters, crashes, human>>
vars == <<plan, repo, records, pc, mode, cur, acc, write, counters>>

\* A run stays within one of the budgets.
Within(i, r, c, h) ==
  \E b \in Budgets : i <= b.iters /\ r <= b.retries /\ c <= b.crashes /\ h <= b.human

NoContext == [base |-> 0]
NoReceipt == [phase |-> "none"]
NoClose   == [result |-> "none"]
NoWrite   == [path |-> "none"]
NoAcc     == [tree |-> BaseTree, measured |-> BaseTree, head |-> 0, made |-> FALSE,
              status |-> "pending"]

Content(status) == [status |-> status, current_step |-> 0, hold |-> "none",
                    auto_block_fails |-> 0, contract |-> 0, notes |-> 0]

Commit0 == [tree |-> BaseTree, kind |-> "base", step |-> 0, iter |-> 0]

Init ==
  /\ files = [x \in {Sub, Master} |-> Content(IF x = Sub THEN "pending" ELSE "active")]
  /\ log = <<>>
  /\ commits = <<Commit0>> /\ work = BaseTree /\ index = BaseTree
  /\ history = {}
  /\ contexts = [i \in Iterations |-> NoContext]
  /\ receipts = [i \in Iterations |-> NoReceipt]
  /\ closes = [i \in Iterations |-> NoClose]
  /\ ledger = [i \in Iterations |-> "none"]
  /\ pc = "down" /\ mode = "live" /\ cur = 0
  /\ acc = NoAcc /\ write = NoWrite
  /\ retries = 0 /\ iters = 0 /\ crashes = 0 /\ human = 0

-----------------------------------------------------------------------------
(* What the steps read.                                                    *)

HEAD     == Len(commits)
HeadTree == commits[HEAD].tree
Clean    == work = HeadTree /\ index = HeadTree
Context  == contexts[cur]

Runnable(c) == ~Held(c) /\ c.status # "shipped"

\* driver_step.validate: contract, pointer and holds are as dispatched.
Valid ==
  /\ files[Sub].contract = Context.contract
  /\ files[Sub].current_step = Context.step
  /\ Runnable(files[Sub]) /\ Runnable(files[Master])

\* gate_input_fingerprint, as far as this model tells inputs apart.
Inputs(c) == [base |-> c.base, step |-> c.step, contract |-> c.contract]

Attempt(c, tree, outcome) == [inputs |-> Inputs(c), tree |-> tree, outcome |-> outcome]

Outcomes(c, tree) ==
  {a.outcome : a \in {b \in history : b.inputs = Inputs(c) /\ b.tree = tree}}

\* Mutant of Verdict: only the last attempt counts.
LastVerdict(seen, outcome, unchanged) ==
  IF ~unchanged \/ outcome = "error" THEN "inconclusive"
  ELSE IF outcome = "pass" THEN "green" ELSE "red"

\* attempt_verdict: every attempt on this tree and these inputs counts.
Verdict(seen, outcome, unchanged) ==
  LET all == seen \cup {outcome} IN
  IF ~unchanged \/ "error" \in all THEN "inconclusive"
  ELSE IF all = {"pass"} THEN "green"
  ELSE IF all = {"fail"} THEN "red" ELSE "flaky"

\* Mutant of AtTransactionHead: the accepted commit must still be the head.
AtExactHead(a) == HeadTree = a.tree /\ work = a.tree /\ a.head = HEAD

\* _transaction_head: only empty ship markers follow the accepted commit.
AtTransactionHead(a) ==
  /\ HeadTree = a.tree /\ work = a.tree
  /\ a.head <= HEAD
  /\ \A n \in (a.head + 1) .. HEAD : commits[n].kind = "ship" /\ commits[n].tree = a.tree

Explained == AuditResult(log, Context, files) = "explained"

LastStep == Context.step + 1 = Steps

\* A runner that meets a refusal: the iteration closes without proof, or the
\* recovery leaves everything for its owner.
Refuse == pc' = IF mode = "live" THEN "closing" ELSE "refused"

\* A recovery that ends although nothing it found stands against it: its time is
\* up, or git failed.  The runs' bound on crashes counts it.
Fail ==
  /\ mode = "recovery" /\ Within(iters, retries, crashes + 1, human)
  /\ pc' = "failed" /\ crashes' = crashes + 1

-----------------------------------------------------------------------------
(* The runner: start, dispatch, worker turn.                               *)

Start ==
  /\ pc = "down"
  /\ pc' = "startup" /\ mode' = "recovery" /\ cur' = 0
  /\ UNCHANGED <<plan, repo, records, acc, write, counters>>

\* Mutant of Projected: the ledger copies the close record's result.
ProjectedAsClosed(i) == IF ledger[i] # "provisional" THEN ledger[i] ELSE closes[i].result

\* project_close_record: a provisional row becomes proof, or is denied.
Projected(i) ==
  IF ledger[i] # "provisional" THEN ledger[i]
  ELSE IF closes[i].result = "passed" /\ closes[i].tree = closes[i].head_tree
       THEN "proof" ELSE "denied"

Received == {i \in Iterations : receipts[i] # NoReceipt}

Unfinished == {i \in Received : closes[i] = NoClose}

\* Mutant of Scan: a receipt without a close record is taken for finished.
ScanNothing ==
  /\ pc = "startup"
  /\ pc' = "ready"
  /\ UNCHANGED <<plan, repo, records, mode, cur, acc, write, counters>>

\* _recover_pending up to the one transaction it may finish.
Scan ==
  /\ pc = "startup"
  /\ ledger' = [i \in Iterations |->
                  IF closes[i] = NoClose THEN ledger[i] ELSE Projected(i)]
  /\ \/ /\ \E i \in Received : closes[i].result \in {"failed", "red"}
        /\ pc' = "refused" /\ UNCHANGED <<mode, cur>>
     \/ /\ \A i \in Received : closes[i].result \notin {"failed", "red"}
        /\ \/ /\ Unfinished = {}
              /\ pc' = "ready" /\ UNCHANGED <<mode, cur>>
           \/ /\ Cardinality(Unfinished) > 1
              /\ pc' = "refused" /\ UNCHANGED <<mode, cur>>
           \/ \E i \in Unfinished :
                /\ Unfinished = {i}
                /\ cur' = i /\ pc' = "recover" /\ UNCHANGED mode
  /\ UNCHANGED <<plan, repo, history, contexts, receipts, closes, acc, write, counters>>

\* The closed iterations that share the recovery directory of a contract.
ClosedWith(contract) ==
  {i \in Iterations : closes[i] # NoClose /\ contexts[i].contract = contract}

\* admit_retained_red_entry: the diff of the last closed red turn, untouched.
RetainedRed(c) ==
  \E i \in ClosedWith(c.contract) :
     /\ \A j \in ClosedWith(c.contract) : j <= i
     /\ closes[i].result = "red" /\ closes[i].explained
     /\ Inputs(contexts[i]) = Inputs(c) /\ contexts[i].snap = c.snap
     /\ closes[i].tree = work

\* resolve_context and worker_dispatch.prepare.
Dispatch ==
  /\ pc = "ready" /\ Within(iters + 1, retries, crashes, human)
  /\ files[Sub].current_step < Steps
  /\ Runnable(files[Sub]) /\ Runnable(files[Master])
  /\ \A x \in {Sub, Master} : Explicable(log, x, files[x])
  /\ LET recovered == Recovered(Recovered(log, Sub, files[Sub]), Master, files[Master])
         c == [base |-> HEAD, step |-> files[Sub].current_step, cursor |-> Len(recovered),
               snap |-> [x \in {Sub, Master} |-> OwnedState(files[x])],
               contract |-> files[Sub].contract]
     IN  /\ Clean \/ RetainedRed(c)
         /\ log' = recovered
         /\ contexts' = [contexts EXCEPT ![iters + 1] = c]
  /\ iters' = iters + 1 /\ cur' = iters + 1
  /\ acc' = NoAcc
  /\ pc' = "dispatched" /\ mode' = "live"
  /\ UNCHANGED <<files, repo, history, receipts, closes, ledger, write, retries, crashes, human>>

\* The run ends between iterations: nothing runnable, or its cap.
Stop ==
  /\ pc = "ready"
  /\ pc' = "down"
  /\ UNCHANGED <<plan, repo, records, mode, cur, acc, write, counters>>

\* A turn of the sandboxed worker: it can edit the tree and nothing else.
WorkerTurn ==
  /\ pc = "dispatched"
  /\ \/ \E t \in Trees : work' = t /\ pc' = "validate"
     \/ \E t \in Trees : work' = t /\ pc' = "closing"
  /\ UNCHANGED <<plan, commits, index, records, mode, cur, acc, write, counters>>

-----------------------------------------------------------------------------
(* _accept_step.                                                           *)

Validate ==
  /\ pc = "validate"
  /\ \/ Valid /\ HEAD = Context.base /\ index = HeadTree
        /\ acc' = [NoAcc EXCEPT !.status = files[Sub].status] /\ pc' = "gate"
     \/ ~(Valid /\ HEAD = Context.base /\ index = HeadTree)
        /\ Refuse /\ UNCHANGED acc
  /\ UNCHANGED <<plan, repo, records, mode, cur, write, counters>>

\* One run of the gate; a check may change the tree it measures.
Measure(outcome, t) ==
  /\ history' = history \cup {Attempt(Context, work, outcome)}
  /\ work' = t
  /\ acc' = [acc EXCEPT !.measured = work]

GateOutcomes == {"pass", "fail", "error"}

\* The gate of the worker's diff.  A red one goes back to the worker until
\* the retry policy stops the iteration.
Gate ==
  /\ pc = "gate"
  /\ \E outcome \in GateOutcomes, t \in Trees :
       LET verdict == Verdict(Outcomes(Context, work), outcome, t = work) IN
       /\ Measure(outcome, t)
       /\ \/ verdict = "green" /\ pc' = "revalidate" /\ UNCHANGED retries
          \/ verdict = "red" /\ pc' \in {"red", "closing"} /\ UNCHANGED retries
          \/ /\ verdict = "red" /\ Within(iters, retries + 1, crashes, human)
             /\ pc' = "dispatched" /\ retries' = retries + 1
          \/ verdict \notin {"green", "red"} /\ pc' = "closing" /\ UNCHANGED retries
  /\ UNCHANGED <<plan, commits, index, contexts, receipts, closes, ledger, mode, cur, write,
                 iters, crashes, human>>

Revalidate ==
  /\ pc = "revalidate"
  /\ \/ Valid /\ HEAD = Context.base /\ index = HeadTree
        /\ acc' = [acc EXCEPT !.tree = acc.measured]
        /\ pc' = IF acc.measured = HeadTree THEN "committed" ELSE "intend"
     \/ ~(Valid /\ HEAD = Context.base /\ index = HeadTree)
        /\ Refuse /\ UNCHANGED acc
  /\ UNCHANGED <<plan, repo, records, mode, cur, write, counters>>

Receipt(phase, a) == [phase |-> phase, tree |-> a.tree, measured |-> a.measured,
                      head |-> a.head, made |-> a.made]

SaveReceipt(phase, a) == receipts' = [receipts EXCEPT ![cur] = Receipt(phase, a)]

SaveIntent ==
  /\ pc = "intend"
  /\ SaveReceipt("commit-intent", [acc EXCEPT !.head = Context.base])
  /\ pc' = "stage"
  /\ UNCHANGED <<plan, repo, history, contexts, closes, ledger, mode, cur, acc, write, counters>>

\* git add -A, then write-tree must be the gated tree.
Stage ==
  /\ pc = "stage"
  /\ index' = work
  /\ \/ work = acc.tree /\ pc' = "commit"
     \/ work # acc.tree /\ Refuse
  /\ UNCHANGED <<plan, commits, work, records, mode, cur, acc, write, counters>>

\* git commit: a hook may change what is committed, leave changes, or fail.
\* Git makes no empty commit.
Commit ==
  /\ pc = "commit"
  /\ \/ /\ \E t \in Trees \ {HeadTree} :
             /\ commits' = Append(commits, [tree |-> t, kind |-> "step",
                                            step |-> Context.step, iter |-> cur])
             /\ index' = t /\ work' \in {work, t}
        /\ acc' = [acc EXCEPT !.made = TRUE, !.head = HEAD + 1]
        /\ pc' = "committed"
     \/ Refuse /\ UNCHANGED <<repo, acc>>
  /\ UNCHANGED <<plan, records, mode, cur, write, counters>>

\* Mutant of Committed: what the hook committed is not gated again.
CommittedUngated ==
  /\ pc = "committed"
  /\ \/ work # HeadTree /\ Refuse /\ UNCHANGED acc
     \/ work = HeadTree /\ acc' = [acc EXCEPT !.tree = HeadTree] /\ pc' = "prepare"
  /\ UNCHANGED <<plan, repo, records, mode, cur, write, counters>>

Committed ==
  /\ pc = "committed"
  /\ \/ work # HeadTree /\ Refuse /\ UNCHANGED acc
     \/ /\ work = HeadTree
        /\ acc' = [acc EXCEPT !.tree = HeadTree]
        /\ pc' = IF HeadTree = acc.tree THEN "prepare" ELSE "regate"
  /\ UNCHANGED <<plan, repo, records, mode, cur, write, counters>>

\* The tree a hook produced needs a green gate of its own.
Regate ==
  /\ pc = "regate"
  /\ \E outcome \in GateOutcomes, t \in Trees :
       /\ Measure(outcome, t)
       /\ IF Verdict(Outcomes(Context, work), outcome, t = work) = "green"
          THEN pc' = "prepare" ELSE Refuse
  /\ UNCHANGED <<plan, commits, index, contexts, receipts, closes, ledger, mode, cur, write, counters>>

\* The second receipt; the live driver reads its head only now.
Prepare ==
  /\ pc = "prepare"
  /\ \/ /\ Valid
        /\ LET a == [acc EXCEPT !.head = IF mode = "live" THEN HEAD ELSE @] IN
           acc' = a /\ SaveReceipt("prepared", a)
        /\ pc' = IF mode = "live" THEN "advance" ELSE "transaction"
     \/ ~Valid /\ Refuse /\ UNCHANGED <<acc, receipts>>
  /\ UNCHANGED <<plan, repo, history, contexts, closes, ledger, mode, cur, write, counters>>

-----------------------------------------------------------------------------
(* The plan transitions of the driver.                                     *)

\* plan_state.transition up to its intent: the bytes on disk are explicable,
\* match, and nobody holds them; likewise every guard plan.
Allowed(path, expected) ==
  /\ Explicable(log, path, files[path])
  /\ Matches(files[path], expected) /\ ~Held(files[path])

Intent(rows, actor, path, from, to, after) ==
  [id |-> Len(rows) + 1, actor |-> actor, path |-> path, from |-> from, to |-> to,
   phase |-> "intent", before |-> files[path], after |-> after]

\* What recovering both plans leaves in the journal.
Settled(x, y) == Recovered(Recovered(log, y, files[y]), x, files[x])

BeginWrite(path, guard, actor, from, to, after, then) ==
  LET rows == Settled(path, guard) IN
  /\ log' = Append(rows, Intent(rows, actor, path, from, to, after))
  /\ write' = [path |-> path, row |-> Len(rows) + 1, then |-> then]
  /\ pc' = "intended"

Begin(path, guard, from, to, then) ==
  BeginWrite(path, guard, "driver", from, to, Project(files[path], to), then)

\* The pointer moves, guarded by the frozen state of the master.
Advance ==
  /\ pc = "advance"
  /\ LET from == [current_step |-> Context.step, status |-> acc.status]
         to == [current_step |-> Context.step + 1, status |-> "in-progress"] IN
     \/ /\ Allowed(Master, Context.snap[Master]) /\ Allowed(Sub, from)
        /\ Begin(Sub, Master, from, to, IF mode = "live" THEN "advanced" ELSE "explain")
     \/ /\ ~(Allowed(Master, Context.snap[Master]) /\ Allowed(Sub, from))
        /\ Refuse /\ UNCHANGED <<log, write>>
  /\ UNCHANGED <<files, repo, records, mode, cur, acc, counters>>

\* Mutant of Replace: the completion is appended before the file changes.
ReplaceLate ==
  /\ pc = "intended"
  /\ log' = Append(log, Completion(log[write.row], "applied"))
  /\ pc' = "replaced"
  /\ UNCHANGED <<files, repo, records, mode, cur, acc, write, counters>>

Replace ==
  /\ pc = "intended"
  /\ files' = [files EXCEPT ![write.path] = log[write.row].after]
  /\ pc' = "replaced"
  /\ UNCHANGED <<log, repo, records, mode, cur, acc, write, counters>>

Finish ==
  /\ pc = "replaced"
  /\ log' = Append(log, Completion(log[write.row], "applied"))
  /\ pc' = write.then /\ write' = NoWrite
  /\ UNCHANGED <<files, repo, records, mode, cur, acc, counters>>

Advanced ==
  /\ pc = "advanced"
  /\ SaveReceipt("advanced", acc)
  /\ pc' = "findings"
  /\ UNCHANGED <<plan, repo, history, contexts, closes, ledger, mode, cur, acc, write, counters>>

\* append_findings: the worker's text, if any, goes into the plan.  The writer
\* is integrity-repair, which a hold does not stop.
ImportFindings ==
  /\ pc = "findings"
  /\ LET state == [status |-> files[Sub].status] IN
     \/ pc' = "project" /\ UNCHANGED <<log, write>>
     \/ /\ Explicable(log, Sub, files[Sub])
        /\ BeginWrite(Sub, Sub, "integrity-repair", state, state,
                      [files[Sub] EXCEPT !.notes = @ + 1], "project")
     \/ ~Explicable(log, Sub, files[Sub]) /\ Refuse /\ UNCHANGED <<log, write>>
  /\ UNCHANGED <<files, repo, records, mode, cur, acc, counters>>

-----------------------------------------------------------------------------
(* _recover_acceptance.                                                    *)

\* The receipt still describes an exact green attempt on unchanged inputs.
Recoverable(r) ==
  /\ files[Sub].contract = Context.contract
  /\ OwnedState(files[Master]) = Context.snap[Master]
  /\ r.tree = r.measured

\* Mutant of Recover: an advanced pointer is taken for a closed iteration.
RecoverUnlessAdvanced ==
  /\ pc = "recover"
  /\ LET r == receipts[cur] IN
     \/ /\ Recoverable(r) /\ r.phase # "advanced"
        /\ acc' = [NoAcc EXCEPT !.tree = r.tree, !.measured = r.measured,
                                !.head = r.head, !.made = r.made]
        /\ pc' = IF r.phase = "commit-intent" THEN "reintend" ELSE "transaction"
     \/ r.phase = "advanced" /\ pc' = "ready" /\ UNCHANGED acc
     \/ ~Recoverable(r) /\ r.phase # "advanced" /\ Refuse /\ UNCHANGED acc
  /\ UNCHANGED <<plan, repo, records, mode, cur, write, counters>>

Recover ==
  /\ pc = "recover"
  /\ LET r == receipts[cur] IN
     \/ /\ Recoverable(r)
        /\ acc' = [NoAcc EXCEPT !.tree = r.tree, !.measured = r.measured,
                                !.head = r.head, !.made = r.made]
        /\ pc' = IF r.phase = "commit-intent" THEN "reintend" ELSE "transaction"
     \/ ~Recoverable(r) /\ Refuse /\ UNCHANGED acc
  /\ UNCHANGED <<plan, repo, records, mode, cur, write, counters>>

\* The commit this transaction made before it was interrupted.
OwnCommit ==
  /\ HEAD = Context.base + 1
  /\ commits[HEAD].kind = "step" /\ commits[HEAD].step = Context.step

\* Mutant of Reintend: it commits the original tree whatever the head is.
ReintendAgain ==
  /\ pc = "reintend"
  /\ \/ /\ Valid /\ work = acc.tree
        /\ index' = work /\ pc' = "commit"
     \/ ~(Valid /\ work = acc.tree) /\ Refuse /\ UNCHANGED index
  /\ UNCHANGED <<plan, commits, work, records, mode, cur, acc, write, counters>>

\* _recover_commit_intent: stage the original tree, or adopt the own commit.
Reintend ==
  /\ pc = "reintend"
  /\ \/ /\ Valid /\ HEAD = Context.base
        /\ work = acc.tree /\ index \in {commits[HEAD].tree, acc.tree}
        /\ index' = work /\ pc' = "commit" /\ UNCHANGED acc
     \/ /\ Valid /\ OwnCommit
        /\ acc' = [acc EXCEPT !.made = TRUE, !.head = HEAD]
        /\ pc' = "committed" /\ UNCHANGED index
     \/ /\ ~(/\ Valid
             /\ \/ HEAD = Context.base /\ work = acc.tree
                     /\ index \in {commits[HEAD].tree, acc.tree}
                \/ OwnCommit)
        /\ Refuse /\ UNCHANGED <<index, acc>>
  /\ UNCHANGED <<plan, commits, work, records, mode, cur, write, counters>>

\* The pointer had moved before the interruption.
AlreadyAdvanced ==
  /\ files[Sub].current_step = Context.step + 1
  /\ files[Sub].status \in {"in-progress", "shipped"} /\ files[Sub].hold # "human"

ResumeTransaction ==
  /\ pc = "transaction"
  /\ \/ /\ AtTransactionHead(acc) /\ Valid
        /\ acc' = [acc EXCEPT !.status = files[Sub].status] /\ pc' = "advance"
     \/ /\ AtTransactionHead(acc) /\ AlreadyAdvanced
        /\ pc' = "explain" /\ UNCHANGED acc
     \/ /\ ~(AtTransactionHead(acc) /\ (Valid \/ AlreadyAdvanced))
        /\ Refuse /\ UNCHANGED acc
  /\ UNCHANGED <<plan, repo, records, mode, cur, write, counters>>

Explain ==
  /\ pc = "explain"
  /\ \/ Explained /\ SaveReceipt("advanced", acc) /\ pc' = "project"
     \/ ~Explained /\ Refuse /\ UNCHANGED receipts
  /\ UNCHANGED <<plan, repo, history, contexts, closes, ledger, mode, cur, acc, write, counters>>

-----------------------------------------------------------------------------
(* From the accepted step to its close record.                             *)

\* project_result: the tree that is recorded is the one a gate measured.
Projectable ==
  /\ acc.tree = acc.measured /\ AtTransactionHead(acc)
  /\ mode = "live" => acc.head = HEAD

ProjectResult ==
  /\ pc = "project"
  /\ \/ /\ Projectable
        /\ pc' = IF mode = "live" THEN "ledger" ELSE IF LastStep THEN "ship" ELSE "settle"
     \/ ~Projectable /\ Refuse
  /\ UNCHANGED <<plan, repo, records, mode, cur, acc, write, counters>>

AfterShip == IF mode = "live" THEN "audit" ELSE "settle"

Marked == \E n \in 1 .. HEAD : commits[n].kind = "ship"

\* A live runner reports a ship that fails and goes on; a recovery refuses.
ShipFails == pc' = IF mode = "live" THEN "audit" ELSE "refused"

\* ship_transition.ship, first half: the marker commit, which adds nothing to
\* the index unless a hook does.
ShipMarker ==
  /\ pc = "ship"
  /\ \/ Held(files[Sub]) /\ ShipFails /\ UNCHANGED repo
     \/ ~Held(files[Sub]) /\ Marked /\ pc' = "status" /\ UNCHANGED repo
     \/ /\ ~Held(files[Sub]) /\ ~Marked /\ pc' = "status"
        /\ \E t \in Trees :
             /\ commits' = Append(commits, [tree |-> t, kind |-> "ship",
                                            step |-> Context.step, iter |-> cur])
             /\ index' = t
             /\ work' \in IF t = index THEN {work} ELSE {work, t}
  /\ UNCHANGED <<plan, records, mode, cur, acc, write, counters>>

\* A hook, or git itself, refuses the marker.
MarkerFails ==
  /\ pc = "ship" /\ ~Held(files[Sub]) /\ ~Marked
  /\ \/ mode = "live" /\ ShipFails /\ UNCHANGED crashes
     \/ Fail
  /\ UNCHANGED <<plan, repo, records, mode, cur, acc, write, retries, iters, human>>

\* Second half: the status.
ShipStatus ==
  /\ pc = "status"
  /\ LET from == [status |-> files[Sub].status]
         to == [status |-> "shipped"] IN
     \/ from = to /\ pc' = AfterShip /\ UNCHANGED <<log, write>>
     \/ from # to /\ Allowed(Sub, from) /\ Begin(Sub, Sub, from, to, AfterShip)
     \/ from # to /\ ~Allowed(Sub, from) /\ ShipFails /\ UNCHANGED <<log, write>>
  /\ UNCHANGED <<files, repo, records, mode, cur, acc, counters>>

Settle ==
  /\ pc = "settle"
  /\ \/ work = acc.tree /\ HeadTree = acc.tree /\ pc' = "ledger"
     \/ ~(work = acc.tree /\ HeadTree = acc.tree) /\ Refuse
  /\ UNCHANGED <<plan, repo, records, mode, cur, acc, write, counters>>

\* The provisional row; a recovery does not repeat the one it finds.
RecordProof ==
  /\ pc = "ledger"
  /\ ledger' = [ledger EXCEPT ![cur] = IF @ = "none" THEN "provisional" ELSE @]
  /\ pc' = IF mode = "live" /\ LastStep THEN "ship" ELSE "audit"
  /\ UNCHANGED <<plan, repo, history, contexts, receipts, closes, mode, cur, acc, write, counters>>

\* _require_step_integrity: each step so far has its commit, or a proof row.
StepsProven ==
  \A s \in 0 .. Context.step :
     \/ \E n \in 1 .. HEAD : commits[n].kind = "step" /\ commits[n].step = s
     \/ \E i \in Iterations : /\ contexts[i] # NoContext /\ contexts[i].step = s
                              /\ ledger[i] = "proof" \/ i = cur

Audit ==
  /\ pc = "audit"
  /\ LET sound == Explained /\ (mode = "recovery" => StepsProven) IN
     \/ sound /\ pc' = "close"
     \/ ~sound /\ Refuse
  /\ UNCHANGED <<plan, repo, records, mode, cur, acc, write, counters>>

CloseAs(result, tree) ==
  closes' = [closes EXCEPT ![cur] = [result |-> result, tree |-> tree,
                                     head_tree |-> HeadTree, explained |-> Explained]]

\* The close record of an accepted iteration.
Close ==
  /\ pc = "close"
  /\ CloseAs("passed", acc.tree)
  /\ pc' = "closed"
  /\ UNCHANGED <<plan, repo, history, contexts, receipts, ledger, mode, cur, acc, write, counters>>

\* The close record of an iteration that stops the run.
CloseRefused ==
  /\ pc \in {"closing", "red"}
  /\ CloseAs(IF pc = "red" THEN "red" ELSE "failed", acc.measured)
  /\ pc' = "closed"
  /\ UNCHANGED <<plan, repo, history, contexts, receipts, ledger, mode, cur, acc, write, counters>>

ProjectClose ==
  /\ pc = "closed"
  /\ ledger' = [ledger EXCEPT ![cur] = Projected(cur)]
  /\ pc' = IF closes[cur].result # "passed" THEN "down"
           ELSE IF mode = "recovery" THEN "complete" ELSE "ready"
  /\ UNCHANGED <<plan, repo, history, contexts, receipts, closes, mode, cur, acc, write, counters>>

\* _complete_original_master, after a recovered close.
CompleteMaster ==
  /\ pc = "complete"
  /\ LET due == Runnable(files[Master]) /\ files[Sub].status = "shipped" /\ Marked /\ StepsProven
         from == [status |-> files[Master].status] IN
     \/ ~due /\ pc' = "ready" /\ UNCHANGED <<log, write>>
     \/ /\ due /\ Explicable(log, Sub, files[Sub]) /\ ~Held(files[Sub]) /\ Allowed(Master, from)
        /\ Begin(Master, Sub, from, [status |-> "shipped"], "ready")
     \/ /\ due /\ ~(Explicable(log, Sub, files[Sub]) /\ ~Held(files[Sub]) /\ Allowed(Master, from))
        /\ Refuse /\ UNCHANGED <<log, write>>
  /\ UNCHANGED <<files, repo, records, mode, cur, acc, counters>>

-----------------------------------------------------------------------------
(* What interferes.                                                        *)

\* Where the driver looks at its deadline: git and gate operations, and locks.
LiveTimed == {"dispatched", "validate", "gate", "revalidate", "stage", "commit",
              "committed", "regate", "prepare", "advance", "findings"}

RecoveryTimed == {"recover", "reintend", "commit", "committed", "regate", "prepare",
                  "transaction", "advance", "explain", "project", "status", "settle",
                  "audit", "complete"}

\* The deadline is reached: the iteration's, or the recovery's own.
Expire ==
  /\ \/ mode = "live" /\ pc \in LiveTimed /\ pc' = "closing" /\ UNCHANGED crashes
     \/ pc \in RecoveryTimed /\ Fail
  /\ UNCHANGED <<plan, repo, records, mode, cur, acc, write, retries, iters, human>>

\* The runner is killed, and the processes it owns with it.
Crash ==
  /\ pc \notin {"down", "refused", "failed"} /\ Within(iters, retries, crashes + 1, human)
  /\ crashes' = crashes + 1
  /\ pc' = "down" /\ acc' = NoAcc /\ write' = NoWrite
  /\ UNCHANGED <<plan, repo, records, mode, cur, retries, iters, human>>

\* Either way the recovery ends the run; the next start tries again.
GiveUp ==
  /\ pc \in {"refused", "failed"}
  /\ pc' = "down" /\ acc' = NoAcc
  /\ UNCHANGED <<plan, repo, records, mode, cur, write, counters>>

Interferes == Within(iters, retries, crashes, human + 1) /\ human' = human + 1

\* A whole transition by another client, while the driver is in none.
ChangePlan(path, to, contract) ==
  /\ pc \notin {"intended", "replaced"}
  /\ Explicable(log, path, files[path])
  /\ LET rows == Recovered(log, path, files[path])
         new == [Project(files[path], to) EXCEPT !.contract = contract]
         old == [k \in DOMAIN to |-> files[path][k]]
         row == Intent(rows, "human", path, old, to, new)
     IN  /\ log' = rows \o <<row, Completion(row, "applied")>>
         /\ files' = [files EXCEPT ![path] = new]
  /\ UNCHANGED <<repo, records, pc, mode, cur, acc, write, retries, iters, crashes>>

\* park_master, and --unpark --release-hold.
ParkMaster ==
  /\ files[Master].status \in {"queued", "active"}
  /\ Interferes
  /\ ChangePlan(Master, [status |-> "blocked", hold |-> "human"], files[Master].contract)

UnparkMaster ==
  /\ files[Master].status = "blocked"
  /\ Interferes
  /\ ChangePlan(Master, [status |-> "queued", hold |-> "none"], files[Master].contract)

\* suite_ledger.return_reds: a new check in the last step, and back to it.
\* Verification attributes reds to sub-plans that have reached that step.
ReturnReds ==
  /\ ~Held(files[Sub]) /\ files[Sub].current_step >= Steps - 1
  /\ Interferes
  /\ ChangePlan(Sub, [status |-> "in-progress", current_step |-> Steps - 1],
                files[Sub].contract + 1)

\* Somebody edits the execution tree, or commits what is in it.
EditTree ==
  /\ Interferes
  /\ \E t \in Trees \ {work} : work' = t
  /\ UNCHANGED <<plan, commits, index, records, pc, mode, cur, acc, write, retries, iters, crashes>>

CommitTree ==
  /\ Interferes
  /\ commits' = Append(commits, [tree |-> work, kind |-> "other", step |-> 0, iter |-> 0])
  /\ index' = work
  /\ UNCHANGED <<plan, work, records, pc, mode, cur, acc, write, retries, iters, crashes>>

Interference ==
  ParkMaster \/ UnparkMaster \/ ReturnReds \/ EditTree \/ CommitTree

AcceptanceStep ==
  \/ Validate \/ Gate \/ Revalidate \/ SaveIntent \/ Stage \/ Commit \/ Committed
  \/ Regate \/ Prepare \/ Advance \/ Replace \/ Finish \/ Advanced
  \/ ImportFindings

RecoveryStep == Scan \/ Recover \/ Reintend \/ ResumeTransaction \/ Explain \/ Settle \/ CompleteMaster

CloseStep ==
  \/ ProjectResult \/ ShipMarker \/ MarkerFails \/ ShipStatus \/ RecordProof \/ Audit
  \/ Close \/ CloseRefused \/ ProjectClose

Next ==
  \/ Start \/ Dispatch \/ Stop \/ WorkerTurn
  \/ AcceptanceStep \/ RecoveryStep \/ CloseStep
  \/ Expire \/ Crash \/ GiveUp \/ Interference

Spec == Init /\ [][Next]_vars

\* A runner that is alive takes its next step; a scheduler starts one again.
Fairness ==
  /\ WF_vars(Start) /\ WF_vars(WorkerTurn) /\ WF_vars(AcceptanceStep)
  /\ WF_vars(RecoveryStep) /\ WF_vars(CloseStep) /\ WF_vars(GiveUp)

FairSpec == Spec /\ Fairness

-----------------------------------------------------------------------------
(* What an acceptance promises.                                            *)

Verdicts == {"none", "provisional", "proof", "denied"}

Commits == [tree : Trees, kind : {"base", "step", "ship", "other"},
            step : 0 .. Steps, iter : 0 .. MaxIters]

\* Every recorded value is one its reader knows.
TypeOK ==
  /\ \A x \in {Sub, Master} : files[x].current_step \in 0 .. Steps /\ files[x].status \in Statuses
  /\ commits \in Seq(Commits) /\ HEAD > 0 /\ work \in Trees /\ index \in Trees
  /\ \A a \in history : a.tree \in Trees /\ a.outcome \in GateOutcomes
  /\ \A i \in Received : receipts[i].phase \in {"commit-intent", "prepared", "advanced"}
  /\ \A i \in Iterations : closes[i].result \in {"none", "passed", "failed", "red"}
  /\ ledger \in [Iterations -> Verdicts]
  /\ cur \in 0 .. MaxIters /\ mode \in {"live", "recovery"}

\* The transitions that moved the pointer for iteration i, by journal row.
Advances(i) ==
  {n \in DOMAIN log :
     /\ IsIntent(log[n]) /\ n > contexts[i].cursor
     /\ log[n].path = Sub /\ log[n].actor = "driver"
     /\ log[n].to = [current_step |-> contexts[i].step + 1, status |-> "in-progress"]
     /\ \A j \in Iterations : contexts[j] # NoContext /\ j > i => n <= contexts[j].cursor
     /\ \/ \E m \in DOMAIN log : Completes(log, n, m) /\ Wrote(log[m])
        \/ n \in Pending(log, Sub) /\ files[Sub] = log[n].after}

OwnCommits(i) == {n \in 1 .. HEAD : commits[n].kind = "step" /\ commits[n].iter = i}

Dispatched == {i \in Iterations : contexts[i] # NoContext}

\* An iteration commits at most once, however often it is interrupted and
\* recovered: a recovery commits only at the base (driver_step.py:470-484).
CommitsOnce == \A i \in Dispatched : Cardinality(OwnCommits(i)) <= 1

\* It moves the pointer at most once: a recovery that finds it moved skips the
\* transition.
AdvancesOnce == \A i \in Dispatched : Cardinality(Advances(i)) <= 1

\* An iteration changes the branch and the pointer at most once each.
ChangesOnce == CommitsOnce /\ AdvancesOnce

\* A step's proof row is earned: the pointer moved, and a commit holds exactly
\* a tree whose every attempt under the frozen inputs passed.
ProofIsEarned ==
  \A i \in Dispatched : ledger[i] = "proof" =>
    /\ Advances(i) # {}
    /\ LET r == receipts[i] IN
       /\ r.phase = "advanced"
       /\ r.head <= HEAD /\ commits[r.head].tree = r.tree
       /\ Outcomes(contexts[i], r.tree) = {"pass"}
       /\ r.made <=> OwnCommits(i) # {}

\* A worker is dispatched only when no acceptance is half done: an earlier
\* iteration that left a receipt closed as passed, one that committed moved the
\* pointer too, and one that moved the pointer has its proof row, unless the
\* branch had left the accepted tree when the iteration was closed.
NothingHalfDone ==
  pc = "dispatched" =>
    \A i \in Dispatched \ {cur} :
      /\ receipts[i] # NoReceipt => closes[i].result = "passed"
      /\ OwnCommits(i) # {} => Advances(i) # {}
      /\ Advances(i) # {} =>
           \/ ledger[i] = "proof"
           \/ ledger[i] = "denied" /\ closes[i].tree # closes[i].head_tree

\* At most one transaction is ever open, so a start never refuses for the
\* ambiguity that recover_pending guards against.
OneUnfinished == Cardinality(Unfinished) <= 1

\* The pointer moves only for a tree whose gate was green ("Gates run against
\* a captured working-tree object", "Changed commit-hook output is gated again"),
\* and unless somebody interfered that is the tree of the commit: the gate of a
\* hook's output measures the working tree it finds.
AdvanceIsGated ==
  [][files'[Sub].current_step > files[Sub].current_step /\ pc = "intended"
       => /\ Outcomes(Context, acc.measured) = {"pass"}
          /\ human = 0 => acc.tree = acc.measured]_vars

\* Crashes alone never cost an accepted step, nor do recoveries that ran out of
\* time or whose marker commit failed: once the second receipt is written, what a
\* later recovery finds lets it go on, unless somebody interfered, a crash hit a
\* plan transition between its replacement and its completion, or a hook of the
\* marker commit changed the accepted tree.  ("failed" is not a refusal.)
RecoveryFinishes ==
  pc = "refused" /\ cur # 0 /\ receipts[cur].phase \in {"prepared", "advanced"}
    => \/ human > 0 \/ Unclosed(log, Context) # {}
       \/ \E n \in 1 .. HEAD : commits[n].kind = "ship" /\ commits[n].tree # receipts[cur].tree

\* Every receipt is resolved: its iteration is closed, or the start that finds
\* it refuses and says so; a recovery that merely failed resolves nothing.
Resolved ==
  \A i \in Iterations : receipts[i] # NoReceipt ~> closes[i] # NoClose \/ pc = "refused"
=============================================================================

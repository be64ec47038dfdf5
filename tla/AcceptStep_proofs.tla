------------------------- MODULE AcceptStep_proofs -------------------------
(***************************************************************************)
(* Proofs about AcceptStep for every set of trees, number of steps and     *)
(* iterations, and every budget of retries, crashes and interferences.     *)
(*                                                                         *)
(* What a receipt says of a gate must survive the crash that follows it:   *)
(* a recovery goes on from the receipt and asks for no new gate.  But the  *)
(* gate of what a hook committed adds to the same history, and if somebody *)
(* put the first tree back in place it adds to the attempts on that tree.  *)
(* Then the branch is past the commit the first receipt intended, or ends  *)
(* in another tree, and no recovery comes to the pointer from there.       *)
(***************************************************************************)
EXTENDS AcceptStep, FiniteSetTheorems, SequenceTheorems, TLAPS

Pcs == {"down", "startup", "refused", "failed", "ready", "recover", "dispatched", "validate", "gate",
        "red", "closing", "revalidate", "intend", "stage", "commit", "committed", "regate",
        "prepare", "reintend", "transaction", "advance", "intended", "replaced", "advanced",
        "findings", "project", "explain", "ledger", "ship", "status", "settle", "audit",
        "close", "closed", "complete"}

\* Between these the runner works on the iteration cur.
Between == {"down", "startup", "refused", "failed", "ready"}

\* A live runner that has written no receipt yet.
Early == {"dispatched", "validate", "gate", "red", "revalidate", "intend"}

\* The acceptance has not come to its commit, or not past the gates.
Uncommitted == Early \cup {"stage", "commit"}

Unprepared == {"stage", "commit", "reintend", "committed", "regate", "prepare"}

ContentSet == [status : Statuses, current_step : 0 .. Steps, hold : Holds,
               auto_block_fails : Nat, contract : Nat, notes : Nat]

AccSet == [tree : Trees, measured : Trees, head : Nat, made : BOOLEAN, status : Statuses]

ReceiptSet == [phase : {"commit-intent", "prepared", "advanced"}, tree : Trees,
               measured : Trees, head : Nat, made : BOOLEAN]

IsRows(s) == s \in Seq({s[n] : n \in DOMAIN s})

Thens == {"advanced", "explain", "project", "audit", "settle", "ready"}

Writing == pc \in {"intended", "replaced"}

Advancing == Writing /\ write.then \in {"advanced", "explain"}

Typed ==
  /\ DOMAIN files = {Sub, Master} /\ \A x \in {Sub, Master} : files[x] \in ContentSet
  /\ IsRows(log)
  /\ commits \in Seq(Commits) /\ Len(commits) > 0 /\ work \in Trees /\ index \in Trees
  /\ \A a \in history : a.tree \in Trees /\ a.outcome \in GateOutcomes
  /\ DOMAIN contexts = Iterations
  /\ DOMAIN receipts = Iterations
  /\ \A i \in Iterations : receipts[i] = NoReceipt \/ receipts[i] \in ReceiptSet
  /\ DOMAIN closes = Iterations
  /\ \A i \in Iterations : closes[i].result \in {"none", "passed", "failed", "red"}
  /\ ledger \in [Iterations -> Verdicts]
  /\ pc \in Pcs /\ mode \in {"live", "recovery"} /\ cur \in 0 .. MaxIters
  /\ acc \in AccSet
  /\ iters \in 0 .. MaxIters /\ human \in Nat

\* The iterations dispatched so far are numbered, and have their context.
Numbered ==
  /\ \A i \in Iterations : i > iters => receipts[i] = NoReceipt /\ contexts[i] = NoContext
  /\ \A i \in 1 .. iters : /\ contexts[i] # NoContext
                           /\ contexts[i].base \in 1 .. HEAD
                           /\ contexts[i].step \in 0 .. Steps - 1
  /\ pc \notin Between => cur \in 1 .. iters

\* At most one iteration is open, and only the one at work.
OneOpen ==
  /\ \E i \in Nat : Unfinished \subseteq {i}
  /\ pc \notin Between => Unfinished \subseteq {cur}
  /\ pc \in {"ready", "complete"} => Unfinished = {}
  /\ Writing /\ write.then = "ready" => Unfinished = {}
  /\ pc = "closed" => closes[cur] # NoClose
  /\ pc \in {"recover", "reintend"} => cur \in Unfinished

\* Which receipt the iteration at work has.
ReceiptFits ==
  /\ pc \in Early => receipts[cur] = NoReceipt /\ mode = "live"
  /\ pc \in Unprepared =>
       receipts[cur] = NoReceipt \/ receipts[cur].phase = "commit-intent"
  /\ pc \in {"stage", "commit", "reintend", "committed"} =>
       receipts[cur] = NoReceipt \/ receipts[cur].tree = acc.tree
  /\ pc \in {"stage", "commit", "reintend"} => receipts[cur] # NoReceipt
  /\ pc \in {"startup", "recover", "reintend", "complete"} => mode = "recovery"

\* Outcomes(c, tree) = {"pass"}, of any history.
GatedIn(hist, c, tree) ==
  {a.outcome : a \in {b \in hist : b.inputs = Inputs(c) /\ b.tree = tree}} = {"pass"}

Gated(i, tree) == GatedIn(history, contexts[i], tree)

\* Somebody else committed on top of what was accepted.
Overtaken(branch, head) == \E n \in (head + 1) .. Len(branch) : branch[n].kind # "ship"

\* The intended commit was made, and the branch does not end in the intended tree.
Departed(branch, base, tree) ==
  /\ Len(branch) > base
  /\ Len(branch) = base + 1 => branch[base + 1].tree # tree

\* The recovery took up a commit of another tree than the receipt's.
Adopted(branch, head, tree) ==
  /\ head \in 1 .. Len(branch) /\ branch[head].tree # tree
  /\ Len(branch) = head \/ Overtaken(branch, head)

\* A receipt of an open iteration holds a gated tree, unless nothing comes of it.
ReceiptsGated ==
  \A i \in Unfinished :
    \/ Gated(i, receipts[i].measured)
    \/ IF receipts[i].phase = "commit-intent"
       THEN Departed(commits, contexts[i].base, receipts[i].tree)
       ELSE Overtaken(commits, receipts[i].head)

\* So does the acceptance at work.
AccGated ==
  /\ pc \in {"revalidate", "intend", "stage", "commit", "advance"} => Gated(cur, acc.measured)
  /\ pc \in {"advanced", "explain"} \/ Advancing => Gated(cur, acc.measured)
  /\ pc = "committed" =>
       Gated(cur, acc.measured) \/ (mode = "recovery" /\ Adopted(commits, acc.head, acc.tree))
  /\ pc = "prepare" =>
       Gated(cur, acc.measured) \/ (mode = "recovery" /\ Overtaken(commits, acc.head))
  /\ pc = "transaction" => Gated(cur, acc.measured) \/ Overtaken(commits, acc.head)
  /\ pc = "regate" /\ receipts[cur] # NoReceipt =>
       Departed(commits, Context.base, receipts[cur].tree)
  /\ pc = "committed" /\ receipts[cur] # NoReceipt => HEAD > Context.base
  /\ pc = "reintend" => acc.measured = receipts[cur].measured

\* What is measured is what is accepted, unless somebody interfered.
AsMeasured ==
  human = 0 =>
    /\ \/ pc \in {"intend", "stage", "commit", "reintend", "committed",
                  "prepare", "transaction", "advance"}
       \/ Advancing
       => acc.tree = acc.measured
    /\ pc = "regate" => work = acc.tree

\* The transition at work writes what its intent says, and only the one that
\* advances moves the pointer.
WriteFits ==
  /\ Writing =>
       /\ write.path \in {Sub, Master} /\ write.row \in DOMAIN log /\ write.then \in Thens
  /\ pc = "intended" =>
       /\ log[write.row].after \in ContentSet
       /\ ~Advancing => log[write.row].after.current_step = files[write.path].current_step

\* The commits of an iteration come after its base, and before its commit step
\* there is none.
CommitsFollow ==
  /\ \A n \in 1 .. HEAD : commits[n].kind = "step" =>
       /\ commits[n].iter \in 1 .. iters
       /\ n > contexts[commits[n].iter].base
  /\ \A n, m \in 1 .. HEAD :
       commits[n].kind = "step" /\ commits[m].kind = "step" /\ commits[n].iter = commits[m].iter
         => n = m
  /\ pc \in Uncommitted => OwnCommits(cur) = {}

AcceptInv ==
  /\ Typed /\ Numbered /\ OneOpen /\ ReceiptFits /\ ReceiptsGated /\ AccGated
  /\ AsMeasured /\ WriteFits /\ CommitsFollow

-----------------------------------------------------------------------------
(* What a step changes, as far as the invariant can tell.                   *)

Quiet == UNCHANGED <<files, log, commits, history, contexts, receipts, closes, iters, human>>

\* Past the pointer and its projection.
Later == {"ledger", "ship", "status", "settle", "audit", "close"}

Ends == Quiet /\ pc' \in Between \ {"ready"} /\ (pc' = "startup" => mode' = "recovery")

Fails ==
  /\ Quiet /\ UNCHANGED <<mode, cur>> /\ pc' = "closing"
  /\ pc \notin Between \cup {"intended", "replaced", "closed", "complete"}

Proceeds ==
  /\ Quiet /\ UNCHANGED <<mode, cur, acc>>
  /\ \/ pc = "findings" /\ pc' = "project"
     \/ pc = "project" /\ pc' \in Later /\ Projectable
     \/ pc \in Later /\ pc' \in Later

Rests == Ends \/ Fails \/ Proceeds

Readies ==
  /\ Quiet /\ cur' = cur /\ Unfinished = {}
  /\ \/ pc' = "ready"
     \/ pc' = "complete" /\ pc = "closed" /\ mode' = "recovery"

Finds == Quiet /\ UNCHANGED mode /\ pc = "startup" /\ pc' = "recover" /\ Unfinished = {cur'}

Dispatches ==
  /\ UNCHANGED <<files, commits, history, receipts, closes, human>>
  /\ pc = "ready" /\ pc' = "dispatched" /\ mode' = "live"
  /\ iters' = iters + 1 /\ cur' = iters + 1 /\ cur' \in Iterations
  /\ contexts'[cur'] # NoContext /\ contexts'[cur'].base = HEAD
  /\ contexts'[cur'].step \in 0 .. Steps - 1
  /\ \A i \in Iterations : i # cur' => contexts'[i] = contexts[i]

Turns ==
  /\ Quiet /\ UNCHANGED <<mode, cur>>
  /\ pc \in {"dispatched", "validate"} /\ pc' \in {"validate", "gate"}
  /\ pc' = "gate" => acc'.made = FALSE

MeasuresOnly ==
  UNCHANGED <<files, log, commits, contexts, receipts, closes, iters, human, mode, cur>>

Gates ==
  /\ MeasuresOnly /\ pc = "gate"
  /\ pc' \in {"revalidate", "red", "closing", "dispatched"}
  /\ pc' = "revalidate" => GatedIn(history', Context, acc'.measured)
  /\ acc'.made = acc.made

Revalidates ==
  /\ Quiet /\ UNCHANGED <<mode, cur>> /\ pc = "revalidate" /\ pc' \in {"committed", "intend"}
  /\ acc'.tree = acc.measured /\ acc'.measured = acc.measured /\ acc'.made = acc.made

\* The receipt of the iteration at work is written, and no other.
Receives(phase, head) ==
  /\ UNCHANGED <<files, log, commits, history, contexts, closes, iters, human, mode, cur>>
  /\ \A i \in Iterations : i # cur => receipts'[i] = receipts[i]
  /\ receipts'[cur] # NoReceipt /\ receipts'[cur].phase = phase
  /\ receipts'[cur].tree = acc.tree /\ receipts'[cur].measured = acc.measured
  /\ receipts'[cur].head = head /\ receipts'[cur].made = acc.made

Promises ==
  Receives("commit-intent", Context.base) /\ pc = "intend" /\ pc' = "stage" /\ acc' = acc

Stages ==
  /\ Quiet /\ UNCHANGED <<mode, cur>> /\ acc' = acc /\ pc' = "commit"
  /\ pc = "stage" \/ (pc = "reintend" /\ HEAD = Context.base)

Appends(kinds) ==
  /\ UNCHANGED <<files, log, history, contexts, receipts, closes, iters, mode, cur>>
  /\ Len(commits') = HEAD + 1
  /\ \A n \in 1 .. HEAD : commits'[n] = commits[n]
  /\ commits'[HEAD + 1].kind \in kinds

MakesCommit ==
  /\ Appends({"step"}) /\ commits'[HEAD + 1].iter = cur /\ UNCHANGED human
  /\ pc = "commit" /\ pc' = "committed"
  /\ acc'.tree = acc.tree /\ acc'.measured = acc.measured
  /\ acc'.made = TRUE /\ acc'.head = HEAD + 1

Adopts ==
  /\ Quiet /\ UNCHANGED <<mode, cur>> /\ pc = "reintend" /\ pc' = "committed"
  /\ HEAD = Context.base + 1 /\ commits[HEAD].kind = "step"
  /\ acc'.tree = acc.tree /\ acc'.measured = acc.measured
  /\ acc'.made = TRUE /\ acc'.head = HEAD

Checks ==
  /\ Quiet /\ UNCHANGED <<mode, cur, work>> /\ pc = "committed" /\ work = HeadTree
  /\ pc' = IF HeadTree = acc.tree THEN "prepare" ELSE "regate"
  /\ acc'.tree = HeadTree /\ acc'.measured = acc.measured
  /\ acc'.made = acc.made /\ acc'.head = acc.head

Regates ==
  /\ MeasuresOnly /\ pc = "regate" /\ pc' = "prepare"
  /\ GatedIn(history', Context, acc'.measured)
  /\ acc'.tree = acc.tree /\ acc'.measured = work
  /\ acc'.made = acc.made /\ acc'.head = acc.head

RegatesRed == MeasuresOnly /\ pc = "regate" /\ pc' \in {"closing", "refused"}

Prepares ==
  /\ Receives("prepared", acc'.head) /\ pc = "prepare" /\ Valid
  /\ pc' = IF mode = "live" THEN "advance" ELSE "transaction"
  /\ acc'.tree = acc.tree /\ acc'.measured = acc.measured /\ acc'.made = acc.made
  /\ acc'.head = IF mode = "live" THEN HEAD ELSE acc.head

PlanOnly == UNCHANGED <<commits, history, contexts, receipts, closes, iters, mode, cur, acc>>

Begins ==
  /\ PlanOnly /\ UNCHANGED <<files, human>> /\ pc \notin Between /\ pc' = "intended"
  /\ write'.path \in {Sub, Master} /\ write'.row \in DOMAIN log' /\ write'.then \in Thens
  /\ log'[write'.row].after \in ContentSet
  /\ \/ pc = "advance" /\ write'.then \in {"advanced", "explain"}
     \/ /\ log'[write'.row].after.current_step = files[write'.path].current_step
        /\ \/ pc = "findings" /\ write'.then = "project"
           \/ pc = "status" /\ write'.then \in {"audit", "settle"}
           \/ pc = "complete" /\ write'.then = "ready"

Replaces ==
  /\ PlanOnly /\ UNCHANGED <<log, write, human>> /\ pc = "intended" /\ pc' = "replaced"
  /\ files' = [files EXCEPT ![write.path] = log[write.row].after]

Finishes == PlanOnly /\ UNCHANGED <<files, human>> /\ pc = "replaced" /\ pc' = write.then

Records ==
  /\ Receives("advanced", acc.head) /\ acc' = acc
  /\ pc \in {"advanced", "explain"} /\ pc' \in {"findings", "project"}

Reloads ==
  /\ Quiet /\ UNCHANGED <<mode, cur>> /\ pc = "recover"
  /\ pc' = IF receipts[cur].phase = "commit-intent" THEN "reintend" ELSE "transaction"
  /\ receipts[cur].tree = receipts[cur].measured
  /\ acc'.tree = receipts[cur].tree /\ acc'.measured = receipts[cur].measured
  /\ acc'.head = receipts[cur].head /\ acc'.made = receipts[cur].made

Resumes ==
  /\ Quiet /\ UNCHANGED <<mode, cur>>
  /\ pc = "transaction"
  /\ (pc' = "advance" /\ Valid) \/ (pc' = "explain" /\ AlreadyAdvanced)
  /\ ~Overtaken(commits, acc.head)
  /\ acc'.tree = acc.tree /\ acc'.measured = acc.measured
  /\ acc'.head = acc.head /\ acc'.made = acc.made

Marks == Appends({"ship"}) /\ UNCHANGED <<acc, human>> /\ pc = "ship" /\ pc' = "status"

Overtakes == Appends({"other"}) /\ UNCHANGED <<pc, acc, write, work>> /\ human' = human + 1

Concludes ==
  /\ UNCHANGED <<files, log, commits, history, contexts, receipts, iters, human, mode, cur>>
  /\ pc \notin Between /\ pc' = "closed"
  /\ \A i \in Iterations : i # cur => closes'[i] = closes[i]
  /\ closes'[cur] # NoClose /\ closes'[cur].result # "none"
  /\ closes'[cur].result = "passed" => pc = "close"

Replans ==
  PlanOnly /\ UNCHANGED <<pc, write, work>> /\ ~Writing /\ human' = human + 1

Idles ==
  /\ PlanOnly /\ UNCHANGED <<files, log, pc, write>>
  /\ UNCHANGED <<work, human>> \/ human' = human + 1

Moves ==
  \/ Rests \/ Readies \/ Finds \/ Dispatches \/ Turns \/ Gates \/ Revalidates \/ Promises
  \/ Stages \/ MakesCommit \/ Adopts \/ Checks \/ Regates \/ RegatesRed \/ Prepares \/ Begins
  \/ Replaces \/ Finishes \/ Records \/ Reloads \/ Resumes \/ Marks \/ Overtakes \/ Concludes
  \/ Replans \/ Idles

CurFits ==
  /\ pc \notin Between => cur \in 1 .. iters /\ cur \in Iterations
  /\ iters \in Nat /\ human \in Nat /\ HEAD \in Nat

LEMMA CurIsFit == AcceptInv => CurFits
<1> SUFFICES ASSUME AcceptInv PROVE CurFits
  OBVIOUS
<1>1. MaxIters \in Nat /\ iters \in 0 .. MaxIters /\ human \in Nat /\ commits \in Seq(Commits)
  BY AcceptBoundsAssumption DEF AcceptInv, Typed
<1>2. HEAD \in Nat
  BY <1>1 DEF HEAD
<1> QED BY <1>1, <1>2 DEF AcceptInv, Numbered, CurFits, Iterations

\* A branch that grows by one commit.
Grows(new, old) ==
  /\ Len(old) \in Nat /\ Len(new) = Len(old) + 1
  /\ \A n \in 1 .. Len(old) : new[n] = old[n]

LEMMA OvertakenGrows ==
  ASSUME NEW old, NEW new, Grows(new, old), NEW head \in Nat, Overtaken(old, head)
  PROVE  Overtaken(new, head)
  BY DEF Grows, Overtaken

LEMMA DepartedGrows ==
  ASSUME NEW old, NEW new, Grows(new, old), NEW base \in Nat, NEW tree,
         Departed(old, base, tree)
  PROVE  Departed(new, base, tree)
  BY DEF Grows, Departed

LEMMA AdoptedGrows ==
  ASSUME NEW old, NEW new, Grows(new, old), NEW head \in Nat, NEW tree,
         Adopted(old, head, tree), new[Len(new)].kind # "ship"
  PROVE  Adopted(new, head, tree)
<1>1. Overtaken(new, head)
  BY DEF Grows, Overtaken, Adopted
<1> QED BY <1>1 DEF Grows, Adopted

LEMMA NumberedStep ==
  ASSUME AcceptInv, Typed', Moves
  PROVE  Numbered'
<1>0. Typed /\ Typed' /\ CurFits
  BY CurIsFit DEF AcceptInv
<1> USE DEF CurFits, Iterations, HEAD
<1> USE DEF AcceptInv, Numbered, Between
<1>1. CASE Rests
  BY <1>1, <1>0 DEF Rests, Ends, Fails, Proceeds, Later, Quiet
<1>2. CASE Readies
  BY <1>2, <1>0 DEF Readies, Quiet
<1>3. CASE Finds
  BY <1>3, <1>0 DEF Finds, Quiet, Unfinished, Received
<1>4. CASE Dispatches
  <2>1. iters + 1 \in Nat /\ iters + 1 <= MaxIters /\ iters < cur'
    BY <1>4, <1>0 DEF Dispatches, CurFits, Iterations
  <2>2. \A i \in Iterations : i > iters' => receipts'[i] = NoReceipt /\ contexts'[i] = NoContext
    BY <1>4, <1>0, <2>1 DEF Dispatches, CurFits, Iterations
  <2>3. ASSUME NEW i \in 1 .. iters'
        PROVE  /\ contexts'[i] # NoContext /\ contexts'[i].base \in 1 .. HEAD
               /\ contexts'[i].step \in 0 .. Steps - 1
    <3>1. CASE i = cur'
      BY <1>4, <1>0, <3>1 DEF Dispatches, Typed, HEAD, CurFits
    <3>2. CASE i # cur'
      <4>1. i \in 1 .. iters /\ i \in Iterations
        BY <1>4, <1>0, <2>1, <3>2, AcceptBoundsAssumption DEF Dispatches, CurFits, Iterations
      <4> QED BY <1>4, <3>2, <4>1 DEF Dispatches
    <3> QED BY <3>1, <3>2
  <2>4. HEAD' = HEAD /\ pc' \notin Between /\ cur' \in 1 .. iters'
    BY <1>4, <1>0 DEF Dispatches, HEAD, CurFits
  <2> QED BY <2>2, <2>3, <2>4
<1>5. CASE Turns
  BY <1>5, <1>0 DEF Turns, Quiet
<1>6. CASE Gates
  BY <1>6, <1>0 DEF Gates, MeasuresOnly
<1>7. CASE Revalidates
  BY <1>7, <1>0 DEF Revalidates, Quiet
<1>8. CASE Promises
  BY <1>8, <1>0 DEF Promises, Receives
<1>9. CASE Stages
  BY <1>9, <1>0 DEF Stages, Quiet
<1>10. CASE MakesCommit
  BY <1>10, <1>0 DEF MakesCommit, Appends
<1>11. CASE Adopts
  BY <1>11, <1>0 DEF Adopts, Quiet
<1>12. CASE Checks
  BY <1>12, <1>0 DEF Checks, Quiet
<1>13. CASE Regates
  BY <1>13, <1>0 DEF Regates, MeasuresOnly
<1>14. CASE RegatesRed
  BY <1>14, <1>0 DEF RegatesRed, MeasuresOnly
<1>15. CASE Prepares
  BY <1>15, <1>0 DEF Prepares, Receives
<1>16. CASE Begins
  BY <1>16, <1>0 DEF Begins, PlanOnly
<1>17. CASE Replaces
  BY <1>17, <1>0 DEF Replaces, PlanOnly
<1>18. CASE Finishes
  BY <1>18, <1>0 DEF Finishes, PlanOnly, WriteFits, Writing, Thens
<1>19. CASE Records
  BY <1>19, <1>0 DEF Records, Receives
<1>20. CASE Reloads
  BY <1>20, <1>0 DEF Reloads, Quiet
<1>21. CASE Resumes
  BY <1>21, <1>0 DEF Resumes, Quiet
<1>22. CASE Marks
  BY <1>22, <1>0 DEF Marks, Appends
<1>23. CASE Overtakes
  BY <1>23, <1>0 DEF Overtakes, Appends
<1>24. CASE Concludes
  BY <1>24, <1>0 DEF Concludes
<1>25. CASE Replans
  BY <1>25, <1>0 DEF Replans, PlanOnly
<1>26. CASE Idles
  BY <1>26, <1>0 DEF Idles, PlanOnly
<1> QED BY <1>1, <1>2, <1>3, <1>4, <1>5, <1>6, <1>7, <1>8, <1>9, <1>10, <1>11, <1>12,
           <1>13, <1>14, <1>15, <1>16, <1>17, <1>18, <1>19, <1>20, <1>21, <1>22, <1>23,
           <1>24, <1>25, <1>26 DEF Moves

LEMMA OneOpenStep ==
  ASSUME AcceptInv, Typed', Moves
  PROVE  OneOpen'
<1>0. Typed /\ Typed' /\ CurFits
  BY CurIsFit DEF AcceptInv
<1> USE DEF AcceptInv, OneOpen, Unfinished, Received, Writing, Between, CurFits
<1>1. CASE Rests
  BY <1>1, <1>0 DEF Rests, Ends, Fails, Proceeds, Later, Quiet
<1>2. CASE Readies
  BY <1>2, <1>0 DEF Readies, Quiet
<1>3. CASE Finds
  BY <1>3, <1>0 DEF Finds, Quiet
<1>4. CASE Dispatches
  BY <1>4, <1>0 DEF Dispatches
<1>5. CASE Turns
  BY <1>5, <1>0 DEF Turns, Quiet
<1>6. CASE Gates
  BY <1>6, <1>0 DEF Gates, MeasuresOnly
<1>7. CASE Revalidates
  BY <1>7, <1>0 DEF Revalidates, Quiet
<1>8. CASE Promises
  BY <1>8, <1>0 DEF Promises, Receives
<1>9. CASE Stages
  BY <1>9, <1>0 DEF Stages, Quiet
<1>10. CASE MakesCommit
  BY <1>10, <1>0 DEF MakesCommit, Appends
<1>11. CASE Adopts
  BY <1>11, <1>0 DEF Adopts, Quiet
<1>12. CASE Checks
  BY <1>12, <1>0 DEF Checks, Quiet
<1>13. CASE Regates
  BY <1>13, <1>0 DEF Regates, MeasuresOnly
<1>14. CASE RegatesRed
  BY <1>14, <1>0 DEF RegatesRed, MeasuresOnly
<1>15. CASE Prepares
  BY <1>15, <1>0 DEF Prepares, Receives
<1>16. CASE Begins
  BY <1>16, <1>0 DEF Begins, PlanOnly
<1>17. CASE Replaces
  BY <1>17, <1>0 DEF Replaces, PlanOnly
<1>18. CASE Finishes
  BY <1>18, <1>0 DEF Finishes, PlanOnly, WriteFits, Thens
<1>19. CASE Records
  BY <1>19, <1>0 DEF Records, Receives
<1>20. CASE Reloads
  BY <1>20, <1>0 DEF Reloads, Quiet
<1>21. CASE Resumes
  BY <1>21, <1>0 DEF Resumes, Quiet
<1>22. CASE Marks
  BY <1>22, <1>0 DEF Marks, Appends
<1>23. CASE Overtakes
  BY <1>23, <1>0 DEF Overtakes, Appends
<1>24. CASE Concludes
  BY <1>24, <1>0 DEF Concludes
<1>25. CASE Replans
  BY <1>25, <1>0 DEF Replans, PlanOnly
<1>26. CASE Idles
  BY <1>26, <1>0 DEF Idles, PlanOnly
<1> QED BY <1>1, <1>2, <1>3, <1>4, <1>5, <1>6, <1>7, <1>8, <1>9, <1>10, <1>11, <1>12,
           <1>13, <1>14, <1>15, <1>16, <1>17, <1>18, <1>19, <1>20, <1>21, <1>22, <1>23,
           <1>24, <1>25, <1>26 DEF Moves

LEMMA ReceiptFitsStep ==
  ASSUME AcceptInv, Typed', Moves
  PROVE  ReceiptFits'
<1>0. Typed /\ Typed' /\ CurFits
  BY CurIsFit DEF AcceptInv
<1> USE DEF AcceptInv, ReceiptFits, Between, Early, Uncommitted, Unprepared
<1>1. CASE Rests
  BY <1>1, <1>0 DEF Rests, Ends, Fails, Proceeds, Later, Quiet
<1>2. CASE Readies
  BY <1>2, <1>0 DEF Readies, Quiet
<1>3. CASE Finds
  BY <1>3, <1>0 DEF Finds, Quiet
<1>4. CASE Dispatches
  BY <1>4, <1>0 DEF Dispatches, Numbered, CurFits
<1>5. CASE Turns
  BY <1>5, <1>0 DEF Turns, Quiet
<1>6. CASE Gates
  BY <1>6, <1>0 DEF Gates, MeasuresOnly
<1>7. CASE Revalidates
  BY <1>7, <1>0 DEF Revalidates, Quiet
<1>8. CASE Promises
  BY <1>8, <1>0 DEF Promises, Receives
<1>9. CASE Stages
  BY <1>9, <1>0 DEF Stages, Quiet
<1>10. CASE MakesCommit
  BY <1>10, <1>0 DEF MakesCommit, Appends
<1>11. CASE Adopts
  BY <1>11, <1>0 DEF Adopts, Quiet
<1>12. CASE Checks
  BY <1>12, <1>0 DEF Checks, Quiet
<1>13. CASE Regates
  BY <1>13, <1>0 DEF Regates, MeasuresOnly
<1>14. CASE RegatesRed
  BY <1>14, <1>0 DEF RegatesRed, MeasuresOnly
<1>15. CASE Prepares
  BY <1>15, <1>0 DEF Prepares, Receives
<1>16. CASE Begins
  BY <1>16, <1>0 DEF Begins, PlanOnly
<1>17. CASE Replaces
  BY <1>17, <1>0 DEF Replaces, PlanOnly
<1>18. CASE Finishes
  BY <1>18, <1>0 DEF Finishes, PlanOnly, WriteFits, Writing, Thens
<1>19. CASE Records
  BY <1>19, <1>0 DEF Records, Receives
<1>20. CASE Reloads
  BY <1>20, <1>0 DEF Reloads, Quiet, OneOpen, Unfinished, Received
<1>21. CASE Resumes
  BY <1>21, <1>0 DEF Resumes, Quiet
<1>22. CASE Marks
  BY <1>22, <1>0 DEF Marks, Appends
<1>23. CASE Overtakes
  BY <1>23, <1>0 DEF Overtakes, Appends
<1>24. CASE Concludes
  BY <1>24, <1>0 DEF Concludes
<1>25. CASE Replans
  BY <1>25, <1>0 DEF Replans, PlanOnly
<1>26. CASE Idles
  BY <1>26, <1>0 DEF Idles, PlanOnly
<1> QED BY <1>1, <1>2, <1>3, <1>4, <1>5, <1>6, <1>7, <1>8, <1>9, <1>10, <1>11, <1>12,
           <1>13, <1>14, <1>15, <1>16, <1>17, <1>18, <1>19, <1>20, <1>21, <1>22, <1>23,
           <1>24, <1>25, <1>26 DEF Moves

LEMMA ReceiptsGatedStep ==
  ASSUME AcceptInv, Typed', Moves
  PROVE  ReceiptsGated'
<1>0. Typed /\ Typed' /\ CurFits
  BY CurIsFit DEF AcceptInv
<1> USE DEF AcceptInv, ReceiptsGated
<1>1. CASE Rests
  BY <1>1, <1>0 DEF Rests, Ends, Fails, Proceeds, Later, Quiet, Unfinished, Received, Gated
<1>2. CASE Readies
  BY <1>2, <1>0 DEF Readies, Quiet, Unfinished, Received, Gated
<1>3. CASE Finds
  BY <1>3, <1>0 DEF Finds, Quiet, Unfinished, Received, Gated
<1>4. CASE Dispatches
  <2>1. Unfinished' = {}
    BY <1>4, <1>0 DEF Dispatches, OneOpen, ReceiptFits, Early, Between, Unfinished, Received
  <2> QED BY <2>1
<1>5. CASE Turns
  BY <1>5, <1>0 DEF Turns, Quiet, Unfinished, Received, Gated
<1>6. CASE Gates
  <2>1. Unfinished' = {}
    BY <1>6, <1>0 DEF Gates, MeasuresOnly, OneOpen, ReceiptFits, Early, Between, Unfinished, Received
  <2> QED BY <2>1
<1>7. CASE Revalidates
  BY <1>7, <1>0 DEF Revalidates, Quiet, Unfinished, Received, Gated
<1>8. CASE Promises
  <2>1. ASSUME NEW i \in Unfinished'
        PROVE  /\ i = cur /\ receipts'[i].phase = "commit-intent"
               /\ receipts'[i].measured = acc.measured /\ receipts'[i].head = Context.base
    BY <1>8, <1>0, <2>1 DEF Promises, Receives, OneOpen, Between, CurFits, Unfinished, Received
  <2> QED BY <1>8, <2>1 DEF Promises, Receives, AccGated, Gated
<1>9. CASE Stages
  BY <1>9, <1>0 DEF Stages, Quiet, Unfinished, Received, Gated
<1>10. CASE MakesCommit
  <2>1. Grows(commits', commits)
    BY <1>10, <1>0 DEF MakesCommit, Appends, Grows, HEAD, CurFits
  <2>2. ASSUME NEW i \in Unfinished'
        PROVE  /\ i \in Unfinished /\ i \in 1 .. iters
               /\ receipts[i].head \in Nat /\ contexts[i].base \in Nat
    <3>1. i \in Unfinished /\ i \in Iterations /\ receipts[i] # NoReceipt
      BY <1>10, <2>2 DEF MakesCommit, Appends, Unfinished, Received
    <3>2. i \in 1 .. iters
      BY <1>0, <3>1 DEF Numbered, CurFits, Iterations
    <3>3. receipts[i].head \in Nat
      BY <1>0, <3>1 DEF Typed, ReceiptSet
    <3>4. contexts[i].base \in Nat
      BY <1>0, <3>2 DEF Numbered, CurFits
    <3> QED BY <3>1, <3>2, <3>3, <3>4
  <2>3. UNCHANGED <<history, contexts, receipts>>
    BY <1>10 DEF MakesCommit, Appends
  <2> QED BY <2>1, <2>2, <2>3, OvertakenGrows, DepartedGrows DEF Gated
<1>11. CASE Adopts
  BY <1>11, <1>0 DEF Adopts, Quiet, Unfinished, Received, Gated
<1>12. CASE Checks
  BY <1>12, <1>0 DEF Checks, Quiet, Unfinished, Received, Gated
<1>13. CASE Regates
  <2>1. ASSUME NEW i \in Unfinished'
        PROVE  /\ i = cur /\ receipts[cur] # NoReceipt /\ receipts[cur].phase = "commit-intent"
               /\ UNCHANGED <<receipts, commits, contexts>> /\ pc = "regate"
    BY <1>13, <1>0, <2>1 DEF Regates, MeasuresOnly, OneOpen, ReceiptFits, Unprepared, Between,
       Unfinished, Received
  <2> QED BY <2>1 DEF AccGated, Context
<1>14. CASE RegatesRed
  <2>1. ASSUME NEW i \in Unfinished'
        PROVE  /\ i = cur /\ receipts[cur] # NoReceipt /\ receipts[cur].phase = "commit-intent"
               /\ UNCHANGED <<receipts, commits, contexts>> /\ pc = "regate"
    BY <1>14, <1>0, <2>1 DEF RegatesRed, MeasuresOnly, OneOpen, ReceiptFits, Unprepared, Between,
       Unfinished, Received
  <2> QED BY <2>1 DEF AccGated, Context
<1>15. CASE Prepares
  <2>1. ASSUME NEW i \in Unfinished'
        PROVE  /\ i = cur /\ receipts'[i].phase = "prepared"
               /\ receipts'[i].measured = acc.measured /\ receipts'[i].head = acc'.head
    BY <1>15, <1>0, <2>1 DEF Prepares, Receives, OneOpen, Between, CurFits, Unfinished, Received
  <2> QED BY <1>15, <2>1 DEF Prepares, Receives, AccGated, Gated, Typed, CurFits
<1>16. CASE Begins
  BY <1>16, <1>0 DEF Begins, PlanOnly, Unfinished, Received, Gated
<1>17. CASE Replaces
  BY <1>17, <1>0 DEF Replaces, PlanOnly, Unfinished, Received, Gated
<1>18. CASE Finishes
  BY <1>18, <1>0 DEF Finishes, PlanOnly, Unfinished, Received, Gated
<1>19. CASE Records
  <2>1. ASSUME NEW i \in Unfinished'
        PROVE  /\ i = cur /\ receipts'[i].phase = "advanced"
               /\ receipts'[i].measured = acc.measured /\ receipts'[i].head = acc.head
    BY <1>19, <1>0, <2>1 DEF Records, Receives, OneOpen, Between, CurFits, Unfinished, Received
  <2> QED BY <1>19, <2>1 DEF Records, Receives, AccGated, Gated
<1>20. CASE Reloads
  BY <1>20, <1>0 DEF Reloads, Quiet, Unfinished, Received, Gated
<1>21. CASE Resumes
  BY <1>21, <1>0 DEF Resumes, Quiet, Unfinished, Received, Gated
<1>22. CASE Marks
  <2>1. Grows(commits', commits)
    BY <1>22, <1>0 DEF Marks, Appends, Grows, HEAD, CurFits
  <2>2. ASSUME NEW i \in Unfinished'
        PROVE  /\ i \in Unfinished /\ i \in 1 .. iters
               /\ receipts[i].head \in Nat /\ contexts[i].base \in Nat
    <3>1. i \in Unfinished /\ i \in Iterations /\ receipts[i] # NoReceipt
      BY <1>22, <2>2 DEF Marks, Appends, Unfinished, Received
    <3>2. i \in 1 .. iters
      BY <1>0, <3>1 DEF Numbered, CurFits, Iterations
    <3>3. receipts[i].head \in Nat
      BY <1>0, <3>1 DEF Typed, ReceiptSet
    <3>4. contexts[i].base \in Nat
      BY <1>0, <3>2 DEF Numbered, CurFits
    <3> QED BY <3>1, <3>2, <3>3, <3>4
  <2>3. UNCHANGED <<history, contexts, receipts>>
    BY <1>22 DEF Marks, Appends
  <2> QED BY <2>1, <2>2, <2>3, OvertakenGrows, DepartedGrows DEF Gated
<1>23. CASE Overtakes
  <2>1. Grows(commits', commits)
    BY <1>23, <1>0 DEF Overtakes, Appends, Grows, HEAD, CurFits
  <2>2. ASSUME NEW i \in Unfinished'
        PROVE  /\ i \in Unfinished /\ i \in 1 .. iters
               /\ receipts[i].head \in Nat /\ contexts[i].base \in Nat
    <3>1. i \in Unfinished /\ i \in Iterations /\ receipts[i] # NoReceipt
      BY <1>23, <2>2 DEF Overtakes, Appends, Unfinished, Received
    <3>2. i \in 1 .. iters
      BY <1>0, <3>1 DEF Numbered, CurFits, Iterations
    <3>3. receipts[i].head \in Nat
      BY <1>0, <3>1 DEF Typed, ReceiptSet
    <3>4. contexts[i].base \in Nat
      BY <1>0, <3>2 DEF Numbered, CurFits
    <3> QED BY <3>1, <3>2, <3>3, <3>4
  <2>3. UNCHANGED <<history, contexts, receipts>>
    BY <1>23 DEF Overtakes, Appends
  <2> QED BY <2>1, <2>2, <2>3, OvertakenGrows, DepartedGrows DEF Gated
<1>24. CASE Concludes
  BY <1>24, <1>0 DEF Concludes, Unfinished, Received, Gated
<1>25. CASE Replans
  BY <1>25, <1>0 DEF Replans, PlanOnly, Unfinished, Received, Gated
<1>26. CASE Idles
  BY <1>26, <1>0 DEF Idles, PlanOnly, Unfinished, Received, Gated
<1> QED BY <1>1, <1>2, <1>3, <1>4, <1>5, <1>6, <1>7, <1>8, <1>9, <1>10, <1>11, <1>12,
           <1>13, <1>14, <1>15, <1>16, <1>17, <1>18, <1>19, <1>20, <1>21, <1>22, <1>23,
           <1>24, <1>25, <1>26 DEF Moves

LEMMA AccGatedStep ==
  ASSUME AcceptInv, Typed', Moves
  PROVE  AccGated'
<1>0. Typed /\ Typed' /\ CurFits
  BY CurIsFit DEF AcceptInv
<1> USE DEF AcceptInv, AccGated, Writing, Advancing
<1>1. CASE Rests
  BY <1>1, <1>0 DEF Rests, Ends, Fails, Proceeds, Later, Quiet, Gated, Between
<1>2. CASE Readies
  BY <1>2, <1>0 DEF Readies, Quiet, Gated, Context, HEAD
<1>3. CASE Finds
  BY <1>3, <1>0 DEF Finds, Quiet, Gated, Context, HEAD
<1>4. CASE Dispatches
  BY <1>4, <1>0 DEF Dispatches, Gated, Context, HEAD
<1>5. CASE Turns
  BY <1>5, <1>0 DEF Turns, Quiet, Gated, Context, HEAD
<1>6. CASE Gates
  BY <1>6, <1>0 DEF Gates, MeasuresOnly, Gated, Context
<1>7. CASE Revalidates
  BY <1>7, <1>0 DEF Revalidates, Quiet, Gated, Context, ReceiptFits, Early
<1>8. CASE Promises
  BY <1>8, <1>0 DEF Promises, Receives, Gated, Context, HEAD
<1>9. CASE Stages
  <2>1. CASE pc = "stage"
    BY <1>9, <2>1 DEF Stages, Quiet, Gated
  <2>2. CASE pc = "reintend"
    <3>1. cur \in Unfinished /\ receipts[cur].phase = "commit-intent"
      BY <1>9, <2>2 DEF OneOpen, ReceiptFits, Unprepared, Unfinished, Received
    <3>2. ~Departed(commits, Context.base, receipts[cur].tree)
      BY <1>9, <2>2, <1>0 DEF Stages, Departed, HEAD, CurFits
    <3>3. Gated(cur, acc.measured)
      BY <1>9, <2>2, <3>1, <3>2 DEF ReceiptsGated, Context
    <3> QED BY <1>9, <3>3 DEF Stages, Quiet, Gated
  <2> QED BY <1>9, <2>1, <2>2 DEF Stages
<1>10. CASE MakesCommit
  <2>1. receipts[cur] # NoReceipt => HEAD' > Context.base
    <3>1. Context.base \in 1 .. HEAD
      BY <1>10, <1>0 DEF MakesCommit, Numbered, CurFits, Between, Context
    <3> QED BY <1>10, <1>0, <3>1 DEF MakesCommit, Appends, HEAD, CurFits
  <2> QED BY <1>10, <2>1 DEF MakesCommit, Appends, Gated, Context
<1>11. CASE Adopts
  <2>1. /\ cur \in Unfinished /\ receipts[cur].phase = "commit-intent"
        /\ receipts[cur].tree = acc.tree /\ acc.measured = receipts[cur].measured
    BY <1>11 DEF Adopts, OneOpen, ReceiptFits, Unprepared, Unfinished, Received
  <2>2. Gated(cur, acc.measured) \/ Departed(commits, Context.base, acc.tree)
    BY <2>1 DEF ReceiptsGated, Context
  <2>0. Context.base \in 1 .. HEAD
    BY <1>11, <1>0 DEF Adopts, Numbered, CurFits, Between, Context
  <2>3. Departed(commits, Context.base, acc.tree) => Adopted(commits, HEAD, acc.tree)
    BY <1>11, <1>0, <2>0 DEF Adopts, Departed, Adopted, HEAD, CurFits
  <2>4. mode = "recovery" /\ HEAD > Context.base
    BY <1>11, <1>0, <2>0 DEF Adopts, ReceiptFits, HEAD, CurFits
  <2> QED BY <1>11, <2>2, <2>3, <2>4 DEF Adopts, Quiet, Gated, Context, HEAD
<1>12. CASE Checks
  <2>1. CASE HeadTree = acc.tree
    <3>1. Adopted(commits, acc.head, acc.tree) => Overtaken(commits, acc.head)
      BY <2>1 DEF Adopted, HeadTree, HEAD
    <3> QED BY <1>12, <2>1, <3>1 DEF Checks, Quiet, Gated, Context, HEAD
  <2>2. CASE HeadTree # acc.tree
    <3>1. receipts[cur] # NoReceipt => Departed(commits, Context.base, receipts[cur].tree)
      BY <1>12, <2>2, <1>0 DEF Checks, ReceiptFits, Departed, HeadTree, HEAD
    <3> QED BY <1>12, <2>2, <3>1 DEF Checks, Quiet, Context
  <2> QED BY <2>1, <2>2
<1>13. CASE Regates
  BY <1>13, <1>0 DEF Regates, MeasuresOnly, Gated, Context, HEAD
<1>14. CASE RegatesRed
  BY <1>14, <1>0 DEF RegatesRed, MeasuresOnly, Gated, Context, HEAD
<1>15. CASE Prepares
  BY <1>15, <1>0 DEF Prepares, Receives, Gated, Context, HEAD
<1>16. CASE Begins
  BY <1>16, <1>0 DEF Begins, PlanOnly, Gated, Context, HEAD
<1>17. CASE Replaces
  BY <1>17, <1>0 DEF Replaces, PlanOnly, Gated, Context, HEAD
<1>18. CASE Finishes
  <2>1. write.then \in Thens
    BY <1>18 DEF Finishes, WriteFits
  <2>2. pc' \in {"advanced", "explain"} => Gated(cur, acc.measured)
    BY <1>18 DEF Finishes
  <2> QED BY <1>18, <2>1, <2>2 DEF Finishes, PlanOnly, Thens, Gated
<1>19. CASE Records
  BY <1>19, <1>0 DEF Records, Receives, Gated, Context, HEAD
<1>20. CASE Reloads
  <2>1. cur \in Unfinished
    BY <1>20 DEF Reloads, OneOpen
  <2> QED BY <1>20, <2>1 DEF Reloads, Quiet, ReceiptsGated, Gated, Context
<1>21. CASE Resumes
  BY <1>21, <1>0 DEF Resumes, Quiet, Gated, Context, HEAD
<1>22. CASE Marks
  BY <1>22, <1>0 DEF Marks, Appends, Gated, Context, HEAD
<1>23. CASE Overtakes
  <2>1. Grows(commits', commits) /\ commits'[Len(commits')].kind = "other"
    BY <1>23, <1>0 DEF Overtakes, Appends, Grows, HEAD, CurFits
  <2>2. acc.head \in Nat
    BY <1>0 DEF Typed, AccSet
  <2>3. Adopted(commits, acc.head, acc.tree) => Adopted(commits', acc.head, acc.tree)
    BY <2>1, <2>2, AdoptedGrows
  <2>4. Overtaken(commits, acc.head) => Overtaken(commits', acc.head)
    BY <2>1, <2>2, OvertakenGrows
  <2>5. pc \notin Between => Context.base \in Nat
    BY <1>0 DEF CurFits, Numbered, Context
  <2>6. pc \in {"regate", "committed"} /\ receipts[cur] # NoReceipt =>
          /\ Departed(commits, Context.base, receipts[cur].tree) =>
               Departed(commits', Context.base, receipts[cur].tree)
          /\ HEAD > Context.base => HEAD' > Context.base
    <3>1. HEAD' = HEAD + 1 /\ HEAD \in Nat
      BY <1>23, <1>0 DEF Overtakes, Appends, HEAD, CurFits
    <3> QED BY <2>1, <2>5, <3>1, DepartedGrows DEF Between
  <2> QED BY <1>23, <2>3, <2>4, <2>6 DEF Overtakes, Appends, Gated, Context
<1>24. CASE Concludes
  BY <1>24, <1>0 DEF Concludes, Gated, Context, HEAD
<1>25. CASE Replans
  BY <1>25, <1>0 DEF Replans, PlanOnly, Gated, Context, HEAD
<1>26. CASE Idles
  BY <1>26, <1>0 DEF Idles, PlanOnly, Gated, Context, HEAD
<1> QED BY <1>1, <1>2, <1>3, <1>4, <1>5, <1>6, <1>7, <1>8, <1>9, <1>10, <1>11, <1>12,
           <1>13, <1>14, <1>15, <1>16, <1>17, <1>18, <1>19, <1>20, <1>21, <1>22, <1>23,
           <1>24, <1>25, <1>26 DEF Moves

LEMMA AsMeasuredStep ==
  ASSUME AcceptInv, Typed', Moves
  PROVE  AsMeasured'
<1>0. Typed /\ Typed' /\ CurFits
  BY CurIsFit DEF AcceptInv
<1> USE DEF AcceptInv, AsMeasured, Writing, Advancing, CurFits
<1>1. CASE Rests
  BY <1>1, <1>0 DEF Rests, Ends, Fails, Proceeds, Later, Quiet, Between
<1>2. CASE Readies
  BY <1>2, <1>0 DEF Readies, Quiet
<1>3. CASE Finds
  BY <1>3, <1>0 DEF Finds, Quiet
<1>4. CASE Dispatches
  BY <1>4, <1>0 DEF Dispatches
<1>5. CASE Turns
  BY <1>5, <1>0 DEF Turns, Quiet
<1>6. CASE Gates
  BY <1>6, <1>0 DEF Gates, MeasuresOnly
<1>7. CASE Revalidates
  BY <1>7, <1>0 DEF Revalidates, Quiet
<1>8. CASE Promises
  BY <1>8, <1>0 DEF Promises, Receives
<1>9. CASE Stages
  BY <1>9, <1>0 DEF Stages, Quiet
<1>10. CASE MakesCommit
  BY <1>10, <1>0 DEF MakesCommit, Appends
<1>11. CASE Adopts
  BY <1>11, <1>0 DEF Adopts, Quiet
<1>12. CASE Checks
  BY <1>12, <1>0 DEF Checks, Quiet
<1>13. CASE Regates
  BY <1>13, <1>0 DEF Regates, MeasuresOnly
<1>14. CASE RegatesRed
  BY <1>14, <1>0 DEF RegatesRed, MeasuresOnly
<1>15. CASE Prepares
  BY <1>15, <1>0 DEF Prepares, Receives
<1>16. CASE Begins
  BY <1>16, <1>0 DEF Begins, PlanOnly
<1>17. CASE Replaces
  BY <1>17, <1>0 DEF Replaces, PlanOnly
<1>18. CASE Finishes
  BY <1>18, <1>0 DEF Finishes, PlanOnly, WriteFits, Thens
<1>19. CASE Records
  BY <1>19, <1>0 DEF Records, Receives
<1>20. CASE Reloads
  BY <1>20, <1>0 DEF Reloads, Quiet
<1>21. CASE Resumes
  BY <1>21, <1>0 DEF Resumes, Quiet
<1>22. CASE Marks
  BY <1>22, <1>0 DEF Marks, Appends
<1>23. CASE Overtakes
  BY <1>23, <1>0 DEF Overtakes, Appends
<1>24. CASE Concludes
  BY <1>24, <1>0 DEF Concludes
<1>25. CASE Replans
  BY <1>25, <1>0 DEF Replans, PlanOnly
<1>26. CASE Idles
  BY <1>26, <1>0 DEF Idles, PlanOnly
<1> QED BY <1>1, <1>2, <1>3, <1>4, <1>5, <1>6, <1>7, <1>8, <1>9, <1>10, <1>11, <1>12,
           <1>13, <1>14, <1>15, <1>16, <1>17, <1>18, <1>19, <1>20, <1>21, <1>22, <1>23,
           <1>24, <1>25, <1>26 DEF Moves

LEMMA WriteFitsStep ==
  ASSUME AcceptInv, Typed', Moves
  PROVE  WriteFits'
<1>0. Typed /\ Typed' /\ CurFits
  BY CurIsFit DEF AcceptInv
<1> USE DEF AcceptInv, WriteFits, Writing, Advancing
<1>1. CASE Rests
  BY <1>1, <1>0 DEF Rests, Ends, Fails, Proceeds, Later, Quiet, Between
<1>2. CASE Readies
  BY <1>2, <1>0 DEF Readies, Quiet
<1>3. CASE Finds
  BY <1>3, <1>0 DEF Finds, Quiet
<1>4. CASE Dispatches
  BY <1>4, <1>0 DEF Dispatches
<1>5. CASE Turns
  BY <1>5, <1>0 DEF Turns, Quiet
<1>6. CASE Gates
  BY <1>6, <1>0 DEF Gates, MeasuresOnly
<1>7. CASE Revalidates
  BY <1>7, <1>0 DEF Revalidates, Quiet
<1>8. CASE Promises
  BY <1>8, <1>0 DEF Promises, Receives
<1>9. CASE Stages
  BY <1>9, <1>0 DEF Stages, Quiet
<1>10. CASE MakesCommit
  BY <1>10, <1>0 DEF MakesCommit, Appends
<1>11. CASE Adopts
  BY <1>11, <1>0 DEF Adopts, Quiet
<1>12. CASE Checks
  BY <1>12, <1>0 DEF Checks, Quiet
<1>13. CASE Regates
  BY <1>13, <1>0 DEF Regates, MeasuresOnly
<1>14. CASE RegatesRed
  BY <1>14, <1>0 DEF RegatesRed, MeasuresOnly
<1>15. CASE Prepares
  BY <1>15, <1>0 DEF Prepares, Receives
<1>16. CASE Begins
  BY <1>16, <1>0 DEF Begins, PlanOnly
<1>17. CASE Replaces
  BY <1>17, <1>0 DEF Replaces, PlanOnly
<1>18. CASE Finishes
  BY <1>18, <1>0 DEF Finishes, PlanOnly, Thens
<1>19. CASE Records
  BY <1>19, <1>0 DEF Records, Receives
<1>20. CASE Reloads
  BY <1>20, <1>0 DEF Reloads, Quiet
<1>21. CASE Resumes
  BY <1>21, <1>0 DEF Resumes, Quiet
<1>22. CASE Marks
  BY <1>22, <1>0 DEF Marks, Appends
<1>23. CASE Overtakes
  BY <1>23, <1>0 DEF Overtakes, Appends
<1>24. CASE Concludes
  BY <1>24, <1>0 DEF Concludes
<1>25. CASE Replans
  BY <1>25, <1>0 DEF Replans, PlanOnly
<1>26. CASE Idles
  BY <1>26, <1>0 DEF Idles, PlanOnly
<1> QED BY <1>1, <1>2, <1>3, <1>4, <1>5, <1>6, <1>7, <1>8, <1>9, <1>10, <1>11, <1>12,
           <1>13, <1>14, <1>15, <1>16, <1>17, <1>18, <1>19, <1>20, <1>21, <1>22, <1>23,
           <1>24, <1>25, <1>26 DEF Moves

LEMMA CommitsFollowStep ==
  ASSUME AcceptInv, Typed', Moves
  PROVE  CommitsFollow'
<1>0. Typed /\ Typed' /\ CurFits
  BY CurIsFit DEF AcceptInv
<1> USE DEF AcceptInv, CommitsFollow, OwnCommits, HEAD, CurFits
<1>1. CASE Rests
  BY <1>1, <1>0 DEF Rests, Ends, Fails, Proceeds, Later, Quiet, Between, Uncommitted, Early
<1>2. CASE Readies
  BY <1>2, <1>0 DEF Readies, Quiet, Uncommitted, Early
<1>3. CASE Finds
  BY <1>3, <1>0 DEF Finds, Quiet, Uncommitted, Early
<1>4. CASE Dispatches
  <2>1. /\ cur' = iters + 1 /\ iters' = iters + 1 /\ commits' = commits /\ iters \in Nat
        /\ \A i \in 1 .. iters : contexts'[i] = contexts[i]
    BY <1>4, <1>0, AcceptBoundsAssumption DEF Dispatches, CurFits, Iterations
  <2> QED BY <2>1
<1>5. CASE Turns
  BY <1>5, <1>0 DEF Turns, Quiet, Uncommitted, Early
<1>6. CASE Gates
  BY <1>6, <1>0 DEF Gates, MeasuresOnly, Uncommitted, Early
<1>7. CASE Revalidates
  BY <1>7, <1>0 DEF Revalidates, Quiet, Uncommitted, Early
<1>8. CASE Promises
  BY <1>8, <1>0 DEF Promises, Receives, Uncommitted, Early
<1>9. CASE Stages
  <2>1. CASE pc = "stage"
    BY <1>9, <2>1 DEF Stages, Quiet, Uncommitted
  <2>2. CASE pc = "reintend"
    <3>1. HEAD \in Nat /\ HEAD = Context.base
      BY <1>9, <1>0, <2>2 DEF Stages, CurFits
    <3>2. OwnCommits(cur) = {}
      BY <3>1 DEF Context
    <3> QED BY <1>9, <3>2 DEF Stages, Quiet
  <2> QED BY <1>9, <2>1, <2>2 DEF Stages
<1>10. CASE MakesCommit
  <2>1. /\ Len(commits) \in Nat /\ Len(commits') = Len(commits) + 1 /\ cur \in 1 .. iters
        /\ \A n \in 1 .. Len(commits) : commits'[n] = commits[n]
        /\ commits'[Len(commits) + 1].kind = "step" /\ commits'[Len(commits) + 1].iter = cur
        /\ UNCHANGED <<iters, contexts>> /\ pc' \notin Uncommitted
    BY <1>10, <1>0 DEF MakesCommit, Appends, CurFits, Between, Uncommitted, Early
  <2>2. contexts[cur].base \in 1 .. Len(commits)
    BY <2>1, <1>0 DEF Numbered
  <2>3. \A n \in 1 .. Len(commits) : ~(commits[n].kind = "step" /\ commits[n].iter = cur)
    BY <1>10 DEF MakesCommit, Uncommitted
  <2>4. \A n \in 1 .. Len(commits') : n \in 1 .. Len(commits) \/ n = Len(commits) + 1
    BY <2>1
  <2>5. ASSUME NEW n \in 1 .. Len(commits'), commits'[n].kind = "step"
        PROVE  commits'[n].iter \in 1 .. iters' /\ n > contexts'[commits'[n].iter].base
    BY <2>1, <2>2, <2>4, <2>5
  <2>6. ASSUME NEW n \in 1 .. Len(commits'), NEW m \in 1 .. Len(commits'),
               commits'[n].kind = "step", commits'[m].kind = "step",
               commits'[n].iter = commits'[m].iter
        PROVE  n = m
    BY <2>1, <2>3, <2>4, <2>6
  <2> QED BY <2>1, <2>5, <2>6
<1>11. CASE Adopts
  BY <1>11, <1>0 DEF Adopts, Quiet, Uncommitted, Early
<1>12. CASE Checks
  BY <1>12, <1>0 DEF Checks, Quiet, Uncommitted, Early
<1>13. CASE Regates
  BY <1>13, <1>0 DEF Regates, MeasuresOnly, Uncommitted, Early
<1>14. CASE RegatesRed
  BY <1>14, <1>0 DEF RegatesRed, MeasuresOnly, Uncommitted, Early
<1>15. CASE Prepares
  BY <1>15, <1>0 DEF Prepares, Receives, Uncommitted, Early
<1>16. CASE Begins
  BY <1>16, <1>0 DEF Begins, PlanOnly, Uncommitted, Early
<1>17. CASE Replaces
  BY <1>17, <1>0 DEF Replaces, PlanOnly, Uncommitted, Early
<1>18. CASE Finishes
  BY <1>18, <1>0 DEF Finishes, PlanOnly, WriteFits, Writing, Thens, Uncommitted, Early
<1>19. CASE Records
  BY <1>19, <1>0 DEF Records, Receives, Uncommitted, Early
<1>20. CASE Reloads
  BY <1>20, <1>0 DEF Reloads, Quiet, Uncommitted, Early
<1>21. CASE Resumes
  BY <1>21, <1>0 DEF Resumes, Quiet, Uncommitted, Early
<1>22. CASE Marks
  BY <1>22, <1>0 DEF Marks, Appends, Uncommitted, Early
<1>23. CASE Overtakes
  BY <1>23, <1>0 DEF Overtakes, Appends, Uncommitted, Early
<1>24. CASE Concludes
  BY <1>24, <1>0 DEF Concludes, Uncommitted, Early
<1>25. CASE Replans
  BY <1>25, <1>0 DEF Replans, PlanOnly, Uncommitted, Early
<1>26. CASE Idles
  BY <1>26, <1>0 DEF Idles, PlanOnly, Uncommitted, Early
<1> QED BY <1>1, <1>2, <1>3, <1>4, <1>5, <1>6, <1>7, <1>8, <1>9, <1>10, <1>11, <1>12,
           <1>13, <1>14, <1>15, <1>16, <1>17, <1>18, <1>19, <1>20, <1>21, <1>22, <1>23,
           <1>24, <1>25, <1>26 DEF Moves

-----------------------------------------------------------------------------
(* The values the steps write.                                              *)

LEMMA ContentWritten ==
  ASSUME NEW c \in ContentSet, NEW to, DOMAIN to \subseteq {"status", "current_step", "hold"},
         "status" \in DOMAIN to => to.status \in Statuses,
         "current_step" \in DOMAIN to => to.current_step \in 0 .. Steps,
         "hold" \in DOMAIN to => to.hold \in Holds
  PROVE  /\ Project(c, to) \in ContentSet
         /\ "current_step" \notin DOMAIN to => Project(c, to).current_step = c.current_step
<1> DEFINE q == Project(c, to)
<1>1. /\ DOMAIN c = {"status", "current_step", "hold", "auto_block_fails", "contract", "notes"}
      /\ c.status \in Statuses /\ c.current_step \in 0 .. Steps /\ c.hold \in Holds
      /\ c.auto_block_fails \in Nat /\ c.contract \in Nat /\ c.notes \in Nat
  BY DEF ContentSet
<1>2. q = [status |-> q.status, current_step |-> q.current_step, hold |-> q.hold,
           auto_block_fails |-> q.auto_block_fails, contract |-> q.contract,
           notes |-> q.notes]
  BY <1>1 DEF Project
<1>3. /\ q.status \in Statuses /\ q.current_step \in 0 .. Steps /\ q.hold \in Holds
      /\ q.auto_block_fails \in Nat /\ q.contract \in Nat /\ q.notes \in Nat
      /\ "current_step" \notin DOMAIN to => q.current_step = c.current_step
  BY <1>1 DEF Project
<1> HIDE DEF q
<1>4. q \in ContentSet
  BY <1>2, <1>3 DEF ContentSet
<1> QED BY <1>3, <1>4 DEF q

LEMMA ContractWritten ==
  ASSUME NEW c \in ContentSet, NEW n \in Nat
  PROVE  [c EXCEPT !.contract = n] \in ContentSet
  BY DEF ContentSet

LEMMA NotesWritten ==
  ASSUME NEW c \in ContentSet
  PROVE  LET d == [c EXCEPT !.notes = c.notes + 1] IN
         d \in ContentSet /\ d.current_step = c.current_step
  BY DEF ContentSet

LEMMA ContentFields ==
  ASSUME NEW c \in ContentSet
  PROVE  /\ c.status \in Statuses /\ c.current_step \in 0 .. Steps /\ c.hold \in Holds
         /\ c.contract \in Nat
  BY DEF ContentSet

LEMMA NoAccWritten ==
  /\ NoAcc \in AccSet
  /\ \A s \in Statuses : /\ [NoAcc EXCEPT !.status = s] \in AccSet
                         /\ [NoAcc EXCEPT !.status = s].made = FALSE
  BY TreesAssumption DEF NoAcc, AccSet, Statuses, HeldStatuses

LEMMA AccReloaded ==
  ASSUME NEW t \in Trees, NEW m \in Trees, NEW n \in Nat, NEW b \in BOOLEAN
  PROVE  LET a == [NoAcc EXCEPT !.tree = t, !.measured = m, !.head = n, !.made = b] IN
         a \in AccSet /\ a.tree = t /\ a.measured = m /\ a.head = n /\ a.made = b
  BY TreesAssumption DEF NoAcc, AccSet, Statuses, HeldStatuses

LEMMA AccStatus ==
  ASSUME NEW a \in AccSet, NEW s \in Statuses
  PROVE  LET b == [a EXCEPT !.status = s] IN
         /\ b \in AccSet
         /\ b.tree = a.tree
         /\ b.measured = a.measured
         /\ b.head = a.head
         /\ b.made = a.made
  BY DEF AccSet

LEMMA AccTree ==
  ASSUME NEW a \in AccSet, NEW t \in Trees
  PROVE  LET b == [a EXCEPT !.tree = t] IN
         /\ b \in AccSet
         /\ b.tree = t
         /\ b.measured = a.measured
         /\ b.head = a.head
         /\ b.made = a.made
  BY DEF AccSet

LEMMA AccMeasured ==
  ASSUME NEW a \in AccSet, NEW t \in Trees
  PROVE  LET b == [a EXCEPT !.measured = t] IN
         /\ b \in AccSet
         /\ b.tree = a.tree
         /\ b.measured = t
         /\ b.head = a.head
         /\ b.made = a.made
  BY DEF AccSet

LEMMA AccHead ==
  ASSUME NEW a \in AccSet, NEW n \in Nat
  PROVE  LET b == [a EXCEPT !.head = n] IN
         /\ b \in AccSet
         /\ b.tree = a.tree
         /\ b.measured = a.measured
         /\ b.head = n
         /\ b.made = a.made
  BY DEF AccSet

LEMMA AccMade ==
  ASSUME NEW a \in AccSet, NEW n \in Nat
  PROVE  LET b == [a EXCEPT !.made = TRUE, !.head = n] IN
         /\ b \in AccSet
         /\ b.tree = a.tree
         /\ b.measured = a.measured
         /\ b.head = n
         /\ b.made = TRUE
  BY DEF AccSet

LEMMA AccFields ==
  ASSUME NEW a \in AccSet
  PROVE  /\ a.tree \in Trees /\ a.measured \in Trees /\ a.head \in Nat /\ a.made \in BOOLEAN
         /\ a.status \in Statuses
  BY DEF AccSet

LEMMA ReceiptWritten ==
  ASSUME NEW a \in AccSet, NEW phase \in {"commit-intent", "prepared", "advanced"}
  PROVE  LET r == Receipt(phase, a) IN
         /\ r \in ReceiptSet /\ r # NoReceipt
         /\ r.phase = phase /\ r.tree = a.tree /\ r.measured = a.measured
         /\ r.head = a.head /\ r.made = a.made
  BY DEF AccSet, Receipt, ReceiptSet, NoReceipt

LEMMA ReceiptFields ==
  ASSUME NEW r \in ReceiptSet
  PROVE  /\ r # NoReceipt /\ r.phase \in {"commit-intent", "prepared", "advanced"}
         /\ r.tree \in Trees /\ r.measured \in Trees /\ r.head \in Nat /\ r.made \in BOOLEAN
  BY DEF ReceiptSet, NoReceipt

LEMMA AppendRow ==
  ASSUME NEW rows, IsRows(rows), NEW row
  PROVE  /\ IsRows(Append(rows, row)) /\ Len(rows) \in Nat
         /\ Len(rows) + 1 \in DOMAIN Append(rows, row)
         /\ Append(rows, row)[Len(rows) + 1] = row
<1> DEFINE S == {rows[n] : n \in DOMAIN rows} \cup {row}
           new == Append(rows, row)
<1>1. rows \in Seq(S) /\ row \in S
  BY DEF IsRows
<1> HIDE DEF S
<1>2. /\ new \in Seq(S) /\ Len(new) = Len(rows) + 1 /\ new[Len(rows) + 1] = row
      /\ Len(rows) \in Nat
  BY <1>1, AppendProperties
<1> HIDE DEF new
<1>3. DOMAIN new = 1 .. Len(new) /\ new \in Seq({new[n] : n \in DOMAIN new})
  BY <1>2
<1>4. Len(rows) + 1 \in DOMAIN new /\ IsRows(new)
  BY <1>2, <1>3 DEF IsRows
<1> QED BY <1>2, <1>4 DEF new

LEMMA RecoveredRows ==
  ASSUME NEW rows, IsRows(rows), NEW path, NEW c
  PROVE  IsRows(Recovered(rows, path, c))
  BY AppendRow DEF Recovered

LEMMA TwoRows ==
  ASSUME NEW rows, IsRows(rows), NEW first, NEW second
  PROVE  IsRows(rows \o <<first, second>>)
<1> DEFINE S == {rows[n] : n \in DOMAIN rows} \cup {first, second}
           new == rows \o <<first, second>>
<1>1. rows \in Seq(S) /\ <<first, second>> \in Seq(S)
  BY DEF IsRows
<1> HIDE DEF S
<1>2. new \in Seq(S)
  BY <1>1, ConcatProperties
<1> HIDE DEF new
<1>3. new \in Seq({new[n] : n \in DOMAIN new})
  BY <1>2
<1> QED BY <1>3 DEF IsRows, new

\* What beginning a transition leaves, given the content it will write.
LEMMA WriteBegun ==
  ASSUME IsRows(log), NEW path, NEW guard, NEW actor, NEW from, NEW to,
         NEW after \in ContentSet, NEW then, BeginWrite(path, guard, actor, from, to, after, then)
  PROVE  /\ IsRows(log') /\ write'.path = path /\ write'.then = then
         /\ write'.row \in DOMAIN log' /\ log'[write'.row].after = after
         /\ pc' = "intended"
<1> DEFINE rows == Settled(path, guard)
<1>1. IsRows(rows)
  BY RecoveredRows DEF Settled
<1> HIDE DEF rows
<1>2. /\ log' = Append(rows, Intent(rows, actor, path, from, to, after))
      /\ write' = [path |-> path, row |-> Len(rows) + 1, then |-> then]
      /\ pc' = "intended"
  BY DEF BeginWrite, rows
<1> QED BY <1>1, <1>2, AppendRow DEF Intent

LEMMA CommitAppended ==
  ASSUME commits \in Seq(Commits), NEW c, commits' = Append(commits, c)
  PROVE  /\ Len(commits') = HEAD + 1 /\ HEAD \in Nat
         /\ \A n \in 1 .. HEAD : commits'[n] = commits[n]
         /\ commits'[HEAD + 1] = c
         /\ c \in Commits => commits' \in Seq(Commits)
  BY AppendProperties DEF HEAD

-----------------------------------------------------------------------------
(* The types.                                                               *)

LEMMA TreesFit ==
  ASSUME AcceptInv
  PROVE  /\ HeadTree \in Trees /\ acc.tree \in Trees /\ acc.measured \in Trees
         /\ acc.head \in Nat /\ acc.status \in Statuses
         /\ pc \notin Between => /\ Context.step \in 0 .. Steps - 1 /\ Context.base \in 1 .. HEAD
                                 /\ Context.step + 1 \in 0 .. Steps
         /\ \A x \in {Sub, Master} : files[x].status \in Statuses /\ files[x].current_step \in 0 .. Steps
<1>1. commits \in Seq(Commits) /\ HEAD \in DOMAIN commits
  BY DEF AcceptInv, Typed, HEAD
<1>2. commits[HEAD] \in Commits
  BY <1>1
<1>3. HeadTree \in Trees
  BY <1>2 DEF HeadTree, Commits
<1>4. Steps \in Nat \ {0} /\ CurFits
  BY AcceptBoundsAssumption, CurIsFit
<1>5. pc \notin Between => Context.step \in 0 .. Steps - 1 /\ Context.base \in 1 .. HEAD
  BY <1>4 DEF AcceptInv, Numbered, Context, CurFits
<1> QED BY <1>3, <1>4, <1>5, AccFields, ContentFields DEF AcceptInv, Typed

LEMMA PlanChanged ==
  ASSUME Typed, Interferes, NEW path \in {Sub, Master}, NEW contract \in Nat, NEW to,
         DOMAIN to \subseteq {"status", "current_step", "hold"},
         "status" \in DOMAIN to => to.status \in Statuses,
         "current_step" \in DOMAIN to => to.current_step \in 0 .. Steps,
         "hold" \in DOMAIN to => to.hold \in Holds,
         ChangePlan(path, to, contract)
  PROVE  Typed'
<1> DEFINE new == [Project(files[path], to) EXCEPT !.contract = contract]
<1>1. files[path] \in ContentSet
  BY DEF Typed
<1>2. new \in ContentSet
  BY <1>1, ContentWritten, ContractWritten
<1> HIDE DEF new
<1>3. files' = [files EXCEPT ![path] = new]
  BY DEF ChangePlan, new
<1>4. IsRows(log')
  BY RecoveredRows, TwoRows DEF Typed, ChangePlan
<1>5. UNCHANGED <<repo, records, pc, mode, cur, acc, write, retries, iters, crashes>>
  BY DEF ChangePlan
<1>6. human' \in Nat
  BY DEF Typed, Interferes
<1> QED BY <1>2, <1>3, <1>4, <1>5, <1>6 DEF Typed, repo, records

LEMMA TypeStep ==
  ASSUME AcceptInv, [Next]_vars
  PROVE  Typed'
<1>0. Typed /\ CurFits
  BY CurIsFit DEF AcceptInv
<1> USE DEF Typed
<1>1. ASSUME Start \/ Stop \/ Expire \/ MarkerFails \/ GiveUp \/ ProjectResult \/ Settle \/
             Audit \/
             Crash
      PROVE  Typed'
  <2>1. NoAcc \in AccSet
    BY NoAccWritten, TreesFit, TreesAssumption
  <2>2. pc' \in Pcs /\ mode' \in {"live", "recovery"} /\ cur' \in 0 .. MaxIters /\ acc' \in {acc, NoAcc}
    BY <1>1, <1>0, AcceptBoundsAssumption
       DEF Start, Stop, Expire, MarkerFails, Fail, ShipFails, LiveTimed, RecoveryTimed, GiveUp,
           ProjectResult, Settle, Audit, Crash, Refuse, Pcs
  <2>3. UNCHANGED <<plan, repo, records, iters, human>>
    BY <1>1 DEF Start, Stop, Expire, MarkerFails, Fail, ShipFails, LiveTimed, RecoveryTimed,
                GiveUp, ProjectResult, Settle, Audit, Crash, counters
  <2> QED BY <1>0, <2>1, <2>2, <2>3 DEF plan, repo, records
<1>2. ASSUME Dispatch PROVE Typed'
  <2>1. IsRows(log') /\ DOMAIN contexts' = Iterations
    BY <1>2, <1>0, RecoveredRows DEF Dispatch
  <2>2. PICK b \in Budgets : iters + 1 <= b.iters
    BY <1>2 DEF Dispatch, Within
  <2>3. iters' \in 0 .. MaxIters /\ cur' \in 0 .. MaxIters
    BY <1>2, <1>0, <2>2, AcceptBoundsAssumption DEF Dispatch
  <2>4. acc' \in AccSet
    BY <1>2, NoAccWritten, TreesFit, TreesAssumption DEF Dispatch
  <2>5. pc' \in Pcs /\ mode' = "live"
    BY <1>2 DEF Dispatch, Pcs
  <2>6. UNCHANGED <<files, repo, history, receipts, closes, ledger, human>>
    BY <1>2 DEF Dispatch
  <2> QED BY <1>0, <2>1, <2>3, <2>4, <2>5, <2>6 DEF repo
<1>3. ASSUME WorkerTurn \/ EditTree PROVE Typed'
  BY <1>3, <1>0 DEF WorkerTurn, EditTree, Interferes, Pcs, plan, repo, records, counters
<1>4. ASSUME Validate \/ Revalidate \/ Committed \/ Recover \/ ResumeTransaction
      PROVE  Typed'
  <2>1. pc' \in Pcs
    BY <1>4 DEF Validate, Revalidate, Committed, Recover, ResumeTransaction, Refuse, Pcs
  <2>2. ASSUME Recover PROVE acc' \in AccSet
    <3>1. cur \in Iterations
      BY <2>2, <1>0 DEF CurFits, Recover, Between
    <3>2. receipts[cur] \in ReceiptSet \/ acc' = acc
      BY <2>2, <1>0, <3>1 DEF AcceptInv, OneOpen, Recover, Unfinished, Received
    <3>3. \A r \in ReceiptSet : [NoAcc EXCEPT !.tree = r.tree, !.measured = r.measured,
                                              !.head = r.head, !.made = r.made] \in AccSet
      BY ONLY AccReloaded, ReceiptFields
    <3> QED BY <2>2, <1>0, <3>2, <3>3 DEF Recover
  <2>3. acc' \in AccSet
    BY <1>4, <1>0, <2>2, TreesFit, AccTree, AccStatus, NoAccWritten
       DEF Validate, Revalidate, Committed, ResumeTransaction
  <2>4. UNCHANGED <<plan, repo, records, mode, cur, iters, human>>
    BY <1>4 DEF Validate, Revalidate, Committed, Recover, ResumeTransaction, counters
  <2> QED BY <1>0, <2>1, <2>3, <2>4 DEF plan, repo, records
<1>5. ASSUME Gate \/ Regate PROVE Typed'
  <2>1. PICK outcome \in GateOutcomes, t \in Trees : Measure(outcome, t)
    BY <1>5 DEF Gate, Regate
  <2>2. /\ history' = history \cup {Attempt(Context, work, outcome)} /\ work' \in Trees
        /\ acc' \in AccSet
    BY <1>0, <2>1, AccMeasured DEF Measure
  <2>3. \A a \in history' : a.tree \in Trees /\ a.outcome \in GateOutcomes
    BY <1>0, <2>2 DEF Attempt
  <2>4. pc' \in Pcs
    BY <1>5 DEF Gate, Regate, Refuse, Pcs
  <2>5. UNCHANGED <<plan, commits, index, contexts, receipts, closes, ledger, mode, cur, iters, human>>
    BY <1>5 DEF Gate, Regate, counters
  <2> QED BY <1>0, <2>2, <2>3, <2>4, <2>5 DEF plan
<1>6. ASSUME SaveIntent \/ Prepare \/ Advanced \/ Explain PROVE Typed'
  <2>0. cur \in Iterations /\ Context.base \in Nat
    BY <1>6, <1>0, TreesFit DEF CurFits, SaveIntent, Prepare, Advanced, Explain, Between
  <2>b. [acc EXCEPT !.head = Context.base] \in AccSet /\ [acc EXCEPT !.head = HEAD] \in AccSet
        /\ [acc EXCEPT !.head = acc.head] \in AccSet
    BY <1>0, <2>0, AccHead, TreesFit DEF CurFits
  <2>1. /\ acc' \in AccSet
        /\ \/ UNCHANGED receipts
           \/ \E phase \in {"commit-intent", "prepared", "advanced"}, a \in AccSet :
                SaveReceipt(phase, a)
    <3>1. CASE SaveIntent
      BY <3>1, <1>0, <2>b DEF SaveIntent
    <3>2. CASE Prepare
      BY <3>2, <1>0, <2>b DEF Prepare
    <3>3. CASE Advanced \/ Explain
      BY <3>3, <1>0 DEF Advanced, Explain
    <3> QED BY <1>6, <3>1, <3>2, <3>3
  <2>2. /\ DOMAIN receipts' = Iterations
        /\ \A i \in Iterations : receipts'[i] = NoReceipt \/ receipts'[i] \in ReceiptSet
    BY <1>0, <2>0, <2>1, ReceiptWritten DEF SaveReceipt
  <2>3. pc' \in Pcs
    BY <1>6 DEF SaveIntent, Prepare, Advanced, Explain, Refuse, Pcs
  <2>4. UNCHANGED <<plan, repo, history, contexts, closes, ledger, mode, cur, iters, human>>
    BY <1>6 DEF SaveIntent, Prepare, Advanced, Explain, counters
  <2> QED BY <1>0, <2>1, <2>2, <2>3, <2>4 DEF plan, repo
<1>7. ASSUME Stage \/ Reintend PROVE Typed'
  <2>1. index' \in Trees /\ pc' \in Pcs
    BY <1>7, <1>0 DEF Stage, Reintend, Refuse, Pcs
  <2>2. acc' \in AccSet
    <3>1. acc' = acc \/ acc' = [acc EXCEPT !.made = TRUE, !.head = HEAD]
      BY <1>7 DEF Stage, Reintend
    <3>2. acc \in AccSet /\ HEAD \in Nat
      BY <1>0 DEF CurFits
    <3>3. [acc EXCEPT !.made = TRUE, !.head = HEAD] \in AccSet
      BY ONLY <3>2, AccMade
    <3> QED BY <3>1, <3>2, <3>3
  <2>3. UNCHANGED <<plan, commits, work, records, mode, cur, iters, human>>
    BY <1>7 DEF Stage, Reintend, counters
  <2> QED BY <1>0, <2>1, <2>2, <2>3 DEF plan, records
<1>8. ASSUME Commit \/ ShipMarker \/ CommitTree PROVE Typed'
  <2>1. ASSUME Commit \/ ShipMarker, NEW kind \in {"step", "ship"}, NEW t \in Trees
        PROVE  [tree |-> t, kind |-> kind, step |-> Context.step, iter |-> cur] \in Commits
    <3>1. Context.step \in 0 .. Steps
      BY <2>1, TreesFit, AcceptBoundsAssumption DEF Commit, ShipMarker, Between
    <3> QED BY <2>1, <1>0, <3>1 DEF Commits
  <2>2. [tree |-> work, kind |-> "other", step |-> 0, iter |-> 0] \in Commits
    BY <1>0, AcceptBoundsAssumption DEF Commits
  <2>3. UNCHANGED commits \/ \E c \in Commits : commits' = Append(commits, c)
    BY <1>8, <1>0, <2>1, <2>2 DEF Commit, ShipMarker, CommitTree, repo
  <2>4. commits' \in Seq(Commits) /\ Len(commits') > 0
    BY <1>0, <2>3, CommitAppended DEF HEAD
  <2>5. index' \in Trees /\ work' \in Trees
    BY <1>8, <1>0, TreesFit DEF Commit, ShipMarker, CommitTree, repo
  <2>6. acc' \in AccSet
    <3>1. acc' = acc \/ acc' = [acc EXCEPT !.made = TRUE, !.head = HEAD + 1]
      BY <1>8 DEF Commit, ShipMarker, CommitTree
    <3>2. HEAD + 1 \in Nat
      BY <1>0 DEF CurFits
    <3>3. acc \in AccSet
      BY <1>0
    <3>4. [acc EXCEPT !.made = TRUE, !.head = HEAD + 1] \in AccSet
      BY ONLY <3>2, <3>3, AccMade
    <3> QED BY <3>1, <3>3, <3>4
  <2>7. pc' \in Pcs /\ human' \in Nat
    BY <1>8, <1>0 DEF Commit, ShipMarker, CommitTree, Refuse, ShipFails, Interferes, Pcs, counters
  <2>8. UNCHANGED <<plan, records, mode, cur, iters>>
    BY <1>8 DEF Commit, ShipMarker, CommitTree, counters
  <2> QED BY <1>0, <2>4, <2>5, <2>6, <2>7, <2>8 DEF plan, records
<1>9. ASSUME Advance \/ ShipStatus \/ ImportFindings \/ CompleteMaster PROVE Typed'
  <2>1. IsRows(log') /\ pc' \in Pcs
    <3>1. \/ UNCHANGED log /\ pc' \in Pcs
          \/ \E path, guard, actor, from, to, after, then :
               BeginWrite(path, guard, actor, from, to, after, then)
      BY <1>9 DEF Advance, ShipStatus, ImportFindings, CompleteMaster, Begin, Refuse, ShipFails,
               AfterShip, Pcs
    <3>2. ASSUME NEW path, NEW guard, NEW actor, NEW from, NEW to, NEW after, NEW then,
                 BeginWrite(path, guard, actor, from, to, after, then)
          PROVE  IsRows(log') /\ pc' \in Pcs
      BY <1>0, <3>2, RecoveredRows, AppendRow DEF BeginWrite, Settled, Pcs
    <3> QED BY <1>0, <3>1, <3>2
  <2>2. UNCHANGED <<files, repo, records, mode, cur, acc, iters, human>>
    BY <1>9 DEF Advance, ShipStatus, ImportFindings, CompleteMaster, counters
  <2> QED BY <1>0, <2>1, <2>2 DEF repo, records
<1>10. ASSUME Replace PROVE Typed'
  BY <1>10, <1>0 DEF Replace, AcceptInv, WriteFits, Writing, Pcs, repo, records, counters
<1>11. ASSUME Finish PROVE Typed'
  <2>1. IsRows(log')
    BY <1>11, <1>0, AppendRow DEF Finish
  <2>2. pc' \in Pcs
    BY <1>11 DEF Finish, AcceptInv, WriteFits, Writing, Thens, Pcs
  <2> QED BY <1>11, <1>0, <2>1, <2>2 DEF Finish, repo, records, counters
<1>12. ASSUME Scan \/ RecordProof \/ ProjectClose PROVE Typed'
  <2>1. \A i \in Iterations : Projected(i) \in Verdicts
    BY <1>0 DEF Projected, Verdicts
  <2>2. ledger' \in [Iterations -> Verdicts]
    BY <1>12, <1>0, <2>1 DEF Scan, RecordProof, ProjectClose, Verdicts
  <2>3. pc' \in Pcs /\ cur' \in 0 .. MaxIters
    BY <1>12, <1>0, AcceptBoundsAssumption
       DEF Scan, RecordProof, ProjectClose, Unfinished, Received, Iterations, Pcs
  <2>4. UNCHANGED <<plan, repo, history, contexts, receipts, closes, mode, acc, iters, human>>
    BY <1>12 DEF Scan, RecordProof, ProjectClose, counters
  <2> QED BY <1>0, <2>2, <2>3, <2>4 DEF plan, repo
<1>13. ASSUME Close \/ CloseRefused PROVE Typed'
  <2>1. PICK result \in {"passed", "failed", "red"}, t \in Trees : CloseAs(result, t)
    BY <1>13, TreesFit DEF Close, CloseRefused
  <2>2. /\ DOMAIN closes' = Iterations
        /\ \A i \in Iterations : closes'[i].result \in {"none", "passed", "failed", "red"}
    BY <1>0, <2>1 DEF CloseAs
  <2>3. UNCHANGED <<plan, repo, history, contexts, receipts, ledger, mode, cur, acc, iters, human>>
    BY <1>13 DEF Close, CloseRefused, counters
  <2> QED BY <1>13, <1>0, <2>2, <2>3 DEF Close, CloseRefused, Pcs, plan, repo
<1>14. ASSUME ParkMaster PROVE Typed'
  <2>1. files[Master].contract \in Nat
    BY <1>0, ContentFields
  <2> QED BY <1>14, <1>0, <2>1, PlanChanged DEF ParkMaster, Statuses, HeldStatuses, Holds
<1>15. ASSUME UnparkMaster PROVE Typed'
  <2>1. files[Master].contract \in Nat
    BY <1>0, ContentFields
  <2> QED BY <1>15, <1>0, <2>1, PlanChanged DEF UnparkMaster, Statuses, HeldStatuses, Holds
<1>16. ASSUME ReturnReds PROVE Typed'
  <2>1. files[Sub].contract + 1 \in Nat /\ Steps - 1 \in 0 .. Steps
    BY <1>0, ContentFields, AcceptBoundsAssumption
  <2> DEFINE to == [status |-> "in-progress", current_step |-> Steps - 1]
  <2>2. /\ DOMAIN to = {"status", "current_step"} /\ to.current_step = Steps - 1
        /\ to.status \in Statuses
    BY DEF Statuses
  <2> HIDE DEF to
  <2>3. Interferes /\ ChangePlan(Sub, to, files[Sub].contract + 1)
    BY <1>16 DEF ReturnReds, to
  <2> QED BY <1>0, <2>1, <2>2, <2>3, PlanChanged
<1>17. ASSUME UNCHANGED vars PROVE Typed'
  BY <1>17, <1>0 DEF vars, plan, repo, records, counters
<1> QED BY <1>1, <1>2, <1>3, <1>4, <1>5, <1>6, <1>7, <1>8, <1>9, <1>10, <1>11, <1>12,
           <1>13, <1>14, <1>15, <1>16, <1>17
       DEF Next, AcceptanceStep, RecoveryStep, CloseStep, Interference

-----------------------------------------------------------------------------
(* Every step is one of the moves.                                          *)

\* A green verdict leaves only passes in the history of the tree it measured.
LEMMA GreenIsGated ==
  ASSUME Typed, NEW outcome, NEW t, Measure(outcome, t),
         Verdict(Outcomes(Context, work), outcome, t = work) = "green"
  PROVE  GatedIn(history', Context, work)
<1>1. Outcomes(Context, work) \cup {outcome} = {"pass"}
  BY DEF Verdict
<1>2. history' = history \cup {Attempt(Context, work, outcome)}
  BY DEF Measure
<1>3. /\ Attempt(Context, work, outcome).inputs = Inputs(Context)
      /\ Attempt(Context, work, outcome).tree = work
      /\ Attempt(Context, work, outcome).outcome = outcome
  BY DEF Attempt
<1> QED BY <1>1, <1>2, <1>3 DEF GatedIn, Outcomes

LEMMA HeadIsNotOvertaken ==
  ASSUME NEW a, AtTransactionHead(a)
  PROVE  ~Overtaken(commits, a.head)
  BY DEF AtTransactionHead, Overtaken, HEAD

LEMMA ReceiptSaved ==
  ASSUME Typed, cur \in Iterations, NEW a \in AccSet,
         NEW phase \in {"commit-intent", "prepared", "advanced"}, SaveReceipt(phase, a)
  PROVE  /\ \A i \in Iterations : i # cur => receipts'[i] = receipts[i]
         /\ receipts'[cur] # NoReceipt /\ receipts'[cur].phase = phase
         /\ receipts'[cur].tree = a.tree /\ receipts'[cur].measured = a.measured
         /\ receipts'[cur].head = a.head /\ receipts'[cur].made = a.made
<1>1. receipts'[cur] = Receipt(phase, a)
  BY DEF SaveReceipt, Typed
<1>2. \A i \in Iterations : i # cur => receipts'[i] = receipts[i]
  BY DEF SaveReceipt, Typed
<1> QED BY <1>1, <1>2, ReceiptWritten

LEMMA StepMoves ==
  ASSUME AcceptInv, [Next]_vars
  PROVE  Moves
<1>0. Typed /\ CurFits
  BY CurIsFit DEF AcceptInv
<1> USE DEF Moves, plan, repo, records, counters, Quiet, Later, Between, Refuse,
            Rests, Ends, Fails, Proceeds
<1>1. ASSUME Start \/ Stop \/ Expire \/ MarkerFails \/ GiveUp \/ ProjectResult \/ Settle \/
             Audit \/
             RecordProof \/ Crash
      PROVE  Rests
  BY <1>1 DEF Start, Stop, Expire, MarkerFails, Fail, ShipFails, LiveTimed, RecoveryTimed, GiveUp,
              ProjectResult, Settle, Audit, RecordProof,
              Crash
<1>2. ASSUME Scan PROVE Rests \/ Readies \/ Finds
  BY <1>2 DEF Scan, Rests, Readies, Finds
<1>3. ASSUME Dispatch PROVE Dispatches
  <2>1. PICK b \in Budgets : iters + 1 <= b.iters
    BY <1>3 DEF Dispatch, Within
  <2>2. iters + 1 \in Iterations /\ HEAD \in Nat /\ HEAD > 0
    BY <1>0, <2>1, AcceptBoundsAssumption DEF Typed, CurFits, Iterations, HEAD
  <2>3. \E c : /\ c.base = HEAD /\ c.step = files[Sub].current_step
               /\ contexts' = [contexts EXCEPT ![iters + 1] = c]
    BY <1>3 DEF Dispatch
  <2>4. /\ contexts'[iters + 1].base = HEAD /\ contexts'[iters + 1].step = files[Sub].current_step
        /\ \A i \in Iterations : i # iters + 1 => contexts'[i] = contexts[i]
    BY <1>0, <2>2, <2>3 DEF Typed
  <2>5. files[Sub].current_step \in 0 .. Steps - 1
    BY <1>3, <1>0, ContentFields, AcceptBoundsAssumption DEF Dispatch, Typed
  <2>6. contexts'[iters + 1] # NoContext
    BY <2>2, <2>4 DEF NoContext
  <2> QED BY <1>3, <2>2, <2>4, <2>5, <2>6 DEF Dispatch, Dispatches
<1>4. ASSUME WorkerTurn PROVE Rests \/ Turns
  BY <1>4 DEF WorkerTurn, Rests, Turns
<1>5. ASSUME Validate PROVE Rests \/ Turns
  <2>1. pc' = "gate" => acc'.made = FALSE
    BY <1>5, NoAccWritten, TreesFit DEF Validate
  <2> QED BY <1>5, <2>1 DEF Validate, Rests, Turns
<1>6. ASSUME Gate PROVE Gates
  <2>1. PICK outcome \in GateOutcomes, t \in Trees :
          /\ Measure(outcome, t)
          /\ pc' \in {"revalidate", "red", "closing", "dispatched"}
          /\ pc' = "revalidate" =>
               Verdict(Outcomes(Context, work), outcome, t = work) = "green"
    BY <1>6 DEF Gate
  <2>2. acc'.measured = work /\ acc'.made = acc.made
    BY <1>0, <2>1, AccMeasured DEF Measure, Typed
  <2>3. pc' = "revalidate" => GatedIn(history', Context, acc'.measured)
    BY <1>0, <2>1, <2>2, GreenIsGated
  <2> QED BY <1>6, <2>1, <2>2, <2>3 DEF Gate, Gates, MeasuresOnly
<1>7. ASSUME Revalidate PROVE Rests \/ Revalidates
  <2>1. acc \in AccSet /\ acc.measured \in Trees
    BY <1>0, TreesFit DEF Typed
  <2>2. LET a == [acc EXCEPT !.tree = acc.measured] IN
        a.tree = acc.measured /\ a.measured = acc.measured /\ a.made = acc.made
    BY ONLY <2>1, AccTree
  <2> QED BY <1>7, <2>2 DEF Revalidate, Rests, Revalidates
<1>8. ASSUME SaveIntent PROVE Promises
  <2> DEFINE a == [acc EXCEPT !.head = Context.base]
  <2>1. cur \in Iterations /\ Context.base \in Nat /\ acc \in AccSet
    BY <1>8, <1>0, TreesFit DEF SaveIntent, CurFits, Typed
  <2>2. /\ a \in AccSet /\ a.tree = acc.tree /\ a.measured = acc.measured
        /\ a.head = Context.base /\ a.made = acc.made
    BY <2>1, AccHead
  <2> HIDE DEF a
  <2>3. SaveReceipt("commit-intent", a)
    BY <1>8 DEF SaveIntent, a
  <2> QED BY <1>8, <1>0, <2>1, <2>2, <2>3, ReceiptSaved DEF SaveIntent, Promises, Receives
<1>9. ASSUME Stage PROVE Rests \/ Stages
  BY <1>9 DEF Stage, Rests, Stages
<1>10. ASSUME Commit PROVE Rests \/ MakesCommit
  <2>1. CASE pc' = "committed" /\ acc' = [acc EXCEPT !.made = TRUE, !.head = HEAD + 1]
    <3>1. PICK t \in Trees : commits' = Append(commits, [tree |-> t, kind |-> "step",
                                                step |-> Context.step, iter |-> cur])
      BY <1>10, <2>1 DEF Commit
    <3>2. /\ Len(commits') = HEAD + 1 /\ \A n \in 1 .. HEAD : commits'[n] = commits[n]
          /\ commits'[HEAD + 1].kind = "step" /\ commits'[HEAD + 1].iter = cur
      BY <1>0, <3>1, CommitAppended DEF Typed
    <3>3. acc \in AccSet /\ HEAD + 1 \in Nat
      BY <1>0 DEF Typed, CurFits
    <3>4. acc'.tree = acc.tree /\ acc'.measured = acc.measured
      BY ONLY <2>1, <3>3, AccMade
    <3> QED BY <1>10, <2>1, <3>2, <3>4 DEF Commit, MakesCommit, Appends
  <2>2. CASE UNCHANGED <<repo, acc>> /\ Refuse
    BY <1>10, <2>2 DEF Commit, Rests
  <2> QED BY <1>10, <2>1, <2>2 DEF Commit
<1>11. ASSUME Committed PROVE Rests \/ Checks
  <2>1. acc \in AccSet /\ HeadTree \in Trees
    BY <1>0, TreesFit DEF Typed
  <2>2. LET a == [acc EXCEPT !.tree = HeadTree] IN
        /\ a.tree = HeadTree /\ a.measured = acc.measured
        /\ a.head = acc.head /\ a.made = acc.made
    BY ONLY <2>1, AccTree
  <2> QED BY <1>11, <2>2 DEF Committed, Rests, Checks
<1>12. ASSUME Regate PROVE Regates \/ RegatesRed
  <2>1. PICK outcome \in GateOutcomes, t \in Trees :
          /\ Measure(outcome, t)
          /\ IF Verdict(Outcomes(Context, work), outcome, t = work) = "green"
             THEN pc' = "prepare" ELSE Refuse
    BY <1>12 DEF Regate
  <2>2. /\ acc'.measured = work /\ acc'.tree = acc.tree
        /\ acc'.made = acc.made /\ acc'.head = acc.head
    BY <1>0, <2>1, AccMeasured DEF Measure, Typed
  <2>3. pc' = "prepare" => GatedIn(history', Context, acc'.measured)
    BY <1>0, <2>1, <2>2, GreenIsGated
  <2> QED BY <1>12, <2>1, <2>2, <2>3 DEF Regate, Regates, RegatesRed, MeasuresOnly
<1>13. ASSUME Prepare PROVE Rests \/ Prepares
  <2> DEFINE n == IF mode = "live" THEN HEAD ELSE acc.head
             a == [acc EXCEPT !.head = n]
  <2>1. cur \in Iterations /\ acc \in AccSet /\ n \in Nat /\ (mode # "live" => n = acc.head)
    BY <1>13, <1>0, TreesFit DEF Prepare, CurFits, Typed
  <2>2. \/ /\ acc' = a /\ SaveReceipt("prepared", a) /\ Valid
           /\ pc' = IF mode = "live" THEN "advance" ELSE "transaction"
        \/ UNCHANGED <<acc, receipts>> /\ Refuse
    BY <1>13 DEF Prepare
  <2> HIDE DEF n
  <2>3. /\ a \in AccSet /\ a.tree = acc.tree /\ a.measured = acc.measured
        /\ a.head = n /\ a.made = acc.made
    BY <2>1, AccHead
  <2> HIDE DEF a
  <2>5. n = IF mode = "live" THEN HEAD ELSE acc.head
    BY DEF n
  <2>4. CASE /\ acc' = a /\ SaveReceipt("prepared", a) /\ Valid
             /\ pc' = IF mode = "live" THEN "advance" ELSE "transaction"
    <3>1. Receives("prepared", a.head)
      BY <1>13, <1>0, <2>1, <2>3, <2>4, ReceiptSaved DEF Prepare, Receives
    <3> QED BY <1>13, <2>3, <2>4, <2>5, <3>1 DEF Prepare, Prepares
  <2>6. CASE UNCHANGED <<acc, receipts>> /\ Refuse
    BY <1>13, <2>6 DEF Prepare, Rests
  <2> QED BY <2>2, <2>4, <2>6
<1>14. ASSUME Advance PROVE Rests \/ Begins
  <2> DEFINE from == [current_step |-> Context.step, status |-> acc.status]
             to == [current_step |-> Context.step + 1, status |-> "in-progress"]
             then == IF mode = "live" THEN "advanced" ELSE "explain"
  <2>1. files[Sub] \in ContentSet /\ Context.step + 1 \in 0 .. Steps
    BY <1>14, <1>0, TreesFit DEF Advance, Typed
  <2>2. DOMAIN to = {"current_step", "status"} /\ to.status \in Statuses /\ to.current_step \in 0 .. Steps
    BY <2>1 DEF Statuses
  <2>3. then \in {"advanced", "explain"}
    OBVIOUS
  <2>4. \/ Begin(Sub, Master, from, to, then)
        \/ Refuse /\ UNCHANGED log
    BY <1>14 DEF Advance
  <2> HIDE DEF from, to, then
  <2>5. Project(files[Sub], to) \in ContentSet
    BY <2>1, <2>2, ContentWritten
  <2>6. CASE Begin(Sub, Master, from, to, then)
    BY <1>14, <1>0, <2>3, <2>5, <2>6, WriteBegun DEF Begin, Advance, Begins, PlanOnly, Typed, Thens
  <2>7. CASE Refuse /\ UNCHANGED log
    BY <1>14, <2>7 DEF Advance, Rests
  <2> QED BY <2>4, <2>6, <2>7
<1>15. ASSUME Replace PROVE Replaces
  BY <1>15 DEF Replace, Replaces, PlanOnly
<1>16. ASSUME Finish PROVE Finishes
  BY <1>16 DEF Finish, Finishes, PlanOnly
<1>17. ASSUME Advanced PROVE Records
  BY <1>17, <1>0, ReceiptSaved, TreesFit DEF Advanced, Records, CurFits, Typed, Receives
<1>18. ASSUME ImportFindings PROVE Rests \/ Begins
  <2> DEFINE state == [status |-> files[Sub].status]
             after == [files[Sub] EXCEPT !.notes = files[Sub].notes + 1]
  <2>1. files[Sub] \in ContentSet
    BY <1>0 DEF Typed
  <2>2. after \in ContentSet /\ after.current_step = files[Sub].current_step
    BY <2>1, NotesWritten
  <2>3. \/ BeginWrite(Sub, Sub, "integrity-repair", state, state, after, "project")
        \/ UNCHANGED log /\ (pc' = "project" \/ Refuse)
    BY <1>18 DEF ImportFindings
  <2> HIDE DEF state, after
  <2>4. CASE BeginWrite(Sub, Sub, "integrity-repair", state, state, after, "project")
    BY <1>18, <1>0, <2>2, <2>4, WriteBegun DEF ImportFindings, Begins, PlanOnly, Typed, Thens
  <2>5. CASE UNCHANGED log /\ (pc' = "project" \/ Refuse)
    BY <1>18, <2>5 DEF ImportFindings, Rests
  <2> QED BY <2>3, <2>4, <2>5
<1>19. ASSUME Recover PROVE Rests \/ Reloads
  <2>1. cur \in Iterations /\ receipts[cur] \in ReceiptSet
    BY <1>19, <1>0 DEF Recover, CurFits, Typed, AcceptInv, OneOpen, Unfinished, Received
  <2>2. ASSUME NEW r \in ReceiptSet
        PROVE  LET a == [NoAcc EXCEPT !.tree = r.tree, !.measured = r.measured,
                                      !.head = r.head, !.made = r.made] IN
               /\ a.tree = r.tree /\ a.measured = r.measured
               /\ a.head = r.head /\ a.made = r.made
    BY DEF NoAcc
  <2> QED BY <1>19, <2>1, <2>2 DEF Recover, Rests, Reloads, Recoverable
<1>20. ASSUME Reintend PROVE Rests \/ Stages \/ Adopts
  <2>1. acc \in AccSet /\ HEAD \in Nat
    BY <1>0 DEF Typed, CurFits
  <2>2. LET a == [acc EXCEPT !.made = TRUE, !.head = HEAD] IN
        /\ a.tree = acc.tree /\ a.measured = acc.measured
        /\ a.head = HEAD /\ a.made = TRUE
    BY ONLY <2>1, AccMade
  <2> QED BY <1>20, <2>2 DEF Reintend, Rests, Stages, Adopts, OwnCommit
<1>21. ASSUME ResumeTransaction PROVE Rests \/ Resumes
  <2>1. acc \in AccSet /\ files[Sub].status \in Statuses
    BY <1>0, TreesFit DEF Typed
  <2>2. LET a == [acc EXCEPT !.status = files[Sub].status] IN
        /\ a.tree = acc.tree /\ a.measured = acc.measured
        /\ a.head = acc.head /\ a.made = acc.made
    BY ONLY <2>1, AccStatus
  <2>3. \/ AtTransactionHead(acc) /\ Valid /\ pc' = "advance"
        \/ AtTransactionHead(acc) /\ AlreadyAdvanced /\ pc' = "explain"
        \/ Refuse
    BY <1>21 DEF ResumeTransaction
  <2>4. CASE Refuse
    BY <1>21, <2>4 DEF ResumeTransaction
  <2>5. CASE AtTransactionHead(acc) /\ pc' \in {"advance", "explain"}
    <3>1. ~Overtaken(commits, acc.head)
      BY <2>5, HeadIsNotOvertaken
    <3>2. /\ acc'.tree = acc.tree /\ acc'.measured = acc.measured
          /\ acc'.head = acc.head /\ acc'.made = acc.made
      BY <1>21, <2>2 DEF ResumeTransaction
    <3>3. (pc' = "advance" /\ Valid) \/ (pc' = "explain" /\ AlreadyAdvanced)
      BY <2>3, <2>5 DEF Refuse
    <3> QED BY <1>21, <3>1, <3>2, <3>3 DEF ResumeTransaction, Resumes
  <2> QED BY <2>3, <2>4, <2>5
<1>22. ASSUME Explain PROVE Rests \/ Records
  BY <1>22, <1>0, ReceiptSaved, TreesFit DEF Explain, Rests, Records, CurFits, Typed,
         Receives
<1>23. ASSUME CompleteMaster PROVE Rests \/ Readies \/ Begins
  <2> DEFINE from == [status |-> files[Master].status]
             to == [status |-> "shipped"]
  <2>1. files[Master] \in ContentSet
    BY <1>0 DEF Typed
  <2>2. DOMAIN to = {"status"} /\ to.status \in Statuses
    BY DEF Statuses
  <2>3. \/ Begin(Master, Sub, from, to, "ready")
        \/ UNCHANGED log /\ (pc' = "ready" \/ Refuse)
    BY <1>23 DEF CompleteMaster
  <2> HIDE DEF from, to
  <2>4. /\ Project(files[Master], to) \in ContentSet
        /\ Project(files[Master], to).current_step = files[Master].current_step
    BY <2>1, <2>2, ContentWritten
  <2>5. CASE Begin(Master, Sub, from, to, "ready")
    BY <1>23, <1>0, <2>4, <2>5, WriteBegun DEF Begin, CompleteMaster, Begins, PlanOnly, Typed, Thens
  <2>6. CASE UNCHANGED log /\ (pc' = "ready" \/ Refuse)
    BY <1>23, <2>6 DEF CompleteMaster, Rests, Readies, AcceptInv, OneOpen, ReceiptFits
  <2> QED BY <2>3, <2>5, <2>6
<1>24. ASSUME ShipMarker PROVE Rests \/ Marks
  <2>1. CASE /\ pc' = "status"
             /\ \E t \in Trees :
                  commits' = Append(commits, [tree |-> t, kind |-> "ship",
                                              step |-> Context.step, iter |-> cur])
    <3>1. /\ Len(commits') = HEAD + 1 /\ \A n \in 1 .. HEAD : commits'[n] = commits[n]
          /\ commits'[HEAD + 1].kind = "ship"
      BY <1>0, <2>1, CommitAppended DEF Typed
    <3> QED BY <1>24, <2>1, <3>1 DEF ShipMarker, Marks, Appends
  <2>2. CASE UNCHANGED repo /\ (pc' = "status" \/ ShipFails)
    BY <1>24, <2>2 DEF ShipMarker, Rests, ShipFails
  <2> QED BY <1>24, <2>1, <2>2 DEF ShipMarker
<1>25. ASSUME ShipStatus PROVE Rests \/ Begins
  <2> DEFINE from == [status |-> files[Sub].status]
             to == [status |-> "shipped"]
  <2>1. files[Sub] \in ContentSet
    BY <1>0 DEF Typed
  <2>2. DOMAIN to = {"status"} /\ to.status \in Statuses
    BY DEF Statuses
  <2>3. \/ Begin(Sub, Sub, from, to, AfterShip)
        \/ UNCHANGED log /\ (pc' = AfterShip \/ ShipFails)
    BY <1>25 DEF ShipStatus
  <2>4. AfterShip \in {"audit", "settle"}
    BY DEF AfterShip
  <2> HIDE DEF from, to
  <2>5. /\ Project(files[Sub], to) \in ContentSet
        /\ Project(files[Sub], to).current_step = files[Sub].current_step
    BY <2>1, <2>2, ContentWritten
  <2>6. CASE Begin(Sub, Sub, from, to, AfterShip)
    BY <1>25, <1>0, <2>4, <2>5, <2>6, WriteBegun DEF Begin, ShipStatus, Begins, PlanOnly, Typed, Thens
  <2>7. CASE UNCHANGED log /\ (pc' = AfterShip \/ ShipFails)
    BY <1>25, <2>4, <2>7 DEF ShipStatus, Rests, ShipFails
  <2> QED BY <2>3, <2>6, <2>7
<1>26. ASSUME Close \/ CloseRefused PROVE Concludes
  <2>1. PICK result \in {"passed", "failed", "red"} :
          (\E t : CloseAs(result, t)) /\ (result = "passed" => pc = "close")
    BY <1>26 DEF Close, CloseRefused
  <2>2. cur \in Iterations
    BY <1>26, <1>0 DEF Close, CloseRefused, CurFits
  <2>3. closes'[cur].result = result /\ \A i \in Iterations : i # cur => closes'[i] = closes[i]
    BY <1>0, <2>1, <2>2 DEF CloseAs, Typed
  <2>4. closes'[cur] # NoClose
    BY <2>3 DEF NoClose
  <2> QED BY <1>26, <2>1, <2>3, <2>4 DEF Close, CloseRefused, Concludes
<1>27. ASSUME ProjectClose PROVE Rests \/ Readies
  <2>1. Unfinished = {}
    BY <1>27 DEF ProjectClose, AcceptInv, OneOpen, Unfinished
  <2> QED BY <1>27, <2>1 DEF ProjectClose, Rests, Readies
<1>28. ASSUME ParkMaster \/ UnparkMaster \/ ReturnReds PROVE Replans
  BY <1>28 DEF ParkMaster, UnparkMaster, ReturnReds, Replans, ChangePlan, Interferes,
               PlanOnly, Writing
<1>29. ASSUME EditTree PROVE Idles
  BY <1>29 DEF EditTree, Idles, Interferes, PlanOnly
<1>30. ASSUME CommitTree PROVE Overtakes
  <2>1. /\ Len(commits') = HEAD + 1 /\ \A n \in 1 .. HEAD : commits'[n] = commits[n]
        /\ commits'[HEAD + 1].kind = "other"
    BY <1>30, <1>0, CommitAppended DEF CommitTree, Typed
  <2> QED BY <1>30, <2>1 DEF CommitTree, Overtakes, Appends, Interferes
<1>31. ASSUME UNCHANGED vars PROVE Idles
  BY <1>31 DEF vars, Idles, PlanOnly
<1> QED BY <1>1, <1>2, <1>3, <1>4, <1>5, <1>6, <1>7, <1>8, <1>9, <1>10, <1>11, <1>12,
           <1>13, <1>14, <1>15, <1>16, <1>17, <1>18, <1>19, <1>20, <1>21, <1>22, <1>23,
           <1>24, <1>25, <1>26, <1>27, <1>28, <1>29, <1>30, <1>31
       DEF Next, AcceptanceStep, RecoveryStep, CloseStep, Interference

-----------------------------------------------------------------------------
(* The invariant, and what it says of the runs.                             *)

LEMMA InitHolds == Init => AcceptInv
<1> SUFFICES ASSUME Init PROVE AcceptInv
  OBVIOUS
<1> USE DEF Init
<1>1. /\ MaxIters \in Nat \ {0} /\ Steps \in Nat \ {0} /\ BaseTree \in Trees
      /\ pc \in Between /\ pc = "down"
  BY AcceptBoundsAssumption, TreesAssumption DEF Between
<1>2. commits \in Seq(Commits) /\ Len(commits) = 1 /\ commits[1].kind = "base"
  <2>1. Commit0 \in Commits /\ Commit0.kind = "base"
    BY <1>1 DEF Commit0, Commits
  <2> QED BY <2>1
<1>3. \A x \in {Sub, Master} : files[x] \in ContentSet
  BY <1>1 DEF Content, ContentSet, Statuses, HeldStatuses, Holds
<1>4. Received = {} /\ Unfinished = {}
  BY DEF Received, Unfinished
<1>5. Typed
  <2>1. IsRows(log)
    BY DEF IsRows
  <2>2. \A i \in Iterations : closes[i].result = "none"
    BY DEF NoClose
  <2> QED BY <1>1, <1>2, <1>3, <2>1, <2>2, NoAccWritten DEF Typed, Verdicts, Pcs
<1>6. Numbered
  BY <1>1 DEF Numbered, Iterations
<1>7. OneOpen
  BY <1>1, <1>4, 0 \in Nat DEF OneOpen, Writing, Between
<1>8. ReceiptFits /\ AsMeasured
  BY <1>1 DEF ReceiptFits, AsMeasured, Early, Unprepared, Advancing, Writing
<1>9. ReceiptsGated /\ AccGated
  BY <1>1, <1>4 DEF ReceiptsGated, AccGated, Advancing, Writing
<1>10. WriteFits
  BY <1>1 DEF WriteFits, Writing
<1>11. CommitsFollow
  BY <1>1, <1>2 DEF CommitsFollow, HEAD, Uncommitted, Early
<1> QED BY <1>5, <1>6, <1>7, <1>8, <1>9, <1>10, <1>11 DEF AcceptInv

LEMMA InvStep == AcceptInv /\ [Next]_vars => AcceptInv'
<1> SUFFICES ASSUME AcceptInv, [Next]_vars PROVE AcceptInv'
  OBVIOUS
<1>1. Typed' /\ Moves
  BY TypeStep, StepMoves
<1> QED BY <1>1, NumberedStep, OneOpenStep, ReceiptFitsStep, ReceiptsGatedStep, AccGatedStep,
           AsMeasuredStep, WriteFitsStep, CommitsFollowStep DEF AcceptInv

\* Whatever is interrupted, recovered or interfered with: one iteration is open
\* at a time, its receipt and the acceptance at work hold a tree whose every gate
\* attempt passed or one that no recovery can go on from, and what is measured
\* is what is accepted.
THEOREM AcceptInductive == Spec => []AcceptInv
<1>1. Init => AcceptInv
  BY InitHolds
<1>2. AcceptInv /\ [Next]_vars => AcceptInv'
  BY InvStep
<1> QED BY <1>1, <1>2, PTL DEF Spec

\* Every value the driver and its recovery record is one its readers know.
THEOREM AcceptTypeCorrect == Spec => []TypeOK
<1>1. AcceptInv => TypeOK
  <2> SUFFICES ASSUME AcceptInv PROVE TypeOK
    OBVIOUS
  <2>1. Typed
    BY DEF AcceptInv
  <2>2. \A x \in {Sub, Master} : files[x].current_step \in 0 .. Steps /\ files[x].status \in Statuses
    BY TreesFit
  <2>3. \A i \in Received : receipts[i].phase \in {"commit-intent", "prepared", "advanced"}
    BY <2>1, ReceiptFields DEF Typed, Received
  <2> QED BY <2>1, <2>2, <2>3 DEF Typed, TypeOK, HEAD
<1> QED BY <1>1, AcceptInductive, PTL

\* A start finds at most one acceptance that a receipt opened and no close
\* record ended: recover_pending never refuses for ambiguity.
THEOREM OneTransactionAtATime == Spec => []OneUnfinished
<1>1. AcceptInv => OneUnfinished
  <2> SUFFICES ASSUME AcceptInv PROVE OneUnfinished
    OBVIOUS
  <2>1. PICK i \in Nat : Unfinished \subseteq {i}
    BY DEF AcceptInv, OneOpen
  <2>2. Unfinished = {} \/ Unfinished = {i}
    BY <2>1
  <2>3. Cardinality({}) = 0 /\ Cardinality({i}) = 1
    BY FS_EmptySet, FS_Singleton
  <2> QED BY <2>2, <2>3 DEF OneUnfinished
<1> QED BY <1>1, AcceptInductive, PTL

\* An iteration commits at most once, however often the driver is killed and
\* recovers it: the recovery of a commit intent commits only at the base the
\* iteration was dispatched from, and adopts the commit it finds above it.
THEOREM IterationsCommitOnce == Spec => []CommitsOnce
<1>1. AcceptInv => CommitsOnce
  <2> SUFFICES ASSUME AcceptInv, NEW i \in Dispatched PROVE Cardinality(OwnCommits(i)) <= 1
    BY DEF CommitsOnce
  <2>1. \A n, m \in OwnCommits(i) : n = m
    BY DEF AcceptInv, CommitsFollow, OwnCommits
  <2>2. OwnCommits(i) = {} \/ \E n \in OwnCommits(i) : OwnCommits(i) = {n}
    BY <2>1
  <2>3. Cardinality({}) = 0 /\ \A n \in OwnCommits(i) : Cardinality({n}) = 1
    BY FS_EmptySet, FS_Singleton
  <2> QED BY <2>2, <2>3
<1> QED BY <1>1, AcceptInductive, PTL

\* The driver moves the pointer only for a tree whose every gate attempt under the
\* frozen inputs passed, live or recovered; and unless somebody interfered that
\* is the tree of the commit it accepts.
THEOREM PointerMovesGated == Spec => AdvanceIsGated
<1>1. ASSUME AcceptInv, [Next]_vars,
             files'[Sub].current_step > files[Sub].current_step, pc = "intended"
      PROVE  /\ Outcomes(Context, acc.measured) = {"pass"}
             /\ human = 0 => acc.tree = acc.measured
  <2>1. Typed /\ files[Sub].current_step \in 0 .. Steps
    BY <1>1, TreesFit DEF AcceptInv
  <2>2. files' # files
    BY <1>1, <2>1
  <2>3. Moves /\ pc \notin Between
    BY <1>1, StepMoves DEF Between
  <2>4. Replaces
    BY <1>1, <2>2, <2>3
       DEF Moves, Rests, Ends, Fails, Proceeds, Readies, Finds, Dispatches, Turns, Gates, Revalidates, Promises, Stages,
           MakesCommit, Adopts, Checks, Regates, RegatesRed, Prepares, Begins, Finishes, Records,
           Reloads, Resumes, Marks, Overtakes, Concludes, Replans, Idles, Quiet, MeasuresOnly,
           Receives, Appends, PlanOnly, Writing
  <2>5. Advancing
    BY <1>1, <2>1, <2>4 DEF AcceptInv, WriteFits, Replaces, Typed, Writing
  <2>6. Gated(cur, acc.measured) /\ (human = 0 => acc.tree = acc.measured)
    BY <1>1, <2>5 DEF AcceptInv, AccGated, AsMeasured
  <2> QED BY <2>6 DEF Gated, GatedIn, Outcomes, Context
<1>2. AcceptInv /\ [Next]_vars =>
        [files'[Sub].current_step > files[Sub].current_step /\ pc = "intended"
           => /\ Outcomes(Context, acc.measured) = {"pass"}
              /\ human = 0 => acc.tree = acc.measured]_vars
  BY <1>1
<1> QED BY <1>2, AcceptInductive, PTL DEF Spec, AdvanceIsGated

-----------------------------------------------------------------------------
(* What an acceptance promises: ChangesOnce, ProofIsEarned, NothingHalfDone.
   
   Whether an intent moved the pointer is told by its completion, or while it
   has none by the bytes of the plan file; whoever completes it, the driver or
   a recovery, writes down what the bytes said.  So the rows that moved the
   pointer stay the same under every step but the replacement of the file, and
   an iteration replaces the file only if none of its rows has moved the
   pointer yet.  From there an iteration is followed from its advance to its
   proof row.                                                              *)

Paths == {Sub, Master}

\* A row the driver appends to move the pointer.
IsPointerRow(row) ==
  /\ IsIntent(row) /\ row.path = Sub /\ row.actor = "driver" /\ row.to.status = "in-progress"

\* The intent at n was carried out, the plan file being c.
Written(rows, n) == \E m \in DOMAIN rows : Completes(rows, n, m) /\ Wrote(rows[m])

InEffect(rows, c, n) == Written(rows, n) \/ (n \in Pending(rows, Sub) /\ c = rows[n].after)

PointerRows(rows, c) == {n \in DOMAIN rows : IsPointerRow(rows[n]) /\ InEffect(rows, c, n)}

IsRow(row) ==
  row = [id |-> row.id, actor |-> row.actor, path |-> row.path, from |-> row.from,
         to |-> row.to, phase |-> row.phase, before |-> row.before, after |-> row.after]

\* An intent is known by its position, and a path has one pending intent.
JournalFits(rows) ==
  /\ IsRows(rows)
  /\ \A n \in DOMAIN rows : IsRow(rows[n]) /\ (IsIntent(rows[n]) => rows[n].id = n)
  /\ \A x \in Paths : \A n, m \in Pending(rows, x) : n = m

\* Rows are only added, and none of the added ones moves the pointer.
Kept(old, new) ==
  /\ Len(old) \in Nat /\ Len(new) \in Nat /\ Len(old) <= Len(new)
  /\ DOMAIN old = 1 .. Len(old) /\ DOMAIN new = 1 .. Len(new)
  /\ \A n \in 1 .. Len(old) : new[n] = old[n]

LEMMA RowAppended ==
  ASSUME NEW rows, IsRows(rows), NEW row
  PROVE  LET new == Append(rows, row) IN
         /\ IsRows(new) /\ Kept(rows, new) /\ Len(new) = Len(rows) + 1
         /\ new[Len(rows) + 1] = row
<1> DEFINE S == {rows[n] : n \in DOMAIN rows} \cup {row}
           new == Append(rows, row)
<1>1. rows \in Seq(S) /\ row \in S
  BY DEF IsRows
<1> HIDE DEF S
<1>2. /\ new \in Seq(S) /\ Len(new) = Len(rows) + 1 /\ new[Len(rows) + 1] = row
      /\ Len(rows) \in Nat /\ \A n \in 1 .. Len(rows) : new[n] = rows[n]
      /\ DOMAIN rows = 1 .. Len(rows)
  BY <1>1, AppendProperties
<1>3. IsRows(new)
  BY AppendRow
<1> HIDE DEF new
<1>4. DOMAIN new = 1 .. Len(new)
  BY <1>2
<1> QED BY <1>2, <1>3, <1>4 DEF new, Kept

\* A completion of a pending intent.
LEMMA RowClosed ==
  ASSUME NEW rows, JournalFits(rows), NEW x \in Paths, NEW k \in Pending(rows, x),
         NEW phase \in Phases \ {"intent"}
  PROVE  LET new == Append(rows, Completion(rows[k], phase)) IN
         /\ JournalFits(new) /\ Kept(rows, new) /\ Len(new) = Len(rows) + 1
         /\ Pending(new, x) = {}
         /\ \A y \in Paths \ {x} : Pending(new, y) = Pending(rows, y)
         /\ \A n \in DOMAIN rows \ {k} : Written(new, n) <=> Written(rows, n)
         /\ Written(new, k) <=> phase \in {"applied", "recovered-applied"}
         /\ ~IsIntent(new[Len(rows) + 1])
<1> DEFINE last == Completion(rows[k], phase)
           new == Append(rows, last)
           L == Len(rows)
<1>1. /\ IsRows(new) /\ Kept(rows, new) /\ Len(new) = L + 1 /\ new[L + 1] = last
  BY RowAppended DEF JournalFits
<1>2. /\ k \in 1 .. L /\ IsIntent(rows[k]) /\ rows[k].path = x /\ rows[k].id = k
      /\ ~ \E j \in DOMAIN rows : Completes(rows, k, j)
  BY <1>1 DEF Pending, JournalFits, Kept
<1>3. /\ IsRow(last) /\ last.phase = phase /\ last.id = k /\ last.path = x /\ ~IsIntent(last)
  BY <1>2 DEF Completion, JournalFits, IsRow, IsIntent
<1> HIDE DEF last, new
<1>4. /\ L \in Nat /\ DOMAIN rows = 1 .. L /\ DOMAIN new = 1 .. L + 1
      /\ \A n \in 1 .. L : new[n] = rows[n]
  BY <1>1 DEF Kept
<1> HIDE DEF L
<1>5. \A n, j \in 1 .. L : Completes(new, n, j) <=> Completes(rows, n, j)
  BY <1>4 DEF Completes
<1>6. \A n \in 1 .. L + 1 : Completes(new, n, L + 1) <=> n = k
  BY <1>1, <1>2, <1>3, <1>4 DEF Completes
<1>7. \A n \in 1 .. L : (\E j \in 1 .. L + 1 : Completes(new, n, j))
                         <=> (n = k \/ \E j \in 1 .. L : Completes(rows, n, j))
  BY <1>2, <1>4, <1>5, <1>6
<1>8. ASSUME NEW y \in Paths PROVE Pending(new, y) = Pending(rows, y) \ {k}
  <2>1. ASSUME NEW n \in 1 .. L
        PROVE  n \in Pending(new, y) <=> n \in Pending(rows, y) /\ n # k
    <3>1. /\ n \in Pending(new, y) <=>
               IsIntent(new[n]) /\ new[n].path = y /\ ~ \E j \in 1 .. L + 1 : Completes(new, n, j)
          /\ n \in Pending(rows, y) <=>
               IsIntent(rows[n]) /\ rows[n].path = y /\ ~ \E j \in 1 .. L : Completes(rows, n, j)
      BY <1>4 DEF Pending
    <3>2. new[n] = rows[n]
      BY <1>4
    <3> QED BY <1>7, <3>1, <3>2
  <2>2. L + 1 \notin Pending(new, y)
    BY <1>1, <1>3 DEF Pending
  <2>3. Pending(new, y) \subseteq 1 .. L + 1 /\ Pending(rows, y) \subseteq 1 .. L
    BY <1>4 DEF Pending
  <2>4. \A n \in 1 .. L + 1 : n \in 1 .. L \/ n = L + 1
    BY <1>4
  <2> QED BY <2>1, <2>2, <2>3, <2>4
<1>9. \A n \in 1 .. L \ {k} : Written(new, n) <=> Written(rows, n)
  BY <1>2, <1>4, <1>5, <1>6 DEF Written
<1>10. Written(new, k) <=> phase \in {"applied", "recovered-applied"}
  BY <1>1, <1>2, <1>3, <1>4, <1>5, <1>6 DEF Written, Wrote
<1>11. Pending(new, x) = {} /\ \A y \in Paths \ {x} : Pending(new, y) = Pending(rows, y)
  <2>1. \A n \in Pending(rows, x) : n = k
    BY DEF JournalFits
  <2>2. \A y \in Paths \ {x} : k \notin Pending(rows, y)
    BY <1>2 DEF Pending
  <2> QED BY <1>8, <2>1, <2>2
<1>12. JournalFits(new)
  <2>1. \A n \in 1 .. L + 1 : IsRow(new[n]) /\ (IsIntent(new[n]) => new[n].id = n)
    BY <1>1, <1>3, <1>4 DEF JournalFits
  <2> QED BY <1>1, <1>4, <1>8, <2>1 DEF JournalFits
<1> QED BY <1>1, <1>3, <1>4, <1>9, <1>10, <1>11, <1>12 DEF new, last, L

\* An intent for a path that has none pending.
LEMMA RowOpened ==
  ASSUME NEW rows, JournalFits(rows), NEW x \in Paths, Pending(rows, x) = {},
         NEW row, IsRow(row), IsIntent(row), row.path = x, row.id = Len(rows) + 1
  PROVE  LET new == Append(rows, row) IN
         /\ JournalFits(new) /\ Kept(rows, new) /\ Len(new) = Len(rows) + 1
         /\ new[Len(rows) + 1] = row
         /\ Pending(new, x) = {Len(rows) + 1}
         /\ \A y \in Paths \ {x} : Pending(new, y) = Pending(rows, y)
         /\ \A n \in DOMAIN rows : Written(new, n) <=> Written(rows, n)
         /\ ~Written(new, Len(rows) + 1)
<1> DEFINE new == Append(rows, row)
           L == Len(rows)
<1>1. /\ IsRows(new) /\ Kept(rows, new) /\ Len(new) = L + 1 /\ new[L + 1] = row
  BY RowAppended DEF JournalFits
<1> HIDE DEF new
<1>2. row.id = L + 1
  OBVIOUS
<1>4. /\ L \in Nat /\ DOMAIN rows = 1 .. L /\ DOMAIN new = 1 .. L + 1
      /\ \A n \in 1 .. L : new[n] = rows[n]
  BY <1>1 DEF Kept
<1> HIDE DEF L
<1>5. \A n, j \in 1 .. L : Completes(new, n, j) <=> Completes(rows, n, j)
  BY <1>4 DEF Completes
<1>6. \A n \in 1 .. L + 1 : ~Completes(new, n, L + 1) /\ ~Completes(new, L + 1, n)
  BY <1>1, <1>4 DEF Completes
<1>7. \A n \in 1 .. L : (\E j \in 1 .. L + 1 : Completes(new, n, j))
                         <=> (\E j \in 1 .. L : Completes(rows, n, j))
  BY <1>4, <1>5, <1>6
<1>8. ASSUME NEW y \in Paths
      PROVE  Pending(new, y) = Pending(rows, y) \cup (IF y = x THEN {L + 1} ELSE {})
  <2>1. ASSUME NEW n \in 1 .. L
        PROVE  n \in Pending(new, y) <=> n \in Pending(rows, y)
    <3>1. /\ n \in Pending(new, y) <=>
               IsIntent(new[n]) /\ new[n].path = y /\ ~ \E j \in 1 .. L + 1 : Completes(new, n, j)
          /\ n \in Pending(rows, y) <=>
               IsIntent(rows[n]) /\ rows[n].path = y /\ ~ \E j \in 1 .. L : Completes(rows, n, j)
      BY <1>4 DEF Pending
    <3>2. new[n] = rows[n]
      BY <1>4
    <3> QED BY <1>7, <3>1, <3>2
  <2>2. L + 1 \in Pending(new, y) <=> y = x
    <3>1. L + 1 \in 1 .. L + 1
      BY <1>4
    <3>2. ~ \E j \in 1 .. L + 1 : Completes(new, L + 1, j)
      BY <1>4, <1>6
    <3> QED BY <1>1, <1>4, <3>1, <3>2 DEF Pending
  <2>3. Pending(new, y) \subseteq 1 .. L + 1 /\ Pending(rows, y) \subseteq 1 .. L
    BY <1>4 DEF Pending
  <2>4. \A n \in 1 .. L + 1 : n \in 1 .. L \/ n = L + 1
    BY <1>4
  <2>5. L + 1 \notin 1 .. L
    BY <1>4
  <2> QED BY <2>1, <2>2, <2>3, <2>4, <2>5
<1>9. \A n \in 1 .. L : Written(new, n) <=> Written(rows, n)
  BY <1>4, <1>5, <1>6 DEF Written
<1>10. ~Written(new, L + 1)
  BY <1>4, <1>6 DEF Written
<1>11. Pending(new, x) = {L + 1} /\ \A y \in Paths \ {x} : Pending(new, y) = Pending(rows, y)
  BY <1>8
<1>12. JournalFits(new)
  <2>1. \A n \in 1 .. L + 1 : IsRow(new[n]) /\ (IsIntent(new[n]) => new[n].id = n)
    BY <1>1, <1>2, <1>4 DEF JournalFits
  <2>2. \A y \in Paths : \A n, m \in Pending(new, y) : n = m
    BY <1>11 DEF JournalFits
  <2> QED BY <1>1, <1>4, <2>1, <2>2 DEF JournalFits
<1> QED BY <1>1, <1>4, <1>9, <1>10, <1>11, <1>12 DEF new, L

-----------------------------------------------------------------------------
(* The rows that moved the pointer.                                         *)

LEMMA SamePointerRows ==
  ASSUME NEW rows, NEW new, Kept(rows, new), NEW c, NEW d,
         \A n \in 1 .. Len(rows) :
            IsPointerRow(rows[n]) => (InEffect(new, d, n) <=> InEffect(rows, c, n)),
         \A n \in (Len(rows) + 1) .. Len(new) : IsPointerRow(new[n]) => ~InEffect(new, d, n)
  PROVE  PointerRows(new, d) = PointerRows(rows, c)
<1>1. /\ Len(rows) \in Nat /\ Len(new) \in Nat /\ Len(rows) <= Len(new)
      /\ DOMAIN rows = 1 .. Len(rows) /\ DOMAIN new = 1 .. Len(new)
      /\ \A n \in 1 .. Len(rows) : new[n] = rows[n]
  BY DEF Kept
<1>2. ASSUME NEW n \in 1 .. Len(rows)
      PROVE  n \in PointerRows(new, d) <=> n \in PointerRows(rows, c)
  BY <1>1 DEF PointerRows
<1>3. ASSUME NEW n \in (Len(rows) + 1) .. Len(new) PROVE n \notin PointerRows(new, d)
  BY DEF PointerRows
<1>4. \A n \in 1 .. Len(new) : n \in 1 .. Len(rows) \/ n \in (Len(rows) + 1) .. Len(new)
  BY <1>1
<1>5. PointerRows(new, d) \subseteq 1 .. Len(new) /\ PointerRows(rows, c) \subseteq 1 .. Len(rows)
  BY <1>1 DEF PointerRows
<1> QED BY <1>2, <1>3, <1>4, <1>5

\* Whoever completes an intent writes down what the bytes said.
LEMMA ClosingKeepsPointer ==
  ASSUME NEW rows, JournalFits(rows), NEW x \in Paths, NEW k \in Pending(rows, x),
         NEW phase \in Phases \ {"intent"}, NEW c,
         x = Sub => (phase \in {"applied", "recovered-applied"} <=> c = rows[k].after)
  PROVE  PointerRows(Append(rows, Completion(rows[k], phase)), c) = PointerRows(rows, c)
<1> DEFINE new == Append(rows, Completion(rows[k], phase))
<1>1. /\ JournalFits(new) /\ Kept(rows, new) /\ Len(new) = Len(rows) + 1
      /\ Pending(new, x) = {}
      /\ \A y \in Paths \ {x} : Pending(new, y) = Pending(rows, y)
      /\ \A n \in DOMAIN rows \ {k} : Written(new, n) <=> Written(rows, n)
      /\ Written(new, k) <=> phase \in {"applied", "recovered-applied"}
      /\ ~IsIntent(new[Len(rows) + 1])
  BY RowClosed
<1> HIDE DEF new
<1>2. /\ Len(rows) \in Nat /\ DOMAIN rows = 1 .. Len(rows)
      /\ \A n \in 1 .. Len(rows) : new[n] = rows[n]
  BY <1>1 DEF Kept
<1>3. /\ k \in DOMAIN rows /\ rows[k].path = x
      /\ ~ \E j \in DOMAIN rows : Completes(rows, k, j)
  BY DEF Pending
<1>4. ~Written(rows, k)
  BY <1>3 DEF Written
<1>5. \A n \in Pending(rows, x) : n = k
  BY DEF JournalFits
<1>6. ASSUME NEW n \in 1 .. Len(rows), IsPointerRow(rows[n])
      PROVE  InEffect(new, c, n) <=> InEffect(rows, c, n)
  <2>1. CASE n = k
    <3>1. x = Sub
      BY <1>3, <1>6, <2>1 DEF IsPointerRow
    <3>2. InEffect(rows, c, n) <=> c = rows[k].after
      BY <1>4, <2>1, <3>1 DEF InEffect
    <3>3. InEffect(new, c, n) <=> phase \in {"applied", "recovered-applied"}
      BY <1>1, <2>1, <3>1 DEF InEffect
    <3> QED BY <3>1, <3>2, <3>3
  <2>2. CASE n # k
    <3>1. Written(new, n) <=> Written(rows, n)
      BY <1>1, <1>2, <2>2
    <3>2. n \in Pending(new, Sub) <=> n \in Pending(rows, Sub)
      BY <1>1, <1>5, <2>2 DEF Paths
    <3> QED BY <1>2, <3>1, <3>2 DEF InEffect
  <2> QED BY <2>1, <2>2
<1>7. \A n \in (Len(rows) + 1) .. Len(new) : ~IsPointerRow(new[n])
  BY <1>1, <1>2 DEF IsPointerRow
<1>8. PointerRows(new, c) = PointerRows(rows, c)
  BY <1>1, <1>6, <1>7, SamePointerRows
<1> QED BY <1>8 DEF new

LEMMA OpeningKeepsPointer ==
  ASSUME NEW rows, JournalFits(rows), NEW x \in Paths, Pending(rows, x) = {},
         NEW row, IsRow(row), IsIntent(row), row.path = x, row.id = Len(rows) + 1,
         NEW c, ~IsPointerRow(row) \/ c # row.after
  PROVE  PointerRows(Append(rows, row), c) = PointerRows(rows, c)
<1> DEFINE new == Append(rows, row)
<1>1. /\ JournalFits(new) /\ Kept(rows, new) /\ Len(new) = Len(rows) + 1
      /\ new[Len(rows) + 1] = row
      /\ Pending(new, x) = {Len(rows) + 1}
      /\ \A y \in Paths \ {x} : Pending(new, y) = Pending(rows, y)
      /\ \A n \in DOMAIN rows : Written(new, n) <=> Written(rows, n)
      /\ ~Written(new, Len(rows) + 1)
  BY RowOpened
<1> HIDE DEF new
<1>2. /\ Len(rows) \in Nat /\ DOMAIN rows = 1 .. Len(rows)
      /\ \A n \in 1 .. Len(rows) : new[n] = rows[n]
  BY <1>1 DEF Kept
<1>3. ASSUME NEW n \in 1 .. Len(rows), IsPointerRow(rows[n])
      PROVE  InEffect(new, c, n) <=> InEffect(rows, c, n)
  <2>1. n # Len(rows) + 1
    BY <1>2
  <2>2. n \in Pending(new, Sub) <=> n \in Pending(rows, Sub)
    BY <1>1, <2>1 DEF Paths
  <2> QED BY <1>1, <1>2, <2>2 DEF InEffect
<1>4. \A n \in (Len(rows) + 1) .. Len(new) : IsPointerRow(new[n]) => ~InEffect(new, c, n)
  BY <1>1, <1>2 DEF InEffect
<1>5. PointerRows(new, c) = PointerRows(rows, c)
  BY <1>1, <1>3, <1>4, SamePointerRows
<1> QED BY <1>5 DEF new

\* With nothing pending the bytes do not matter any more.
LEMMA SettledPointer ==
  ASSUME NEW rows, Pending(rows, Sub) = {}, NEW c, NEW d
  PROVE  PointerRows(rows, c) = PointerRows(rows, d)
  BY DEF PointerRows, InEffect

\* The replacement of the file carries out the one pending intent.
LEMMA ReplacingMovesPointer ==
  ASSUME NEW rows, JournalFits(rows), NEW k \in Pending(rows, Sub), NEW c,
         IsPointerRow(rows[k]) => c # rows[k].after
  PROVE  PointerRows(rows, rows[k].after) =
           PointerRows(rows, c) \cup (IF IsPointerRow(rows[k]) THEN {k} ELSE {})
<1>1. \A n \in Pending(rows, Sub) : n = k
  BY DEF JournalFits, Paths
<1>2. k \in DOMAIN rows
  BY DEF Pending
<1> QED BY <1>1, <1>2 DEF PointerRows, InEffect

\* _recover of one path.
LEMMA PathRecovered ==
  ASSUME NEW rows, JournalFits(rows), NEW x \in Paths, NEW c, NEW d, x = Sub => c = d
  PROVE  LET new == Recovered(rows, x, c) IN
         /\ JournalFits(new) /\ Kept(rows, new)
         /\ Pending(new, x) = {}
         /\ \A y \in Paths \ {x} : Pending(new, y) = Pending(rows, y)
         /\ PointerRows(new, d) = PointerRows(rows, d)
<1>1. CASE Pending(rows, x) = {}
  <2>1. Recovered(rows, x, c) = rows
    BY <1>1 DEF Recovered
  <2>2. Kept(rows, rows)
    BY DEF Kept, JournalFits, IsRows
  <2> QED BY <1>1, <2>1, <2>2
<1>2. CASE Pending(rows, x) # {}
  <2> DEFINE k == CHOOSE i \in Pending(rows, x) : TRUE
             phase == IF c = rows[k].after THEN "recovered-applied" ELSE "recovered-not-applied"
  <2>1. k \in Pending(rows, x)
    BY <1>2
  <2>2. Recovered(rows, x, c) = Append(rows, Completion(rows[k], phase))
    BY <1>2 DEF Recovered, RecoveryRow
  <2> HIDE DEF k
  <2>3. /\ phase \in Phases \ {"intent"}
        /\ phase \in {"applied", "recovered-applied"} <=> c = rows[k].after
    BY DEF Phases
  <2> HIDE DEF phase
  <2> QED BY <2>1, <2>2, <2>3, RowClosed, ClosingKeepsPointer
<1> QED BY <1>1, <1>2

\* What recovering both plans of a transition leaves.
LEMMA BothRecovered ==
  ASSUME JournalFits(log), NEW x \in Paths, NEW y \in Paths
  PROVE  LET rows == Settled(x, y) IN
         /\ JournalFits(rows) /\ Kept(log, rows)
         /\ Pending(rows, x) = {} /\ Pending(rows, y) = {}
         /\ \A z \in Paths : Pending(rows, z) \subseteq Pending(log, z)
         /\ PointerRows(rows, files[Sub]) = PointerRows(log, files[Sub])
<1> DEFINE one == Recovered(log, y, files[y])
           two == Recovered(one, x, files[x])
<1>1. /\ JournalFits(one) /\ Kept(log, one) /\ Pending(one, y) = {}
      /\ \A z \in Paths \ {y} : Pending(one, z) = Pending(log, z)
      /\ PointerRows(one, files[Sub]) = PointerRows(log, files[Sub])
  <2>1. y = Sub => files[y] = files[Sub]
    OBVIOUS
  <2>2. \A c, d : (y = Sub => c = d) =>
          /\ JournalFits(Recovered(log, y, c)) /\ Kept(log, Recovered(log, y, c))
          /\ Pending(Recovered(log, y, c), y) = {}
          /\ \A z \in Paths \ {y} : Pending(Recovered(log, y, c), z) = Pending(log, z)
          /\ PointerRows(Recovered(log, y, c), d) = PointerRows(log, d)
    BY PathRecovered
  <2> QED BY <2>1, <2>2
<1> HIDE DEF one
<1>2. /\ JournalFits(two) /\ Kept(one, two) /\ Pending(two, x) = {}
      /\ \A z \in Paths \ {x} : Pending(two, z) = Pending(one, z)
      /\ PointerRows(two, files[Sub]) = PointerRows(one, files[Sub])
  BY <1>1, PathRecovered
<1> HIDE DEF two
<1>3. Kept(log, two)
  BY <1>1, <1>2 DEF Kept
<1>4. two = Settled(x, y)
  BY DEF Settled, two, one
<1>5. Pending(two, y) = {}
  BY <1>1, <1>2
<1>6. \A z \in Paths : Pending(two, z) \subseteq Pending(log, z)
  BY <1>1, <1>2
<1> QED BY <1>1, <1>2, <1>3, <1>4, <1>5, <1>6

-----------------------------------------------------------------------------
(* What the steps do to the journal.                                        *)

PointerTo(i) == [current_step |-> contexts[i].step + 1, status |-> "in-progress"]

\* The driver begins a transition.
Opens ==
  /\ UNCHANGED <<files, contexts, iters, cur>>
  /\ JournalFits(log') /\ Kept(log, log') /\ pc' = "intended" /\ write'.path \in Paths
  /\ write'.row \in Pending(log', write'.path) /\ write'.row > Len(log)
  /\ \A z \in Paths : Pending(log', z) \subseteq Pending(log, z) \cup {write'.row}
  /\ PointerRows(log', files[Sub]) = PointerRows(log, files[Sub])
  /\ log'[write'.row].after.contract = files[write'.path].contract
  /\ IF write'.then \in {"advanced", "explain"}
     THEN /\ pc = "advance" /\ write'.path = Sub /\ IsPointerRow(log'[write'.row])
          /\ log'[write'.row].to = PointerTo(cur)
          /\ log'[write'.row].after.current_step = Context.step + 1
          /\ files[Sub].current_step = Context.step
     ELSE ~IsPointerRow(log'[write'.row])

Closes ==
  /\ UNCHANGED <<files, contexts, iters, cur>>
  /\ pc = "replaced" /\ pc' = write.then
  /\ JournalFits(log') /\ Kept(log, log')
  /\ \A z \in Paths : Pending(log', z) \subseteq Pending(log, z)
  /\ PointerRows(log', files[Sub]) = PointerRows(log, files[Sub])

\* A worker is dispatched against the settled journal.
Freezes ==
  /\ UNCHANGED files
  /\ JournalFits(log') /\ Kept(log, log') /\ pc' = "dispatched"
  /\ \A z \in Paths : Pending(log', z) = {}
  /\ PointerRows(log', files[Sub]) = PointerRows(log, files[Sub])
  /\ iters' = iters + 1 /\ cur' = iters + 1 /\ cur' \in Iterations
  /\ contexts'[cur'] # NoContext
  /\ contexts'[cur'].cursor = Len(log') /\ contexts'[cur'].step = files[Sub].current_step
  /\ contexts'[cur'].contract = files[Sub].contract
  /\ \A i \in Iterations : i # cur' => contexts'[i] = contexts[i]

\* Somebody else changes a plan.
Changes ==
  /\ UNCHANGED <<contexts, iters, cur, pc, write>> /\ ~Writing
  /\ JournalFits(log') /\ Kept(log, log')
  /\ \A z \in Paths : Pending(log', z) \subseteq Pending(log, z)
  /\ PointerRows(log', files'[Sub]) = PointerRows(log, files[Sub])
  /\ \/ UNCHANGED <<files[Sub].current_step, files[Sub].contract>>
     \/ /\ files'[Sub].contract = files[Sub].contract + 1
        /\ files'[Sub].current_step = Steps - 1 /\ files[Sub].current_step >= Steps - 1

Elsewhere ==
  /\ UNCHANGED <<files, log, contexts, iters>>
  /\ pc' \in {"intended", "replaced"} => UNCHANGED <<pc, write, cur>>
  /\ pc' = "advance" => cur' = cur /\ (pc = "advance" \/ Valid)

LEMMA IntentIsRow ==
  ASSUME NEW rows, NEW actor, NEW x, NEW from, NEW to, NEW after
  PROVE  LET row == Intent(rows, actor, x, from, to, after) IN
         /\ IsRow(row) /\ IsIntent(row) /\ row.path = x /\ row.id = Len(rows) + 1
         /\ row.actor = actor /\ row.to = to /\ row.after = after
  BY DEF Intent, IsRow, IsIntent

LEMMA BeginOpens ==
  ASSUME JournalFits(log), NEW path \in Paths, NEW guard \in Paths, NEW actor, NEW from, NEW to,
         NEW after, NEW then, BeginWrite(path, guard, actor, from, to, after, then),
         path = Sub /\ actor = "driver" /\ to.status = "in-progress" => files[Sub] # after
  PROVE  /\ JournalFits(log') /\ Kept(log, log') /\ pc' = "intended"
         /\ write'.path = path /\ write'.then = then
         /\ write'.row \in Pending(log', path) /\ write'.row > Len(log)
         /\ \A z \in Paths : Pending(log', z) \subseteq Pending(log, z) \cup {write'.row}
         /\ PointerRows(log', files[Sub]) = PointerRows(log, files[Sub])
         /\ log'[write'.row].after = after /\ log'[write'.row].to = to
         /\ IsPointerRow(log'[write'.row])
              <=> path = Sub /\ actor = "driver" /\ to.status = "in-progress"
<1> DEFINE rows == Settled(path, guard)
           row == Intent(rows, actor, path, from, to, after)
           new == Append(rows, row)
<1>1. /\ JournalFits(rows) /\ Kept(log, rows) /\ Pending(rows, path) = {}
      /\ \A z \in Paths : Pending(rows, z) \subseteq Pending(log, z)
      /\ PointerRows(rows, files[Sub]) = PointerRows(log, files[Sub])
  BY BothRecovered
<1>2. /\ log' = new /\ pc' = "intended"
      /\ write' = [path |-> path, row |-> Len(rows) + 1, then |-> then]
  BY DEF BeginWrite
<1> HIDE DEF rows
<1>3. /\ IsRow(row) /\ IsIntent(row) /\ row.path = path /\ row.id = Len(rows) + 1
      /\ row.actor = actor /\ row.to = to /\ row.after = after
  BY IntentIsRow
<1> HIDE DEF row
<1>4. /\ JournalFits(new) /\ Kept(rows, new) /\ Len(new) = Len(rows) + 1
      /\ new[Len(rows) + 1] = row /\ Pending(new, path) = {Len(rows) + 1}
      /\ \A y \in Paths \ {path} : Pending(new, y) = Pending(rows, y)
  BY <1>1, <1>3, RowOpened
<1>5. IsPointerRow(row) <=> path = Sub /\ actor = "driver" /\ to.status = "in-progress"
  BY <1>3 DEF IsPointerRow
<1>6. PointerRows(new, files[Sub]) = PointerRows(rows, files[Sub])
  BY <1>1, <1>3, <1>5, OpeningKeepsPointer
<1> HIDE DEF new
<1>7. Kept(log, new) /\ Len(rows) + 1 > Len(log)
  BY <1>1, <1>4 DEF Kept
<1>8. write'.path = path /\ write'.row = Len(rows) + 1 /\ write'.then = then
  BY <1>2
<1>9. \A z \in Paths : Pending(new, z) \subseteq Pending(log, z) \cup {Len(rows) + 1}
  BY <1>1, <1>4
<1> QED BY <1>1, <1>2, <1>3, <1>4, <1>5, <1>6, <1>7, <1>8, <1>9

LEMMA AdvanceOpens ==
  ASSUME AcceptInv, JournalFits(log), Advance
  PROVE  Opens \/ Elsewhere
<1> DEFINE from == [current_step |-> Context.step, status |-> acc.status]
           to == [current_step |-> Context.step + 1, status |-> "in-progress"]
           then == IF mode = "live" THEN "advanced" ELSE "explain"
           after == Project(files[Sub], to)
<1>1. /\ pc = "advance" /\ UNCHANGED <<files, contexts, iters, cur>>
      /\ \/ Allowed(Sub, from) /\ Begin(Sub, Master, from, to, then)
         \/ Refuse /\ UNCHANGED <<log, write>>
  BY DEF Advance, records, counters
<1>2. CASE Refuse /\ UNCHANGED <<log, write>>
  BY <1>1, <1>2 DEF Elsewhere, Refuse
<1>3. CASE Allowed(Sub, from) /\ Begin(Sub, Master, from, to, then)
  <2>1. files[Sub] \in ContentSet /\ Context.step \in Nat
    BY <1>1, TreesFit, AcceptBoundsAssumption DEF AcceptInv, Typed, Between
  <2>2. files[Sub].current_step = Context.step
    BY <1>3 DEF Allowed, Matches
  <2>3. after.current_step = Context.step + 1 /\ after.contract = files[Sub].contract
    BY <2>1 DEF Project, ContentSet
  <2>4. to.status = "in-progress" /\ to = PointerTo(cur) /\ then \in {"advanced", "explain"}
    BY DEF PointerTo, Context
  <2>5. BeginWrite(Sub, Master, "driver", from, to, after, then)
    BY <1>3 DEF Begin
  <2> HIDE DEF from, to, then, after
  <2>6. files[Sub] # after
    BY <2>1, <2>2, <2>3
  <2>7. Sub \in Paths /\ Master \in Paths
    BY DEF Paths
  <2>8. /\ JournalFits(log') /\ Kept(log, log') /\ pc' = "intended"
        /\ write'.path = Sub /\ write'.then = then
        /\ write'.row \in Pending(log', Sub) /\ write'.row > Len(log)
        /\ \A z \in Paths : Pending(log', z) \subseteq Pending(log, z) \cup {write'.row}
        /\ PointerRows(log', files[Sub]) = PointerRows(log, files[Sub])
        /\ log'[write'.row].after = after /\ log'[write'.row].to = to
        /\ IsPointerRow(log'[write'.row])
    BY <2>4, <2>5, <2>6, <2>7, BeginOpens
  <2> QED BY <1>1, <2>2, <2>3, <2>4, <2>7, <2>8 DEF Opens
<1> QED BY <1>1, <1>2, <1>3

\* The other transitions of the driver move no pointer.
LEMMA OtherOpens ==
  ASSUME JournalFits(log), UNCHANGED <<files, contexts, iters, cur>>,
         NEW path \in Paths, NEW guard \in Paths, NEW actor, NEW from, NEW to, NEW after, NEW then,
         BeginWrite(path, guard, actor, from, to, after, then),
         path # Sub \/ actor # "driver" \/ to.status # "in-progress",
         then \notin {"advanced", "explain"}, after.contract = files[path].contract
  PROVE  Opens
<1>1. /\ JournalFits(log') /\ Kept(log, log') /\ pc' = "intended"
      /\ write'.path = path /\ write'.then = then
      /\ write'.row \in Pending(log', path) /\ write'.row > Len(log)
      /\ \A z \in Paths : Pending(log', z) \subseteq Pending(log, z) \cup {write'.row}
      /\ PointerRows(log', files[Sub]) = PointerRows(log, files[Sub])
      /\ log'[write'.row].after = after /\ log'[write'.row].to = to
      /\ ~IsPointerRow(log'[write'.row])
  BY BeginOpens
<1> QED BY <1>1 DEF Opens

LEMMA OthersOpen ==
  ASSUME AcceptInv, JournalFits(log), ShipStatus \/ ImportFindings \/ CompleteMaster
  PROVE  Opens \/ Elsewhere
<1>1. files[Sub] \in ContentSet /\ files[Master] \in ContentSet /\ Sub \in Paths /\ Master \in Paths
  BY DEF AcceptInv, Typed, Paths
<1>2. ASSUME NEW c \in ContentSet PROVE Project(c, [status |-> "shipped"]).contract = c.contract
  BY DEF ContentSet, Project
<1>3. CASE ShipStatus
  <2>1. /\ pc = "status" /\ UNCHANGED <<files, contexts, iters, cur>>
        /\ \/ Begin(Sub, Sub, [status |-> files[Sub].status], [status |-> "shipped"], AfterShip)
           \/ UNCHANGED <<log, write>> /\ (pc' = AfterShip \/ ShipFails)
    BY <1>3 DEF ShipStatus, records, counters
  <2>2. CASE UNCHANGED <<log, write>> /\ (pc' = AfterShip \/ ShipFails)
    BY <2>1, <2>2 DEF Elsewhere, AfterShip, ShipFails
  <2>3. CASE Begin(Sub, Sub, [status |-> files[Sub].status], [status |-> "shipped"], AfterShip)
    BY <1>1, <1>2, <2>1, <2>3, OtherOpens DEF Begin, AfterShip
  <2> QED BY <2>1, <2>2, <2>3
<1>4. CASE ImportFindings
  <2> DEFINE state == [status |-> files[Sub].status]
             after == [files[Sub] EXCEPT !.notes = files[Sub].notes + 1]
  <2>1. /\ pc = "findings" /\ UNCHANGED <<files, contexts, iters, cur>>
        /\ \/ BeginWrite(Sub, Sub, "integrity-repair", state, state, after, "project")
           \/ UNCHANGED <<log, write>> /\ (pc' = "project" \/ Refuse)
    BY <1>4 DEF ImportFindings, records, counters
  <2>2. after.contract = files[Sub].contract
    BY <1>1 DEF ContentSet
  <2> HIDE DEF state, after
  <2>3. CASE UNCHANGED <<log, write>> /\ (pc' = "project" \/ Refuse)
    BY <2>1, <2>3 DEF Elsewhere, Refuse
  <2>4. CASE BeginWrite(Sub, Sub, "integrity-repair", state, state, after, "project")
    BY <1>1, <2>1, <2>2, <2>4, OtherOpens
  <2> QED BY <2>1, <2>3, <2>4
<1>5. CASE CompleteMaster
  <2>1. /\ pc = "complete" /\ UNCHANGED <<files, contexts, iters, cur>>
        /\ \/ Begin(Master, Sub, [status |-> files[Master].status], [status |-> "shipped"], "ready")
           \/ UNCHANGED <<log, write>> /\ (pc' = "ready" \/ Refuse)
    BY <1>5 DEF CompleteMaster, records, counters
  <2>2. CASE UNCHANGED <<log, write>> /\ (pc' = "ready" \/ Refuse)
    BY <2>1, <2>2 DEF Elsewhere, Refuse
  <2>3. CASE Begin(Master, Sub, [status |-> files[Master].status], [status |-> "shipped"], "ready")
    BY <1>1, <1>2, <2>1, <2>3, OtherOpens, PlansAssumption DEF Begin
  <2> QED BY <2>1, <2>2, <2>3
<1> QED BY <1>3, <1>4, <1>5

LEMMA FinishCloses ==
  ASSUME JournalFits(log), Finish, write.path \in Paths, write.row \in Pending(log, write.path),
         files[write.path] = log[write.row].after
  PROVE  Closes
<1> DEFINE x == write.path
           k == write.row
           new == Append(log, Completion(log[k], "applied"))
<1>1. /\ log' = new /\ pc = "replaced" /\ pc' = write.then
      /\ UNCHANGED <<files, contexts, iters, cur>>
  BY DEF Finish, records, counters
<1>2. x \in Paths /\ k \in Pending(log, x) /\ "applied" \in Phases \ {"intent"}
  BY DEF Phases
<1>3. x = Sub => files[Sub] = log[k].after
  OBVIOUS
<1> HIDE DEF x, k
<1>4. /\ JournalFits(new) /\ Kept(log, new) /\ Pending(new, x) = {}
      /\ \A y \in Paths \ {x} : Pending(new, y) = Pending(log, y)
  BY ONLY <1>2, JournalFits(log), RowClosed
<1>5. PointerRows(new, files[Sub]) = PointerRows(log, files[Sub])
  BY <1>2, <1>3, ClosingKeepsPointer
<1> HIDE DEF new
<1>6. \A z \in Paths : Pending(new, z) \subseteq Pending(log, z)
  BY <1>4
<1> QED BY <1>1, <1>4, <1>5, <1>6 DEF Closes

LEMMA DispatchFreezes ==
  ASSUME AcceptInv, JournalFits(log), Dispatch
  PROVE  Freezes
<1> DEFINE rows == Settled(Master, Sub)
           c == [base |-> HEAD, step |-> files[Sub].current_step, cursor |-> Len(rows),
                 snap |-> [x \in {Sub, Master} |-> OwnedState(files[x])],
                 contract |-> files[Sub].contract]
<1>1. /\ log' = rows /\ contexts' = [contexts EXCEPT ![iters + 1] = c]
      /\ iters' = iters + 1 /\ cur' = iters + 1 /\ pc' = "dispatched" /\ UNCHANGED files
  BY DEF Dispatch, Settled
<1>2. /\ JournalFits(rows) /\ Kept(log, rows)
      /\ Pending(rows, Sub) = {} /\ Pending(rows, Master) = {}
      /\ PointerRows(rows, files[Sub]) = PointerRows(log, files[Sub])
  BY BothRecovered DEF Paths
<1> HIDE DEF rows
<1>3. iters + 1 \in Iterations
  <2>1. PICK b \in Budgets : iters + 1 <= b.iters
    BY DEF Dispatch, Within
  <2> QED BY <2>1, CurIsFit, AcceptBoundsAssumption DEF CurFits, Iterations
<1>4. DOMAIN contexts = Iterations
  BY DEF AcceptInv, Typed
<1>5. /\ c # NoContext /\ c.cursor = Len(rows) /\ c.step = files[Sub].current_step
      /\ c.contract = files[Sub].contract
  BY DEF NoContext
<1> HIDE DEF c
<1> QED BY <1>1, <1>2, <1>3, <1>4, <1>5 DEF Freezes, Paths

LEMMA PlanChanges ==
  ASSUME JournalFits(log), NEW path \in Paths, NEW to, NEW contract, ChangePlan(path, to, contract)
  PROVE  /\ UNCHANGED <<contexts, iters, cur, pc, write>> /\ ~Writing
         /\ JournalFits(log') /\ Kept(log, log')
         /\ \A z \in Paths : Pending(log', z) \subseteq Pending(log, z)
         /\ PointerRows(log', files'[Sub]) = PointerRows(log, files[Sub])
<1> DEFINE rows == Recovered(log, path, files[path])
           new == [Project(files[path], to) EXCEPT !.contract = contract]
           old == [k \in DOMAIN to |-> files[path][k]]
           row == Intent(rows, "human", path, old, to, new)
           one == Append(rows, row)
           two == Append(one, Completion(row, "applied"))
<1>1. /\ UNCHANGED <<contexts, iters, cur, pc, write>> /\ ~Writing
      /\ log' = rows \o <<row, Completion(row, "applied")>>
      /\ files' = [files EXCEPT ![path] = new]
  BY DEF ChangePlan, records, Writing
<1>2. /\ JournalFits(rows) /\ Kept(log, rows) /\ Pending(rows, path) = {}
      /\ \A z \in Paths \ {path} : Pending(rows, z) = Pending(log, z)
      /\ PointerRows(rows, files[Sub]) = PointerRows(log, files[Sub])
  <2>1. path = Sub => files[path] = files[Sub]
    OBVIOUS
  <2>2. \A c, d : (path = Sub => c = d) =>
          /\ JournalFits(Recovered(log, path, c)) /\ Kept(log, Recovered(log, path, c))
          /\ Pending(Recovered(log, path, c), path) = {}
          /\ \A z \in Paths \ {path} : Pending(Recovered(log, path, c), z) = Pending(log, z)
          /\ PointerRows(Recovered(log, path, c), d) = PointerRows(log, d)
    BY PathRecovered
  <2> QED BY <2>1, <2>2
<1> HIDE DEF rows, new, old
<1>3. /\ IsRow(row) /\ IsIntent(row) /\ row.path = path /\ row.id = Len(rows) + 1
      /\ row.actor = "human"
  BY IntentIsRow
<1> HIDE DEF row
<1>4. ~IsPointerRow(row)
  BY <1>3 DEF IsPointerRow
<1>5. /\ JournalFits(one) /\ Kept(rows, one) /\ Len(one) = Len(rows) + 1
      /\ one[Len(rows) + 1] = row /\ Pending(one, path) = {Len(rows) + 1}
      /\ \A y \in Paths \ {path} : Pending(one, y) = Pending(rows, y)
      /\ \A c : PointerRows(one, c) = PointerRows(rows, c)
  BY <1>2, <1>3, <1>4, RowOpened, OpeningKeepsPointer
<1>6. log' = two
  <2>1. /\ rows \in Seq({rows[n] : n \in DOMAIN rows} \cup {row, Completion(row, "applied")})
        /\ Len(rows) \in Nat
    BY <1>2 DEF JournalFits, IsRows
  <2> QED BY <1>1, <2>1
<1> HIDE DEF one
<1>7. /\ JournalFits(two) /\ Kept(one, two) /\ Pending(two, path) = {}
      /\ \A y \in Paths \ {path} : Pending(two, y) = Pending(one, y)
  <2>1. Len(rows) + 1 \in Pending(one, path) /\ "applied" \in Phases \ {"intent"}
    BY <1>5 DEF Phases
  <2>2. two = Append(one, Completion(one[Len(rows) + 1], "applied"))
    BY <1>5
  <2> HIDE DEF two
  <2> QED BY <1>5, <2>1, <2>2, RowClosed
<1>8. Kept(log, two)
  BY <1>2, <1>5, <1>7 DEF Kept
<1>9. \A z \in Paths : Pending(two, z) \subseteq Pending(log, z)
  BY <1>2, <1>5, <1>7
<1>10. PointerRows(two, files'[Sub]) = PointerRows(log, files[Sub])
  <2>1. Len(rows) + 1 \in Pending(one, path) /\ "applied" \in Phases \ {"intent"}
    BY <1>5 DEF Phases
  <2>2. two = Append(one, Completion(one[Len(rows) + 1], "applied"))
    BY <1>5
  <2>3. one[Len(rows) + 1].after = new
    BY <1>5 DEF row, Intent
  <2> HIDE DEF two
  <2>4. CASE path = Sub
    <3>1. PointerRows(two, new) = PointerRows(one, new)
      BY <1>5, <2>1, <2>2, <2>3, ClosingKeepsPointer
    <3>2. Pending(rows, Sub) = {} /\ Pending(two, Sub) = {}
      BY <1>2, <1>7, <2>4
    <3>3. PointerRows(two, files'[Sub]) = PointerRows(two, new)
      BY <3>2, SettledPointer
    <3>4. PointerRows(rows, new) = PointerRows(rows, files[Sub])
      BY <3>2, SettledPointer
    <3> QED BY <1>2, <1>5, <3>1, <3>3, <3>4
  <2>5. CASE path # Sub
    <3>1. PointerRows(two, files[Sub]) = PointerRows(one, files[Sub])
      BY <1>5, <2>1, <2>2, <2>5, ClosingKeepsPointer
    <3>2. files'[Sub] = files[Sub]
      BY <1>1, <2>5
    <3> QED BY <1>2, <1>5, <3>1, <3>2
  <2> QED BY <2>4, <2>5
<1> QED BY <1>1, <1>6, <1>7, <1>8, <1>9, <1>10

LEMMA OthersChange ==
  ASSUME AcceptInv, JournalFits(log), ParkMaster \/ UnparkMaster \/ ReturnReds
  PROVE  Changes
<1>1. Sub \in Paths /\ Master \in Paths /\ DOMAIN files = {Sub, Master} /\ files[Sub] \in ContentSet
  BY DEF AcceptInv, Typed, Paths
<1>2. CASE ParkMaster \/ UnparkMaster
  <2>1. \E to, contract : ChangePlan(Master, to, contract)
    BY <1>2 DEF ParkMaster, UnparkMaster
  <2>2. PICK to, contract : ChangePlan(Master, to, contract)
    BY <2>1
  <2>3. files'[Sub] = files[Sub]
    BY <2>2, PlansAssumption DEF ChangePlan
  <2> QED BY <1>1, <2>2, <2>3, PlanChanges DEF Changes
<1>3. CASE ReturnReds
  <2> DEFINE to == [status |-> "in-progress", current_step |-> Steps - 1]
             contract == files[Sub].contract + 1
  <2>1. ChangePlan(Sub, to, contract) /\ files[Sub].current_step >= Steps - 1
    BY <1>3 DEF ReturnReds
  <2>2. files'[Sub] = [Project(files[Sub], to) EXCEPT !.contract = contract]
    BY <1>1, <2>1 DEF ChangePlan
  <2>3. Project(files[Sub], to).current_step = Steps - 1
        /\ DOMAIN Project(files[Sub], to) = DOMAIN files[Sub]
    BY <1>1 DEF Project, ContentSet
  <2>4. DOMAIN files[Sub] = {"status", "current_step", "hold", "auto_block_fails", "contract", "notes"}
    BY <1>1 DEF ContentSet
  <2> HIDE DEF to, contract
  <2>5. files'[Sub].current_step = Steps - 1 /\ files'[Sub].contract = contract
    BY <2>2, <2>3, <2>4
  <2>6. files'[Sub].contract = files[Sub].contract + 1
    BY <2>5 DEF contract
  <2> QED BY <1>1, <2>1, <2>5, <2>6, PlanChanges DEF Changes
<1> QED BY <1>2, <1>3

LEMMA OthersStay ==
  ASSUME AcceptInv,
         \/ Start \/ Stop \/ Expire \/ MarkerFails \/ GiveUp \/ Crash \/ WorkerTurn \/ Validate \/ Gate
         \/ Revalidate \/ SaveIntent \/ Stage \/ Commit \/ Committed \/ Regate \/ Prepare
         \/ Advanced \/ Scan \/ Recover \/ Reintend \/ ResumeTransaction \/ Explain \/ Settle
         \/ ProjectResult \/ ShipMarker \/ RecordProof \/ Audit \/ Close \/ CloseRefused
         \/ ProjectClose \/ EditTree \/ CommitTree \/ UNCHANGED vars
  PROVE  Elsewhere
<1> USE DEF Elsewhere, Refuse, plan, repo, records, counters
<1>1. CASE Start \/ Stop \/ Expire \/ MarkerFails \/ GiveUp \/ Crash \/ WorkerTurn
  BY <1>1 DEF Start, Stop, Expire, MarkerFails, Fail, ShipFails, LiveTimed, RecoveryTimed,
              GiveUp, Crash, WorkerTurn
<1>2. CASE Validate \/ Gate \/ Revalidate \/ SaveIntent \/ Stage
  BY <1>2 DEF Validate, Gate, Revalidate, SaveIntent, Stage
<1>3. CASE Commit \/ Committed \/ Regate \/ Prepare \/ Advanced
  BY <1>3 DEF Commit, Committed, Regate, Prepare, Advanced
<1>4. CASE Scan \/ Recover \/ Reintend
  BY <1>4 DEF Scan, Recover, Reintend
<1>5. CASE ResumeTransaction \/ Explain \/ Settle \/ ProjectResult
  BY <1>5 DEF ResumeTransaction, Explain, Settle, ProjectResult
<1>6. CASE ShipMarker \/ RecordProof \/ Audit \/ Close \/ CloseRefused \/ ProjectClose
  BY <1>6 DEF ShipMarker, ShipFails, RecordProof, Audit, Close, CloseRefused, ProjectClose
<1>7. CASE EditTree \/ CommitTree \/ UNCHANGED vars
  BY <1>7 DEF EditTree, CommitTree, vars
<1> QED BY <1>1, <1>2, <1>3, <1>4, <1>5, <1>6, <1>7

-----------------------------------------------------------------------------
(* The pointer moves once.                                                  *)

\* The transition at work is pending, and writes what its intent says; only
\* the one that advances is a pointer row.
WriteIsOpen ==
  /\ Writing => write.path \in Paths /\ write.row \in Pending(log, write.path)
  /\ pc = "replaced" => files[write.path] = log[write.row].after
  /\ pc = "intended" => log[write.row].after.contract = files[write.path].contract
  /\ Writing => (Advancing <=> IsPointerRow(log[write.row]))
  /\ Advancing => /\ write.path = Sub /\ log[write.row].to = PointerTo(cur)
                  /\ log[write.row].after.current_step = Context.step + 1
                  /\ pc = "intended" => files[Sub].current_step = Context.step

\* The windows of the iterations follow each other in the journal.
Windows ==
  /\ \A i \in 1 .. iters : contexts[i].cursor \in 0 .. Len(log)
  /\ \A i, j \in 1 .. iters : i <= j => contexts[i].cursor <= contexts[j].cursor
  /\ iters > 0 => \A n \in Pending(log, Sub) : n > contexts[iters].cursor

ContractGrows ==
  \A i \in 1 .. iters : contexts[i].contract \in Nat /\ contexts[i].contract <= files[Sub].contract

CurIsLast ==
  /\ pc \notin Between => cur = iters
  /\ Unfinished \subseteq {iters}

\* An iteration that moved the pointer left it, or a later contract, behind it;
\* and a pointer past the last iteration's step was moved by it.
PointerMoved ==
  /\ \A i \in 1 .. iters : Advances(i) # {} =>
       files[Sub].current_step > contexts[i].step \/ files[Sub].contract > contexts[i].contract
  /\ iters > 0 /\ files[Sub].current_step > contexts[iters].step => Advances(iters) # {}

AtStart == pc = "advance" \/ (pc = "intended" /\ Advancing) => Advances(cur) = {}

OneAdvance == \A i \in 1 .. iters : \A n, m \in Advances(i) : n = m

JournalInv ==
  /\ JournalFits(log) /\ WriteIsOpen /\ Windows /\ ContractGrows /\ CurIsLast
  /\ PointerMoved /\ AtStart /\ OneAdvance

JournalMoves == Opens \/ Closes \/ Freezes \/ Changes \/ Replace \/ Elsewhere

LEMMA StepJournal ==
  ASSUME AcceptInv, JournalInv, [Next]_vars
  PROVE  JournalMoves
<1>1. CASE Finish
  BY <1>1, FinishCloses DEF JournalInv, WriteIsOpen, Finish, Writing, JournalMoves
<1>2. CASE Dispatch
  BY <1>2, DispatchFreezes DEF JournalInv, JournalMoves
<1>3. CASE Advance
  BY <1>3, AdvanceOpens DEF JournalInv, JournalMoves
<1>4. CASE ShipStatus \/ ImportFindings \/ CompleteMaster
  BY <1>4, OthersOpen DEF JournalInv, JournalMoves
<1>5. CASE ParkMaster \/ UnparkMaster \/ ReturnReds
  BY <1>5, OthersChange DEF JournalInv, JournalMoves
<1>6. CASE Replace
  BY <1>6 DEF JournalMoves
<1> QED BY <1>1, <1>2, <1>3, <1>4, <1>5, <1>6, OthersStay
        DEF Next, AcceptanceStep, RecoveryStep, CloseStep, Interference, JournalMoves

LEMMA AdvancesStay ==
  ASSUME Kept(log, log'), PointerRows(log', files'[Sub]) = PointerRows(log, files[Sub]),
         UNCHANGED contexts, NEW i
  PROVE  Advances(i)' = Advances(i)
<1> DEFINE In(n) == /\ n > contexts[i].cursor
                    /\ log[n].to = [current_step |-> contexts[i].step + 1, status |-> "in-progress"]
                    /\ \A j \in Iterations : contexts[j] # NoContext /\ j > i => n <= contexts[j].cursor
<1>1. Advances(i) = {n \in PointerRows(log, files[Sub]) : In(n)}
  BY DEF Advances, PointerRows, IsPointerRow, InEffect, Written
<1>2. Advances(i)' = {n \in PointerRows(log', files'[Sub]) : In(n)'}
  BY DEF Advances, PointerRows, IsPointerRow, InEffect, Written
<1>3. ASSUME NEW n \in PointerRows(log, files[Sub]) PROVE In(n)' <=> In(n)
  <2>1. log'[n] = log[n]
    BY DEF Kept, PointerRows
  <2> QED BY <2>1
<1> HIDE DEF In
<1> QED BY <1>1, <1>2, <1>3

LEMMA AdvancesFrozen ==
  ASSUME AcceptInv, JournalInv, Freezes
  PROVE  /\ \A i \in 1 .. iters : Advances(i)' = Advances(i)
         /\ Advances(cur)' = {}
<1>1. iters \in Nat /\ cur' = iters + 1 /\ cur' \in Iterations /\ contexts'[cur'].cursor = Len(log')
      /\ contexts'[cur'] # NoContext
  BY CurIsFit DEF CurFits, Freezes
<1>2. /\ Len(log) \in Nat /\ Len(log') \in Nat /\ DOMAIN log = 1 .. Len(log)
      /\ DOMAIN log' = 1 .. Len(log') /\ Len(log) <= Len(log')
      /\ \A n \in 1 .. Len(log) : log'[n] = log[n]
  BY DEF Freezes, Kept
<1>3. ASSUME NEW i \in 1 .. iters PROVE Advances(i)' = Advances(i)
  <2> DEFINE To(n) == log[n].to = [current_step |-> contexts[i].step + 1, status |-> "in-progress"]
             Last(n) == \A j \in Iterations : contexts[j] # NoContext /\ j > i => n <= contexts[j].cursor
  <2>1. Advances(i) = {n \in PointerRows(log, files[Sub]) :
                         n > contexts[i].cursor /\ To(n) /\ Last(n)}
    BY DEF Advances, PointerRows, IsPointerRow, InEffect, Written
  <2>2. Advances(i)' = {n \in PointerRows(log', files'[Sub]) :
                          (n > contexts'[i].cursor) /\ To(n)' /\ Last(n)'}
    BY DEF Advances, PointerRows, IsPointerRow, InEffect, Written
  <2>3. PointerRows(log', files'[Sub]) = PointerRows(log, files[Sub])
    BY DEF Freezes
  <2>4. i \in Iterations /\ i # cur' /\ contexts'[i] = contexts[i]
    BY <1>1, AcceptBoundsAssumption DEF Freezes, Iterations
  <2>5. ASSUME NEW n \in PointerRows(log, files[Sub])
        PROVE  /\ n > contexts'[i].cursor <=> n > contexts[i].cursor
               /\ To(n)' <=> To(n)
               /\ Last(n)' <=> Last(n)
    <3>1. log'[n] = log[n] /\ n \in 1 .. Len(log') /\ n \in Nat
      BY <1>2 DEF PointerRows
    <3>2. contexts[cur'] = NoContext
      BY <1>1 DEF AcceptInv, Numbered
    <3>3. \A j \in Iterations : j # cur' => contexts'[j] = contexts[j]
      BY DEF Freezes
    <3> QED BY <1>1, <1>2, <2>4, <3>1, <3>2, <3>3
  <2> HIDE DEF To, Last
  <2> QED BY <2>1, <2>2, <2>3, <2>5
<1>4. Advances(cur)' = {}
  BY <1>1, <1>2 DEF Advances
<1> QED BY <1>3, <1>4

LEMMA PointerReplaced ==
  ASSUME AcceptInv, JournalInv, Replace
  PROVE  /\ UNCHANGED <<log, contexts, iters, cur, write>> /\ pc' = "replaced" /\ pc = "intended"
         /\ files' = [files EXCEPT ![write.path] = log[write.row].after]
         /\ PointerRows(log, files'[Sub]) =
              PointerRows(log, files[Sub]) \cup (IF Advancing THEN {write.row} ELSE {})
<1>1. /\ UNCHANGED <<log, contexts, iters, cur, write>> /\ pc' = "replaced" /\ pc = "intended"
      /\ files' = [files EXCEPT ![write.path] = log[write.row].after]
  BY DEF Replace, records, counters
<1>2. /\ write.path \in Paths /\ write.row \in Pending(log, write.path)
      /\ Advancing <=> IsPointerRow(log[write.row])
  BY <1>1 DEF JournalInv, WriteIsOpen, Writing
<1>3. CASE write.path = Sub
  <2>1. files'[Sub] = log[write.row].after
    BY <1>1, <1>3 DEF AcceptInv, Typed
  <2>2. Advancing => files[Sub] # log[write.row].after
    <3>1. Advancing => /\ log[write.row].after.current_step = Context.step + 1
                       /\ files[Sub].current_step = Context.step /\ Context.step \in Nat
      BY <1>1, TreesFit, AcceptBoundsAssumption DEF JournalInv, WriteIsOpen, Between
    <3> QED BY <3>1
  <2> QED BY <1>1, <1>2, <1>3, <2>1, <2>2, ReplacingMovesPointer DEF JournalInv
<1>4. CASE write.path # Sub
  <2>1. ~Advancing
    BY <1>4 DEF JournalInv, WriteIsOpen
  <2>2. files'[Sub] = files[Sub]
    BY <1>1, <1>4
  <2> QED BY <1>1, <2>1, <2>2
<1> QED BY <1>3, <1>4

LEMMA AdvancesReplaced ==
  ASSUME AcceptInv, JournalInv, Replace, NEW i \in 1 .. iters
  PROVE  Advances(i)' = Advances(i) \cup (IF Advancing /\ i = cur THEN {write.row} ELSE {})
<1> DEFINE In(n) == /\ n > contexts[i].cursor
                    /\ log[n].to = [current_step |-> contexts[i].step + 1, status |-> "in-progress"]
                    /\ \A j \in Iterations : contexts[j] # NoContext /\ j > i => n <= contexts[j].cursor
<1>0. UNCHANGED <<log, contexts, iters, cur, write>> /\ pc = "intended"
  BY PointerReplaced
<1>1. Advances(i) = {n \in PointerRows(log, files[Sub]) : In(n)}
  BY DEF Advances, PointerRows, IsPointerRow, InEffect, Written
<1>2. Advances(i)' = {n \in PointerRows(log, files'[Sub]) : In(n)}
  BY <1>0 DEF Advances, PointerRows, IsPointerRow, InEffect, Written
<1>3. PointerRows(log, files'[Sub]) =
        PointerRows(log, files[Sub]) \cup (IF Advancing THEN {write.row} ELSE {})
  BY PointerReplaced
<1>4. ASSUME Advancing PROVE In(write.row) <=> i = cur
  <2>1. /\ write.row \in Pending(log, Sub) /\ log[write.row].to = PointerTo(cur)
        /\ cur = iters /\ cur \in Iterations /\ iters \in Nat /\ contexts[cur] # NoContext
        /\ cur \in 1 .. iters
    BY <1>0, <1>4, CurIsFit
       DEF JournalInv, WriteIsOpen, CurIsLast, CurFits, Writing, Between, AcceptInv, Numbered
  <2>2. write.row > contexts[cur].cursor
    BY <2>1 DEF JournalInv, Windows
  <2>3. \A j \in Iterations : contexts[j] # NoContext => j <= iters
    BY <2>1, AcceptBoundsAssumption DEF AcceptInv, Numbered, Iterations
  <2>4. write.row \in Nat /\ contexts[cur].cursor \in Nat
    BY <2>1 DEF JournalInv, Windows, JournalFits, IsRows, Pending
  <2>5. CASE i = cur
    <3>1. \A j \in Iterations : ~(contexts[j] # NoContext /\ j > i)
      BY <2>1, <2>3, <2>5, AcceptBoundsAssumption DEF Iterations
    <3> QED BY <2>1, <2>2, <2>5, <3>1 DEF PointerTo
  <2>6. CASE i # cur
    <3>1. cur > i
      BY <2>1, <2>6
    <3> QED BY <2>1, <2>2, <2>4, <2>6, <3>1
  <2> QED BY <2>5, <2>6
<1> HIDE DEF In
<1> QED BY <1>1, <1>2, <1>3, <1>4

LEMMA JournalFitsStep ==
  ASSUME AcceptInv, JournalInv, JournalMoves
  PROVE  JournalFits(log)'
<1>1. CASE Elsewhere
  BY <1>1 DEF Elsewhere, JournalInv
<1>2. CASE Replace
  BY <1>2, PointerReplaced DEF JournalInv
<1>3. CASE Opens \/ Closes \/ Freezes \/ Changes
  BY <1>3 DEF Opens, Closes, Freezes, Changes
<1> QED BY <1>1, <1>2, <1>3 DEF JournalMoves

LEMMA WriteIsOpenStep ==
  ASSUME AcceptInv, AcceptInv', JournalInv, JournalMoves
  PROVE  WriteIsOpen'
<1> USE DEF WriteIsOpen, Writing, Advancing
<1>1. CASE Elsewhere
  <2>1. CASE Writing'
    <3>1. UNCHANGED <<pc, write, cur, files, log, contexts>>
      BY <1>1, <2>1 DEF Elsewhere
    <3>2. WriteIsOpen' <=> WriteIsOpen
      BY <3>1 DEF PointerTo, Context
    <3> QED BY <3>2 DEF JournalInv
  <2>2. CASE ~Writing'
    BY <2>2
  <2> QED BY <2>1, <2>2
<1>2. CASE Replace
  <2>1. /\ UNCHANGED <<log, contexts, iters, cur, write>> /\ pc' = "replaced" /\ pc = "intended"
        /\ files' = [files EXCEPT ![write.path] = log[write.row].after]
    BY <1>2, PointerReplaced
  <2>2. write.path \in DOMAIN files
    BY <2>1 DEF AcceptInv, Typed, JournalInv, Paths
  <2>3. files'[write.path] = log[write.row].after
    BY <2>1, <2>2
  <2>4. /\ write.path \in Paths /\ write.row \in Pending(log, write.path)
        /\ Advancing <=> IsPointerRow(log[write.row])
        /\ Advancing => /\ write.path = Sub /\ log[write.row].to = PointerTo(cur)
                        /\ log[write.row].after.current_step = Context.step + 1
    BY <2>1 DEF JournalInv
  <2> QED BY <2>1, <2>3, <2>4 DEF PointerTo, Context
<1>3. CASE Opens
  BY <1>3 DEF Opens, PointerTo, Context
<1>4. CASE Closes
  <2>1. pc' \notin {"intended", "replaced"}
    BY <1>4 DEF Closes, AcceptInv, WriteFits, Thens
  <2> QED BY <2>1
<1>5. CASE Freezes
  BY <1>5 DEF Freezes
<1>6. CASE Changes
  BY <1>6 DEF Changes
<1> QED BY <1>1, <1>2, <1>3, <1>4, <1>5, <1>6 DEF JournalMoves

LEMMA WindowsStep ==
  ASSUME AcceptInv, JournalInv, JournalMoves
  PROVE  Windows'
<1>0. /\ \A i \in 1 .. iters : contexts[i].cursor \in 0 .. Len(log)
      /\ \A i, j \in 1 .. iters : i <= j => contexts[i].cursor <= contexts[j].cursor
      /\ iters > 0 => \A n \in Pending(log, Sub) : n > contexts[iters].cursor
      /\ iters \in Nat
  BY CurIsFit DEF JournalInv, Windows, CurFits
<1>1. CASE Elsewhere
  BY <1>0, <1>1 DEF Elsewhere, Windows
<1>2. CASE Replace
  BY <1>0, <1>2, PointerReplaced DEF Windows
<1>3. CASE Opens \/ Closes \/ Changes
  <2>1. Len(log) \in Nat /\ Len(log') \in Nat /\ Len(log) <= Len(log')
    BY <1>3 DEF Opens, Closes, Changes, Kept
  <2>2. UNCHANGED <<contexts, iters>> /\ Sub \in Paths
    BY <1>3 DEF Opens, Closes, Changes, Paths
  <2>3. \A n \in Pending(log', Sub) : n \in Pending(log, Sub) \/ (n > Len(log) /\ n \in Nat)
    <3>1. \A n \in Pending(log', Sub) : n \in Nat
      BY <1>3 DEF Opens, Closes, Changes, Kept, Pending
    <3> QED BY <1>3, <2>2, <3>1 DEF Opens, Closes, Changes
  <2>4. \A i \in 1 .. iters : contexts[i].cursor \in 0 .. Len(log')
    BY <1>0, <2>1
  <2>5. iters > 0 => contexts[iters].cursor \in 0 .. Len(log)
    BY <1>0
  <2>6. iters > 0 => \A n \in Pending(log', Sub) : n > contexts[iters].cursor
    BY <1>0, <2>1, <2>3, <2>5
  <2> QED BY <1>0, <2>2, <2>4, <2>6 DEF Windows
<1>4. CASE Freezes
  <2>1. Len(log) \in Nat /\ Len(log') \in Nat /\ Len(log) <= Len(log')
    BY <1>4 DEF Freezes, Kept
  <2>2. /\ iters' = iters + 1 /\ cur' = iters + 1 /\ contexts'[iters + 1].cursor = Len(log')
        /\ Pending(log', Sub) = {}
    BY <1>4 DEF Freezes, Paths
  <2>3. \A i \in 1 .. iters : contexts'[i] = contexts[i]
    BY <1>0, <1>4, <2>2, AcceptBoundsAssumption DEF Freezes, Iterations
  <2>4. \A i \in 1 .. iters + 1 : i \in 1 .. iters \/ i = iters + 1
    BY <1>0
  <2>5. \A i \in 1 .. iters : contexts'[i].cursor \in 0 .. Len(log) /\ contexts'[i].cursor \in 0 .. Len(log')
    BY <1>0, <2>1, <2>3
  <2>6. \A i \in 1 .. iters' : contexts'[i].cursor \in 0 .. Len(log')
    BY <2>1, <2>2, <2>4, <2>5
  <2>7. \A i, j \in 1 .. iters' : i <= j => contexts'[i].cursor <= contexts'[j].cursor
    BY <1>0, <2>1, <2>2, <2>3, <2>4, <2>5
  <2> QED BY <2>2, <2>6, <2>7 DEF Windows
<1> QED BY <1>1, <1>2, <1>3, <1>4 DEF JournalMoves

LEMMA ContractGrowsStep ==
  ASSUME AcceptInv, JournalInv, JournalMoves
  PROVE  ContractGrows'
<1>0. /\ \A i \in 1 .. iters : contexts[i].contract \in Nat
                               /\ contexts[i].contract <= files[Sub].contract
      /\ files[Sub].contract \in Nat /\ iters \in Nat
  BY CurIsFit, ContentFields DEF JournalInv, ContractGrows, CurFits, AcceptInv, Typed
<1>1. CASE Elsewhere
  BY <1>0, <1>1 DEF Elsewhere, ContractGrows
<1>2. CASE Replace
  <2>1. files'[Sub].contract = files[Sub].contract
    BY <1>2, PointerReplaced DEF JournalInv, WriteIsOpen, AcceptInv, Typed
  <2> QED BY <1>0, <1>2, <2>1, PointerReplaced DEF ContractGrows
<1>3. CASE Opens \/ Closes
  BY <1>0, <1>3 DEF Opens, Closes, ContractGrows
<1>4. CASE Changes
  <2>1. files'[Sub].contract \in {files[Sub].contract, files[Sub].contract + 1}
    BY <1>4 DEF Changes
  <2>2. UNCHANGED <<contexts, iters>>
    BY <1>4 DEF Changes
  <2> QED BY <1>0, <2>1, <2>2 DEF ContractGrows
<1>5. CASE Freezes
  <2>1. /\ iters' = iters + 1 /\ cur' = iters + 1
        /\ contexts'[iters + 1].contract = files[Sub].contract /\ files' = files
    BY <1>5 DEF Freezes
  <2>2. \A i \in 1 .. iters : contexts'[i] = contexts[i]
    BY <1>0, <1>5, <2>1, AcceptBoundsAssumption DEF Freezes, Iterations
  <2>3. \A i \in 1 .. iters + 1 : i \in 1 .. iters \/ i = iters + 1
    BY <1>0
  <2> QED BY <1>0, <2>1, <2>2, <2>3 DEF ContractGrows
<1> QED BY <1>1, <1>2, <1>3, <1>4, <1>5 DEF JournalMoves

LEMMA CurIsLastStep ==
  ASSUME AcceptInv, AcceptInv', JournalInv, Moves
  PROVE  CurIsLast'
<1>0. /\ pc \notin Between => cur = iters
      /\ Unfinished \subseteq {iters} /\ CurFits
  BY CurIsFit DEF JournalInv, CurIsLast
<1> USE DEF CurIsLast, Unfinished, Received
<1>1. CASE Rests \/ Readies \/ Finds \/ Turns \/ Revalidates \/ Stages \/ Adopts \/ Checks
           \/ Reloads \/ Resumes
  BY <1>0, <1>1 DEF Rests, Ends, Fails, Proceeds, Readies, Finds, Turns, Revalidates, Stages,
                    Adopts, Checks, Reloads, Resumes, Quiet, Between, Later
<1>2. CASE Dispatches
  <2>1. Unfinished' = {}
    BY <1>2 DEF Dispatches, AcceptInv, OneOpen
  <2> QED BY <1>2, <2>1 DEF Dispatches
<1>3. CASE Gates \/ Regates \/ RegatesRed
  BY <1>0, <1>3 DEF Gates, Regates, RegatesRed, MeasuresOnly, Between
<1>4. CASE Promises \/ Prepares \/ Records
  BY <1>0, <1>4 DEF Promises, Prepares, Records, Receives, Between
<1>5. CASE MakesCommit \/ Marks \/ Overtakes
  BY <1>0, <1>5 DEF MakesCommit, Marks, Overtakes, Appends, Between
<1>6. CASE Begins \/ Replaces \/ Finishes \/ Replans \/ Idles
  BY <1>0, <1>6 DEF Begins, Replaces, Finishes, Replans, Idles, PlanOnly, Between
<1>7. CASE Concludes
  BY <1>0, <1>7 DEF Concludes, Between
<1> QED BY <1>1, <1>2, <1>3, <1>4, <1>5, <1>6, <1>7 DEF Moves

LEMMA PointerMovedStep ==
  ASSUME AcceptInv, AcceptInv', JournalInv, JournalMoves
  PROVE  PointerMoved'
<1>0. /\ \A i \in 1 .. iters : Advances(i) # {} =>
           files[Sub].current_step > contexts[i].step \/ files[Sub].contract > contexts[i].contract
      /\ iters > 0 /\ files[Sub].current_step > contexts[iters].step => Advances(iters) # {}
      /\ files[Sub].contract \in Nat /\ files[Sub].current_step \in Nat /\ iters \in Nat
      /\ \A i \in 1 .. iters : contexts[i].step \in Nat /\ contexts[i].step <= Steps - 1
      /\ Steps \in Nat \ {0}
  <2>1. Steps \in Nat \ {0}
    BY AcceptBoundsAssumption
  <2> QED BY <2>1, CurIsFit, ContentFields
          DEF JournalInv, PointerMoved, CurFits, AcceptInv, Typed, Numbered
<1>1. CASE Elsewhere
  <2>1. \A i : Advances(i)' = Advances(i)
    BY <1>1 DEF Elsewhere, Advances
  <2> QED BY <1>0, <1>1, <2>1 DEF Elsewhere, PointerMoved
<1>2. CASE Replace
  <2>1. /\ UNCHANGED <<log, contexts, iters, cur, write>> /\ pc = "intended"
        /\ files' = [files EXCEPT ![write.path] = log[write.row].after]
    BY <1>2, PointerReplaced
  <2>2. files'[Sub].contract = files[Sub].contract
    BY <2>1 DEF JournalInv, WriteIsOpen, AcceptInv, Typed
  <2>3. CASE Advancing
    <3>1. /\ files[Sub].current_step = Context.step /\ files'[Sub].current_step = Context.step + 1
          /\ cur = iters /\ cur \in 1 .. iters
      BY <2>1, <2>3, CurIsFit DEF JournalInv, WriteIsOpen, CurIsLast, Between, AcceptInv, Typed, CurFits
    <3>2. Advances(iters)' # {}
      BY <1>2, <2>1, <2>3, <3>1, AdvancesReplaced
    <3>3. ASSUME NEW i \in 1 .. iters, Advances(i)' # {}
          PROVE  files'[Sub].current_step > contexts[i].step
                 \/ files'[Sub].contract > contexts[i].contract
      <4>1. CASE i = cur
        BY <1>0, <3>1, <4>1 DEF Context
      <4>2. CASE i # cur
        <5>1. Advances(i) # {}
          BY <1>2, <3>3, <4>2, AdvancesReplaced
        <5>2. Context.step \in Nat
          BY <1>0, <3>1 DEF Context
        <5> QED BY <1>0, <2>2, <3>1, <3>3, <5>1, <5>2
      <4> QED BY <4>1, <4>2
    <3> QED BY <2>1, <3>2, <3>3 DEF PointerMoved
  <2>4. CASE ~Advancing
    <3>1. files'[Sub].current_step = files[Sub].current_step
      BY <2>1, <2>4 DEF AcceptInv, Typed, WriteFits
    <3>2. \A i \in 1 .. iters : Advances(i)' = Advances(i)
      BY <1>2, <2>4, AdvancesReplaced
    <3>3. iters > 0 => iters \in 1 .. iters
      BY <1>0
    <3> QED BY <1>0, <2>1, <2>2, <3>1, <3>2, <3>3 DEF PointerMoved
  <2> QED BY <2>3, <2>4
<1>3. CASE Opens \/ Closes
  <2>1. \A i : Advances(i)' = Advances(i)
    BY <1>3, AdvancesStay DEF Opens, Closes
  <2> QED BY <1>0, <1>3, <2>1 DEF Opens, Closes, PointerMoved
<1>4. CASE Changes
  <2>1. \A i : Advances(i)' = Advances(i)
    BY <1>4, AdvancesStay DEF Changes
  <2>2. UNCHANGED <<contexts, iters>>
    BY <1>4 DEF Changes
  <2>3. CASE UNCHANGED <<files[Sub].current_step, files[Sub].contract>>
    BY <1>0, <2>1, <2>2, <2>3 DEF PointerMoved
  <2>4. CASE /\ files'[Sub].contract = files[Sub].contract + 1
             /\ files'[Sub].current_step = Steps - 1 /\ files[Sub].current_step >= Steps - 1
    <3>1. \A i \in 1 .. iters : files'[Sub].contract > contexts[i].contract
      BY <1>0, <2>4 DEF JournalInv, ContractGrows
    <3>2. iters > 0 => iters \in 1 .. iters
      BY <1>0
    <3>3. iters > 0 /\ files'[Sub].current_step > contexts[iters].step => Advances(iters) # {}
      BY <1>0, <2>4, <3>2
    <3> QED BY <2>1, <2>2, <3>1, <3>3 DEF PointerMoved
  <2> QED BY <1>4, <2>3, <2>4 DEF Changes
<1>5. CASE Freezes
  <2>1. /\ iters' = iters + 1 /\ cur' = iters + 1
        /\ contexts'[iters + 1].step = files[Sub].current_step /\ files' = files
    BY <1>5 DEF Freezes
  <2>2. \A i \in 1 .. iters : contexts'[i] = contexts[i]
    BY <1>0, <1>5, <2>1, AcceptBoundsAssumption DEF Freezes, Iterations
  <2>3. \A i \in 1 .. iters + 1 : i \in 1 .. iters \/ i = iters + 1
    BY <1>0
  <2>4. \A i \in 1 .. iters : Advances(i)' = Advances(i)
    BY <1>5, AdvancesFrozen
  <2>5. Advances(cur)' = {} /\ iters' = cur'
    BY <1>5, <2>1, AdvancesFrozen
  <2>6. ~(files'[Sub].current_step > contexts'[iters'].step)
    BY <1>0, <2>1
  <2> QED BY <1>0, <2>1, <2>2, <2>3, <2>4, <2>5, <2>6 DEF PointerMoved
<1> QED BY <1>1, <1>2, <1>3, <1>4, <1>5 DEF JournalMoves

LEMMA AtStartStep ==
  ASSUME AcceptInv, AcceptInv', JournalInv, JournalMoves
  PROVE  AtStart'
<1> USE DEF AtStart, Writing, Advancing
<1>1. CASE Elsewhere
  <2>1. \A i : Advances(i)' = Advances(i)
    BY <1>1 DEF Elsewhere, Advances
  <2>2. CASE pc' = "advance" /\ pc # "advance"
    <3>1. cur' = cur /\ Valid /\ cur \in 1 .. iters
      BY <1>1, <2>2 DEF Elsewhere, AcceptInv, Numbered, Between
    <3>2. Advances(cur) = {}
      <4>1. files[Sub].contract = contexts[cur].contract /\ files[Sub].current_step = contexts[cur].step
        BY <3>1 DEF Valid, Context
      <4>2. files[Sub].contract \in Nat /\ files[Sub].current_step \in Nat
        BY ContentFields, AcceptBoundsAssumption DEF AcceptInv, Typed
      <4> QED BY <3>1, <4>1, <4>2 DEF JournalInv, PointerMoved
    <3> QED BY <2>1, <3>1, <3>2
  <2>3. CASE pc' = "advance" /\ pc = "advance"
    BY <1>1, <2>1, <2>3 DEF Elsewhere, JournalInv
  <2>4. CASE pc' = "intended"
    BY <1>1, <2>1, <2>4 DEF Elsewhere, JournalInv
  <2> QED BY <2>2, <2>3, <2>4
<1>2. CASE Replace
  BY <1>2, PointerReplaced
<1>3. CASE Opens
  <2>1. \A i : Advances(i)' = Advances(i)
    BY <1>3, AdvancesStay DEF Opens
  <2> QED BY <1>3, <2>1 DEF Opens, JournalInv
<1>4. CASE Closes
  BY <1>4 DEF Closes, AcceptInv, WriteFits, Thens
<1>5. CASE Freezes
  BY <1>5 DEF Freezes
<1>6. CASE Changes
  <2>1. \A i : Advances(i)' = Advances(i)
    BY <1>6, AdvancesStay DEF Changes
  <2> QED BY <1>6, <2>1 DEF Changes, JournalInv
<1> QED BY <1>1, <1>2, <1>3, <1>4, <1>5, <1>6 DEF JournalMoves

LEMMA OneAdvanceStep ==
  ASSUME AcceptInv, AcceptInv', JournalInv, JournalMoves
  PROVE  OneAdvance'
<1>0. /\ \A i \in 1 .. iters : \A n, m \in Advances(i) : n = m
      /\ iters \in Nat
  BY CurIsFit DEF JournalInv, OneAdvance, CurFits
<1>1. CASE Elsewhere
  <2>1. \A i : Advances(i)' = Advances(i)
    BY <1>1 DEF Elsewhere, Advances
  <2> QED BY <1>0, <1>1, <2>1 DEF Elsewhere, OneAdvance
<1>2. CASE Replace
  <2>1. UNCHANGED iters /\ pc = "intended"
    BY <1>2, PointerReplaced
  <2>2. Advancing => Advances(cur) = {}
    BY <2>1 DEF JournalInv, AtStart
  <2>3. ASSUME NEW i \in 1 .. iters PROVE \A n, m \in Advances(i)' : n = m
    <3>1. Advances(i)' = Advances(i) \cup (IF Advancing /\ i = cur THEN {write.row} ELSE {})
      BY <1>2, AdvancesReplaced
    <3> QED BY <1>0, <2>2, <3>1
  <2> QED BY <2>1, <2>3 DEF OneAdvance
<1>3. CASE Opens \/ Closes \/ Changes
  <2>1. \A i : Advances(i)' = Advances(i)
    BY <1>3, AdvancesStay DEF Opens, Closes, Changes
  <2> QED BY <1>0, <1>3, <2>1 DEF Opens, Closes, Changes, OneAdvance
<1>4. CASE Freezes
  <2>1. iters' = iters + 1 /\ cur' = iters + 1
    BY <1>4 DEF Freezes
  <2>2. \A i \in 1 .. iters + 1 : i \in 1 .. iters \/ i = iters + 1
    BY <1>0
  <2>3. \A i \in 1 .. iters : Advances(i)' = Advances(i)
    BY <1>4, AdvancesFrozen
  <2>4. Advances(cur)' = {} /\ iters' = cur'
    BY <1>4, <2>1, AdvancesFrozen
  <2> QED BY <1>0, <2>1, <2>2, <2>3, <2>4 DEF OneAdvance
<1> QED BY <1>1, <1>2, <1>3, <1>4 DEF JournalMoves

LEMMA JournalStep == AcceptInv /\ AcceptInv' /\ JournalInv /\ [Next]_vars => JournalInv'
<1> SUFFICES ASSUME AcceptInv, AcceptInv', JournalInv, [Next]_vars PROVE JournalInv'
  OBVIOUS
<1>1. JournalMoves /\ Moves
  BY StepJournal, StepMoves
<1> QED BY <1>1, JournalFitsStep, WriteIsOpenStep, WindowsStep, ContractGrowsStep, CurIsLastStep,
           PointerMovedStep, AtStartStep, OneAdvanceStep DEF JournalInv

LEMMA JournalInit == Init => JournalInv
<1> SUFFICES ASSUME Init PROVE JournalInv
  OBVIOUS
<1>1. /\ log = <<>> /\ iters = 0 /\ pc = "down"
      /\ \A i \in Iterations : receipts[i] = NoReceipt
  BY DEF Init
<1>2. JournalFits(log)
  <2>1. DOMAIN log = {} /\ IsRows(log)
    BY <1>1 DEF IsRows
  <2> QED BY <2>1 DEF JournalFits, Pending
<1>3. WriteIsOpen /\ AtStart
  BY <1>1 DEF WriteIsOpen, AtStart, Writing, Advancing
<1>4. Windows /\ ContractGrows /\ PointerMoved /\ OneAdvance
  BY <1>1 DEF Windows, ContractGrows, PointerMoved, OneAdvance
<1>5. CurIsLast
  BY <1>1 DEF CurIsLast, Unfinished, Received, Between
<1> QED BY <1>2, <1>3, <1>4, <1>5 DEF JournalInv

\* An intent is known by its position and pending in at most one row per path,
\* and what it says of the pointer outlives whoever completes it.
THEOREM JournalInductive == Spec => [](AcceptInv /\ JournalInv)
<1>1. Init => AcceptInv /\ JournalInv
  BY InitHolds, JournalInit
<1>2. (AcceptInv /\ JournalInv) /\ [Next]_vars => (AcceptInv /\ JournalInv)'
  BY InvStep, JournalStep
<1> QED BY <1>1, <1>2, PTL DEF Spec

\* However often the driver is killed and recovers it, an iteration changes the
\* branch at most once and moves the pointer at most once: a recovery commits
\* only at the base, and begins no second transition when it finds the pointer moved.
THEOREM IterationsChangeOnce == Spec => []ChangesOnce
<1>1. AcceptInv /\ JournalInv => AdvancesOnce
  <2> SUFFICES ASSUME AcceptInv, JournalInv, NEW i \in Dispatched
               PROVE  Cardinality(Advances(i)) <= 1
    BY DEF AdvancesOnce
  <2>1. i \in 1 .. iters
    BY CurIsFit, AcceptBoundsAssumption DEF CurFits, AcceptInv, Numbered, Dispatched, Iterations
  <2>2. \A n, m \in Advances(i) : n = m
    BY <2>1 DEF JournalInv, OneAdvance
  <2>3. Advances(i) = {} \/ \E n \in Advances(i) : Advances(i) = {n}
    BY <2>2
  <2>4. Cardinality({}) = 0 /\ \A n \in Advances(i) : Cardinality({n}) = 1
    BY FS_EmptySet, FS_Singleton
  <2> QED BY <2>3, <2>4
<1> QED BY <1>1, JournalInductive, IterationsCommitOnce, PTL DEF ChangesOnce

-----------------------------------------------------------------------------
(* From an advance to its proof row.                                        *)

\* The pointer has moved and the receipt says so.
Past == {"findings", "project"} \cup Later

\* At a place, or in a transition that leads there.
Reaches(places) == pc \in places \/ (Writing /\ write.then \in places)

\* The receipt of the iteration at work is the acceptance at work.
Holding ==
  pc \in {"transaction", "advance", "advanced", "explain"} \/ Advancing \/ Reaches(Past)

Working == pc \notin Between \cup {"closed", "complete"} /\ ~(Writing /\ write.then = "ready")

\* An iteration at work is not closed, nor one that was not dispatched.
OpenOnes ==
  /\ \A i \in Iterations : i > iters => closes[i] = NoClose
  /\ \A i \in Iterations : closes[i].result = "none" => closes[i] = NoClose
  /\ Working => closes[cur] = NoClose

AdvanceFollows ==
  /\ Reaches(Past) \/ pc \in {"advanced", "explain"} => Advances(cur) # {}
  /\ pc = "replaced" /\ Advancing => Advances(cur) # {}
  /\ \A i \in 1 .. iters : closes[i].result = "passed" => Advances(i) # {}
  /\ \A i \in 1 .. iters : Advances(i) # {} \/ OwnCommits(i) # {} => receipts[i] # NoReceipt
  /\ \A i, j \in 1 .. iters : i < j /\ Advances(i) # {} =>
       contexts[j].step > contexts[i].step \/ contexts[j].contract > contexts[i].contract

ReceiptIsAcc ==
  Holding =>
    /\ receipts[cur] # NoReceipt /\ receipts[cur].phase \in {"prepared", "advanced"}
    /\ receipts[cur].tree = acc.tree /\ receipts[cur].measured = acc.measured
    /\ receipts[cur].head = acc.head /\ receipts[cur].made = acc.made
    /\ Reaches(Past) => receipts[cur].phase = "advanced"

GateHolds == Reaches(Past) => Gated(cur, acc.measured)

Continues == UNCHANGED <<history, contexts, receipts, closes, iters, cur, acc>>

LEMMA PastStep ==
  ASSUME AcceptInv, Moves, Reaches(Past)'
  PROVE  (Reaches(Past) /\ Continues) \/ Records
<1> USE DEF Reaches, Past, Later, Writing, Continues
<1>1. CASE Rests \/ Readies \/ Finds \/ Dispatches \/ Turns \/ Gates \/ Revalidates
  BY <1>1 DEF Rests, Ends, Fails, Proceeds, Readies, Finds, Dispatches, Turns, Gates,
              Revalidates, Quiet, Between
<1>2. CASE Promises \/ Stages \/ MakesCommit \/ Adopts \/ Checks \/ Regates \/ RegatesRed
           \/ Prepares \/ Reloads \/ Resumes \/ Concludes
  BY <1>2 DEF Promises, Stages, MakesCommit, Adopts, Checks, Regates, RegatesRed, Prepares,
              Reloads, Resumes, Concludes
<1>3. CASE Begins \/ Replaces \/ Finishes \/ Replans \/ Idles
  BY <1>3 DEF Begins, Replaces, Finishes, Replans, Idles, PlanOnly, AcceptInv, WriteFits, Thens
<1>4. CASE Marks \/ Overtakes
  BY <1>4 DEF Marks, Overtakes, Appends
<1> QED BY <1>1, <1>2, <1>3, <1>4 DEF Moves

LEMMA LaterStep ==
  ASSUME AcceptInv, Moves, Reaches(Later)'
  PROVE  /\ Continues
         /\ Reaches(Later) \/ (pc = "project" /\ Projectable /\ UNCHANGED commits)
<1> USE DEF Reaches, Later, Writing, Continues
<1>1. CASE Rests \/ Readies \/ Finds \/ Dispatches \/ Turns \/ Gates \/ Revalidates
  BY <1>1 DEF Rests, Ends, Fails, Proceeds, Readies, Finds, Dispatches, Turns, Gates,
              Revalidates, Quiet, Between
<1>2. CASE Promises \/ Stages \/ MakesCommit \/ Adopts \/ Checks \/ Regates \/ RegatesRed
           \/ Prepares \/ Reloads \/ Resumes \/ Concludes \/ Records
  BY <1>2 DEF Promises, Stages, MakesCommit, Adopts, Checks, Regates, RegatesRed, Prepares,
              Reloads, Resumes, Concludes, Records
<1>3. CASE Begins \/ Replaces \/ Finishes \/ Replans \/ Idles
  BY <1>3 DEF Begins, Replaces, Finishes, Replans, Idles, PlanOnly, AcceptInv, WriteFits, Thens
<1>4. CASE Marks \/ Overtakes
  BY <1>4 DEF Marks, Overtakes, Appends
<1> QED BY <1>1, <1>2, <1>3, <1>4 DEF Moves

LEMMA HoldingStep ==
  ASSUME AcceptInv, Moves, Holding'
  PROVE  \/ Holding /\ Continues /\ (Reaches(Past)' => Reaches(Past))
         \/ Prepares \/ Records \/ (Reloads /\ pc' = "transaction") \/ Resumes
<1> USE DEF Holding, Reaches, Past, Later, Writing, Advancing, Continues
<1>1. CASE Rests \/ Readies \/ Finds \/ Dispatches \/ Turns \/ Gates \/ Revalidates
  BY <1>1 DEF Rests, Ends, Fails, Proceeds, Readies, Finds, Dispatches, Turns, Gates,
              Revalidates, Quiet, Between
<1>2. CASE Promises \/ Stages \/ MakesCommit \/ Adopts \/ Checks \/ Regates \/ RegatesRed
           \/ Prepares \/ Reloads \/ Resumes \/ Concludes \/ Records
  BY <1>2 DEF Promises, Stages, MakesCommit, Adopts, Checks, Regates, RegatesRed, Prepares,
              Reloads, Resumes, Concludes, Records
<1>3. CASE Begins
  BY <1>3 DEF Begins, PlanOnly
<1>4. CASE Replaces \/ Finishes \/ Replans \/ Idles
  BY <1>4 DEF Replaces, Finishes, Replans, Idles, PlanOnly, AcceptInv, WriteFits, Thens
<1>5. CASE Marks \/ Overtakes
  BY <1>5 DEF Marks, Overtakes, Appends
<1> QED BY <1>1, <1>2, <1>3, <1>4, <1>5 DEF Moves

LEMMA AdvancesGrow ==
  ASSUME AcceptInv, JournalInv, JournalMoves
  PROVE  /\ \A i \in 1 .. iters : Advances(i) \subseteq Advances(i)'
         /\ \A i \in 1 .. iters :
              Advances(i)' # {} => Advances(i) # {} \/ (pc = "intended" /\ Advancing /\ i = cur)
         /\ pc = "intended" /\ pc' = "replaced" /\ Advancing => Advances(cur)' # {}
         /\ iters' # iters => cur' = iters' /\ iters' = iters + 1 /\ Advances(cur)' = {}
<1>1. CASE Elsewhere
  <2>1. \A i : Advances(i)' = Advances(i)
    BY <1>1 DEF Elsewhere, Advances
  <2> QED BY <1>1, <2>1 DEF Elsewhere
<1>2. CASE Replace
  <2>1. UNCHANGED <<iters, cur>> /\ pc = "intended"
    BY <1>2, PointerReplaced
  <2>2. cur \in 1 .. iters
    BY <2>1, CurIsFit DEF CurFits, Between
  <2> QED BY <1>2, <2>1, <2>2, AdvancesReplaced
<1>3. CASE Opens \/ Closes \/ Changes
  <2>1. \A i : Advances(i)' = Advances(i)
    BY <1>3, AdvancesStay DEF Opens, Closes, Changes
  <2> QED BY <1>3, <2>1 DEF Opens, Closes, Changes
<1>4. CASE Freezes
  <2>1. /\ \A i \in 1 .. iters : Advances(i)' = Advances(i)
        /\ Advances(cur)' = {}
    BY <1>4, AdvancesFrozen
  <2> QED BY <1>4, <2>1 DEF Freezes
<1> QED BY <1>1, <1>2, <1>3, <1>4 DEF JournalMoves

\* The branch and the receipts of the last iteration.
HeadsFollow ==
  /\ \A i \in 1 .. iters : receipts[i] # NoReceipt => receipts[i].head >= contexts[i].base
  /\ pc \in {"committed", "regate", "prepare"} /\ mode = "recovery" => acc.head >= Context.base
  /\ iters > 0 => \A n \in (contexts[iters].base + 1) .. HEAD :
       /\ commits[n].kind = "step" => commits[n].iter = iters
       /\ commits[n].kind = "ship" =>
            /\ receipts[iters] # NoReceipt /\ receipts[iters].phase = "advanced"
            /\ receipts[iters].head <= HEAD
            /\ commits[receipts[iters].head].tree = receipts[iters].tree

\* What a receipt says of its own commit is so.
MadeIsOwn ==
  /\ pc \in {"gate", "revalidate", "intend", "stage", "commit", "reintend"} => acc.made = FALSE
  /\ pc \in {"committed", "regate", "prepare"} => (acc.made <=> OwnCommits(cur) # {})
  /\ \A i \in 1 .. iters : receipts[i] # NoReceipt =>
       /\ receipts[i].phase = "commit-intent" => receipts[i].made = FALSE
       /\ receipts[i].phase # "commit-intent" => (receipts[i].made <=> OwnCommits(i) # {})

\* The commit a receipt names holds a tree whose every attempt passed.
Earned(i) ==
  LET r == receipts[i] IN
  /\ r # NoReceipt /\ r.phase = "advanced"
  /\ r.head \in 1 .. HEAD /\ commits[r.head].tree = r.tree
  /\ Gated(i, r.tree)
  /\ r.made <=> OwnCommits(i) # {}

EarnedOnes ==
  /\ Reaches(Later) => Earned(cur)
  /\ \A i \in 1 .. iters : closes[i].result = "passed" => Earned(i)

PromiseInv ==
  /\ OpenOnes /\ AdvanceFollows /\ ReceiptIsAcc /\ GateHolds /\ HeadsFollow /\ MadeIsOwn
  /\ EarnedOnes

LEMMA OpenOnesStep ==
  ASSUME AcceptInv, AcceptInv', PromiseInv, Moves
  PROVE  OpenOnes'
<1>0. OpenOnes /\ CurFits
  BY CurIsFit DEF PromiseInv
<1> USE DEF OpenOnes, Working, Writing, CurFits
<1>1. CASE Rests \/ Readies \/ Turns \/ Revalidates \/ Stages \/ Adopts \/ Checks
           \/ Reloads \/ Resumes
  BY <1>0, <1>1 DEF Rests, Ends, Fails, Proceeds, Readies, Turns, Revalidates, Stages,
                    Adopts, Checks, Reloads, Resumes, Quiet, Between, Later
<1>2. CASE Finds
  BY <1>0, <1>2 DEF Finds, Quiet, Unfinished, Received
<1>3. CASE Dispatches
  BY <1>0, <1>3, AcceptBoundsAssumption DEF Dispatches, Iterations
<1>4. CASE Gates \/ Regates \/ RegatesRed
  BY <1>0, <1>4 DEF Gates, Regates, RegatesRed, MeasuresOnly, Between
<1>5. CASE Promises \/ Prepares \/ Records
  BY <1>0, <1>5 DEF Promises, Prepares, Records, Receives, Between
<1>6. CASE MakesCommit \/ Marks \/ Overtakes
  BY <1>0, <1>6 DEF MakesCommit, Marks, Overtakes, Appends, Between
<1>7. CASE Begins
  BY <1>0, <1>7 DEF Begins, PlanOnly, Between
<1>8. CASE Replaces \/ Finishes \/ Replans \/ Idles
  BY <1>0, <1>8 DEF Replaces, Finishes, Replans, Idles, PlanOnly, Between, AcceptInv, WriteFits, Thens
<1>9. CASE Concludes
  <2>1. \A i \in Iterations : i > iters => i # cur
    BY <1>0, <1>9, AcceptBoundsAssumption DEF Concludes, Iterations
  <2> QED BY <1>0, <1>9, <2>1 DEF Concludes
<1> QED BY <1>1, <1>2, <1>3, <1>4, <1>5, <1>6, <1>7, <1>8, <1>9 DEF Moves

LEMMA ReceiptIsAccStep ==
  ASSUME AcceptInv, AcceptInv', PromiseInv, Moves
  PROVE  ReceiptIsAcc'
<1> SUFFICES ASSUME Holding'
             PROVE  /\ receipts'[cur'] # NoReceipt
                    /\ receipts'[cur'].phase \in {"prepared", "advanced"}
                    /\ receipts'[cur'].tree = acc'.tree /\ receipts'[cur'].measured = acc'.measured
                    /\ receipts'[cur'].head = acc'.head /\ receipts'[cur'].made = acc'.made
                    /\ Reaches(Past)' => receipts'[cur'].phase = "advanced"
  BY DEF ReceiptIsAcc
<1>1. CASE Holding /\ Continues /\ (Reaches(Past)' => Reaches(Past))
  BY <1>1 DEF Continues, PromiseInv, ReceiptIsAcc
<1>2. CASE Prepares
  <2>1. ~Reaches(Past)'
    BY <1>2 DEF Prepares, Reaches, Past, Later, Writing
  <2> QED BY <1>2, <2>1 DEF Prepares, Receives
<1>3. CASE Records
  BY <1>3 DEF Records, Receives
<1>4. CASE Reloads /\ pc' = "transaction"
  <2>1. cur \in Iterations /\ receipts[cur] # NoReceipt /\ receipts[cur] \in ReceiptSet
    BY <1>4 DEF Reloads, AcceptInv, OneOpen, Unfinished, Received, Typed
  <2>2. receipts[cur].phase \in {"prepared", "advanced"}
    BY <1>4, <2>1, ReceiptFields DEF Reloads
  <2>3. ~Reaches(Past)'
    BY <1>4 DEF Reaches, Past, Later, Writing
  <2> QED BY <1>4, <2>1, <2>2, <2>3 DEF Reloads, Quiet
<1>5. CASE Resumes
  <2>1. Holding /\ ~Reaches(Past)'
    BY <1>5 DEF Resumes, Holding, Reaches, Past, Later, Writing
  <2> QED BY <1>5, <2>1 DEF Resumes, Quiet, PromiseInv, ReceiptIsAcc
<1> QED BY <1>1, <1>2, <1>3, <1>4, <1>5, HoldingStep

LEMMA GateHoldsStep ==
  ASSUME AcceptInv, AcceptInv', PromiseInv, Moves
  PROVE  GateHolds'
<1> SUFFICES ASSUME Reaches(Past)' PROVE Gated(cur, acc.measured)'
  BY DEF GateHolds
<1>1. CASE Reaches(Past) /\ Continues
  BY <1>1 DEF Continues, PromiseInv, GateHolds, Gated
<1>2. CASE Records
  BY <1>2 DEF Records, Receives, AcceptInv, AccGated, Gated
<1> QED BY <1>1, <1>2, PastStep

LEMMA WhoCommits == Moves => MakesCommit \/ Marks \/ Overtakes \/ commits' = commits
  BY DEF Moves, Rests, Ends, Fails, Proceeds, Readies, Finds, Dispatches, Turns, Gates, Revalidates,
         Promises, Stages, Adopts, Checks, Regates, RegatesRed, Prepares, Begins, Replaces, Finishes,
         Records, Reloads, Resumes, Concludes, Replans, Idles, PlanOnly, Quiet, MeasuresOnly, Receives

LEMMA WhoReceives == Moves => Promises \/ Prepares \/ Records \/ receipts' = receipts
  BY DEF Moves, Rests, Ends, Fails, Proceeds, Readies, Finds, Dispatches, Turns, Gates, Revalidates,
         Stages, MakesCommit, Adopts, Checks, Regates, RegatesRed, Begins, Replaces, Finishes,
         Reloads, Resumes, Marks, Overtakes, Concludes, Replans, Idles, PlanOnly, Quiet, MeasuresOnly,
         Appends

LEMMA WhoCloses == Moves => Concludes \/ closes' = closes
  BY DEF Moves, Rests, Ends, Fails, Proceeds, Readies, Finds, Dispatches, Turns, Gates, Revalidates,
         Promises, Stages, MakesCommit, Adopts, Checks, Regates, RegatesRed, Prepares, Begins, Replaces,
         Finishes, Records, Reloads, Resumes, Marks, Overtakes, Replans, Idles, PlanOnly, Quiet,
         MeasuresOnly, Receives, Appends

LEMMA WhoDispatches == Moves => Dispatches \/ UNCHANGED <<contexts, iters>>
  BY DEF Moves, Rests, Ends, Fails, Proceeds, Readies, Finds, Turns, Gates, Revalidates,
         Promises, Stages, MakesCommit, Adopts, Checks, Regates, RegatesRed, Prepares, Begins, Replaces,
         Finishes, Records, Reloads, Resumes, Marks, Overtakes, Concludes, Replans, Idles, PlanOnly,
         Quiet, MeasuresOnly, Receives, Appends

LEMMA OwnCommitsStep ==
  ASSUME AcceptInv, Moves, NEW i
  PROVE  OwnCommits(i)' = OwnCommits(i) \cup (IF MakesCommit /\ i = cur THEN {HEAD + 1} ELSE {})
<1>0. HEAD \in Nat
  BY CurIsFit DEF CurFits
<1>1. ASSUME Len(commits') = HEAD + 1, \A n \in 1 .. HEAD : commits'[n] = commits[n]
      PROVE  OwnCommits(i)' = OwnCommits(i) \cup
               (IF commits'[HEAD + 1].kind = "step" /\ commits'[HEAD + 1].iter = i
                THEN {HEAD + 1} ELSE {})
  <2>1. 1 .. HEAD' = (1 .. HEAD) \cup {HEAD + 1}
    BY <1>0, <1>1 DEF HEAD
  <2> QED BY <1>0, <1>1, <2>1 DEF OwnCommits
<1>2. CASE MakesCommit
  BY <1>1, <1>2 DEF MakesCommit, Appends
<1>3. CASE (Marks \/ Overtakes) /\ ~MakesCommit
  BY <1>1, <1>3 DEF Marks, Overtakes, Appends
<1>4. CASE commits' = commits /\ ~MakesCommit
  BY <1>4 DEF OwnCommits, HEAD
<1> QED BY <1>2, <1>3, <1>4, WhoCommits

\* Receipts are replaced, never removed.
LEMMA ReceiptsStay ==
  ASSUME AcceptInv, Moves, NEW i \in Iterations, receipts[i] # NoReceipt
  PROVE  receipts'[i] # NoReceipt
<1>1. CASE receipts' = receipts
  BY <1>1
<1>2. CASE Promises \/ Prepares \/ Records
  BY <1>2 DEF Promises, Prepares, Records, Receives
<1> QED BY <1>1, <1>2, WhoReceives

\* Who moved the pointer or committed had a receipt first.
LEMMA ReceiptFirst ==
  ASSUME AcceptInv, AcceptInv', JournalInv, PromiseInv, Moves, JournalMoves,
         NEW i \in 1 .. iters', Advances(i)' # {} \/ OwnCommits(i)' # {}
  PROVE  receipts'[i] # NoReceipt
<1>0. AdvanceFollows /\ CurFits /\ i \in Iterations
  BY CurIsFit, AcceptBoundsAssumption DEF PromiseInv, AcceptInv, Typed, Iterations
<1>1. CASE i \in 1 .. iters
  <2>1. Advances(i)' # {} => Advances(i) # {} \/ (Advancing /\ i = cur)
    BY <1>1, AdvancesGrow
  <2>2. OwnCommits(i)' # {} => OwnCommits(i) # {} \/ (pc = "commit" /\ i = cur)
    BY OwnCommitsStep DEF MakesCommit
  <2>3. Advancing \/ pc = "commit" => receipts[cur] # NoReceipt
    BY DEF PromiseInv, ReceiptIsAcc, Holding, AcceptInv, ReceiptFits
  <2>4. receipts[i] # NoReceipt
    BY <1>0, <1>1, <2>1, <2>2, <2>3 DEF AdvanceFollows
  <2> QED BY <1>0, <2>4, ReceiptsStay
<1>2. CASE i \notin 1 .. iters
  <2>1. iters' # iters /\ i = iters + 1 /\ i = cur' /\ Advances(i)' = {}
    <3>1. iters' # iters => cur' = iters' /\ iters' = iters + 1 /\ Advances(cur)' = {}
      BY AdvancesGrow
    <3>2. iters' # iters
      BY <1>2
    <3>3. i = cur'
      BY <1>0, <1>2, <3>1, <3>2 DEF CurFits
    <3> QED BY <3>1, <3>2, <3>3 DEF Advances
  <2>2. OwnCommits(i) = {}
    BY <1>0, <2>1 DEF AcceptInv, CommitsFollow, OwnCommits, CurFits
  <2>3. OwnCommits(i)' = {}
    BY <2>1, <2>2, OwnCommitsStep DEF MakesCommit, Appends
  <2> QED BY <2>1, <2>3
<1> QED BY <1>1, <1>2

\* The contexts frozen after an advance differ from the one before it.
LEMMA ContextsDiffer ==
  ASSUME AcceptInv, AcceptInv', JournalInv, PromiseInv, Moves, JournalMoves,
         NEW i \in 1 .. iters', NEW j \in 1 .. iters', i < j, Advances(i)' # {}
  PROVE  contexts'[j].step > contexts'[i].step \/ contexts'[j].contract > contexts'[i].contract
<1>0. AdvanceFollows /\ CurFits
  BY CurIsFit DEF PromiseInv
<1>g. /\ \A k \in 1 .. iters :
           Advances(k)' # {} => Advances(k) # {} \/ (pc = "intended" /\ Advancing /\ k = cur)
      /\ iters' # iters => cur' = iters' /\ iters' = iters + 1 /\ Advances(cur)' = {}
  BY AdvancesGrow
<1>1. CASE UNCHANGED <<contexts, iters>>
  <2>1. i # cur \/ pc \in Between
    BY <1>1 DEF JournalInv, CurIsLast
  <2>2. Advances(i) # {}
    BY <1>1, <1>g, <2>1 DEF Between
  <2> QED BY <1>0, <1>1, <2>2 DEF AdvanceFollows
<1>2. CASE Freezes
  <2>1. /\ iters' = iters + 1 /\ cur' = iters + 1 /\ cur' \in Iterations
        /\ contexts'[cur'].step = files[Sub].current_step
        /\ contexts'[cur'].contract = files[Sub].contract
        /\ \A k \in Iterations : k # cur' => contexts'[k] = contexts[k]
    BY <1>2 DEF Freezes
  <2>2. i \in 1 .. iters /\ i \in Iterations /\ i # cur'
    BY <1>0, <2>1, AcceptBoundsAssumption DEF CurFits, Iterations
  <2>3. contexts'[i] = contexts[i]
    BY <2>1, <2>2
  <2>4. Advances(i) # {}
    <3>1. pc # "intended"
      BY <1>0, <2>1, WhoDispatches DEF Dispatches, CurFits
    <3> QED BY <1>g, <2>2, <3>1
  <2>5. CASE j = cur'
    BY <2>1, <2>2, <2>3, <2>4, <2>5 DEF JournalInv, PointerMoved
  <2>6. CASE j # cur'
    <3>1. j \in 1 .. iters /\ contexts'[j] = contexts[j]
      BY <1>0, <2>1, <2>6, AcceptBoundsAssumption DEF CurFits, Iterations
    <3> QED BY <1>0, <2>2, <2>3, <2>4, <3>1 DEF AdvanceFollows
  <2> QED BY <2>5, <2>6
<1>3. UNCHANGED <<contexts, iters>> \/ Freezes
  BY PointerReplaced DEF JournalMoves, Opens, Closes, Changes, Elsewhere
<1> QED BY <1>1, <1>2, <1>3

LEMMA AdvanceFollowsStep ==
  ASSUME AcceptInv, AcceptInv', JournalInv, PromiseInv, Moves, JournalMoves
  PROVE  AdvanceFollows'
<1>0. AdvanceFollows /\ CurFits
  BY CurIsFit DEF PromiseInv
<1>g. /\ \A i \in 1 .. iters : Advances(i) # {} => Advances(i)' # {}
      /\ \A i \in 1 .. iters :
           Advances(i)' # {} => Advances(i) # {} \/ (pc = "intended" /\ Advancing /\ i = cur)
      /\ pc = "intended" /\ pc' = "replaced" /\ Advancing => Advances(cur)' # {}
      /\ iters' # iters => cur' = iters' /\ iters' = iters + 1 /\ Advances(cur)' = {}
  BY AdvancesGrow
<1>c. /\ pc \notin Between => cur \in 1 .. iters /\ cur = iters /\ cur \in Iterations
      /\ iters \in Nat
  BY <1>0 DEF CurFits, JournalInv, CurIsLast
<1>1. Reaches(Past)' \/ pc' \in {"advanced", "explain"} => Advances(cur)' # {}
  <2>1. ASSUME Reaches(Past) \/ pc \in {"advanced", "explain"}, cur' = cur PROVE Advances(cur)' # {}
    <3>1. cur \in 1 .. iters
      BY <2>1, <1>c DEF Reaches, Past, Later, Between, Writing
    <3> QED BY <1>0, <1>g, <2>1, <3>1 DEF AdvanceFollows
  <2>2. CASE Reaches(Past)'
    BY <2>1, <2>2, PastStep DEF Continues, Records, Receives
  <2>3. CASE pc' \in {"advanced", "explain"}
    <3>1. CASE pc' = pc /\ cur' = cur
      BY <2>1, <2>3, <3>1
    <3>2. CASE Finishes
      <4>1. Advances(cur) # {} /\ cur' = cur /\ cur \in 1 .. iters
        BY <1>0, <1>c, <2>3, <3>2
           DEF Finishes, PlanOnly, AdvanceFollows, Advancing, Writing, Between
      <4> QED BY <1>g, <4>1
    <3>3. CASE Resumes
      <4>1. /\ cur' = cur /\ cur = iters /\ cur \in 1 .. iters /\ AlreadyAdvanced
        BY <1>c, <2>3, <3>3 DEF Resumes, Between
      <4>2. files[Sub].current_step > contexts[iters].step /\ iters > 0
        BY <4>1, AcceptBoundsAssumption DEF AlreadyAdvanced, Context, AcceptInv, Numbered
      <4>3. Advances(cur) # {}
        BY <4>1, <4>2 DEF JournalInv, PointerMoved
      <4> QED BY <1>g, <4>1, <4>3
    <3> QED BY <2>3, <3>1, <3>2, <3>3
        DEF Moves, Rests, Ends, Fails, Proceeds, Readies, Finds, Dispatches, Turns, Gates, Revalidates,
            Promises, Stages, MakesCommit, Adopts, Checks, Regates, RegatesRed, Prepares, Begins,
            Replaces, Records, Reloads, Marks, Overtakes, Concludes, Replans, Idles, PlanOnly,
            Appends, Between, Later
  <2> QED BY <2>2, <2>3
<1>2. pc' = "replaced" /\ Advancing' => Advances(cur)' # {}
  <2>1. ASSUME pc' = "replaced", Advancing'
        PROVE  cur' = cur /\ write' = write /\ (pc = "intended" \/ pc = "replaced") /\ Advancing
    BY <2>1 DEF Moves, Rests, Ends, Fails, Proceeds, Readies, Finds, Dispatches, Turns, Gates, Revalidates,
            Promises, Stages, MakesCommit, Adopts, Checks, Regates, RegatesRed, Prepares, Begins,
            Replaces, Finishes, Records, Reloads, Resumes, Marks, Overtakes, Concludes, Replans, Idles,
            PlanOnly, Appends, Between, Later, Advancing, Writing, AcceptInv, WriteFits, Thens
  <2>2. ASSUME pc' = "replaced", Advancing', pc = "replaced" PROVE Advances(cur)' # {}
    <3>1. Advances(cur) # {} /\ cur' = cur /\ cur \in 1 .. iters
      BY <1>0, <1>c, <2>1, <2>2 DEF AdvanceFollows, Between
    <3> QED BY <1>g, <3>1
  <2> QED BY <1>g, <2>1, <2>2
<1>3. \A i \in 1 .. iters' : i \in 1 .. iters \/ (i = cur' /\ iters' # iters)
  <2>1. iters' \in {iters, iters + 1}
    BY <1>g
  <2> QED BY <1>c, <1>g, <2>1
<1>4. \A i \in 1 .. iters : i \in Iterations
  BY AcceptBoundsAssumption DEF AcceptInv, Typed, Iterations
<1>5. ASSUME NEW i \in 1 .. iters', closes'[i].result = "passed" PROVE Advances(i)' # {}
  <2>1. CASE i \notin 1 .. iters
    <3>1. i > iters /\ i \in Iterations /\ closes[i] = NoClose
      BY <1>0, <1>c, <2>1, AcceptBoundsAssumption
         DEF PromiseInv, OpenOnes, AcceptInv, Typed, Iterations
    <3>2. closes' = closes
      BY <1>3, <2>1, WhoDispatches DEF Dispatches
    <3> QED BY <1>5, <3>1, <3>2 DEF NoClose
  <2>2. CASE i \in 1 .. iters
    <3>1. CASE closes'[i] = closes[i]
      BY <1>0, <1>g, <1>5, <2>2, <3>1 DEF AdvanceFollows
    <3>2. CASE closes'[i] # closes[i]
      <4>1. Concludes
        BY <3>2, WhoCloses
      <4>2. i = cur /\ pc = "close"
        BY <1>4, <1>5, <2>2, <3>2, <4>1 DEF Concludes
      <4>3. Advances(cur) # {}
        BY <1>0, <4>2 DEF AdvanceFollows, Reaches, Past, Later
      <4> QED BY <1>g, <2>2, <4>2, <4>3
    <3> QED BY <3>1, <3>2
  <2> QED BY <2>1, <2>2
<1>6. \A i \in 1 .. iters' : (Advances(i) # {} \/ OwnCommits(i) # {})' => receipts'[i] # NoReceipt
  BY ReceiptFirst
<1>7. \A i, j \in 1 .. iters' : i < j /\ Advances(i)' # {} =>
        contexts'[j].step > contexts'[i].step \/ contexts'[j].contract > contexts'[i].contract
  BY ContextsDiffer
<1> QED BY <1>1, <1>2, <1>5, <1>6, <1>7 DEF AdvanceFollows

LEMMA HeadsFollowStep ==
  ASSUME AcceptInv, AcceptInv', JournalInv, PromiseInv, Moves
  PROVE  HeadsFollow'
<1>0. /\ HeadsFollow /\ CurFits /\ acc.head \in Nat
      /\ \A i \in 1 .. iters : contexts[i].base \in 1 .. HEAD /\ i \in Iterations
      /\ \A i \in Iterations : receipts[i] # NoReceipt => receipts[i].head \in Nat
  <2>1. HeadsFollow /\ CurFits /\ acc.head \in Nat
    BY CurIsFit, AccFields DEF PromiseInv, AcceptInv, Typed
  <2>2. \A i \in 1 .. iters : contexts[i].base \in 1 .. HEAD /\ i \in Iterations
    BY AcceptBoundsAssumption DEF AcceptInv, Numbered, Typed, Iterations
  <2>3. \A i \in Iterations : receipts[i] # NoReceipt => receipts[i].head \in Nat
    BY ReceiptFields DEF AcceptInv, Typed
  <2> QED BY <2>1, <2>2, <2>3
<1>c. pc \notin Between => cur = iters /\ cur \in 1 .. iters /\ cur \in Iterations
  BY <1>0 DEF CurFits, JournalInv, CurIsLast
<1>1. ASSUME NEW i \in 1 .. iters', receipts'[i] # NoReceipt
      PROVE  receipts'[i].head >= contexts'[i].base
  <2>1. CASE Dispatches
    <3>1. i # iters + 1
      BY <1>0, <1>1, <2>1 DEF Dispatches, AcceptInv, Numbered, CurFits
    <3>2. i \in 1 .. iters /\ contexts'[i] = contexts[i] /\ receipts'[i] = receipts[i]
      BY <1>0, <2>1, <3>1 DEF Dispatches, CurFits
    <3> QED BY <1>0, <1>1, <3>2 DEF HeadsFollow
  <2>2. CASE UNCHANGED <<contexts, iters, receipts>>
    BY <1>0, <1>1, <2>2 DEF HeadsFollow
  <2>3. CASE Promises
    BY <1>0, <1>1, <1>c, <2>3 DEF Promises, Receives, Context, HeadsFollow, Between
  <2>4. CASE Prepares
    <3>1. CASE mode = "live"
      BY <1>0, <1>1, <1>c, <2>4, <3>1
         DEF Prepares, Receives, Context, HeadsFollow, Between, CurFits
    <3>2. CASE mode = "recovery"
      BY <1>0, <1>1, <1>c, <2>4, <3>2 DEF Prepares, Receives, Context, HeadsFollow, Between
    <3> QED BY <3>1, <3>2 DEF AcceptInv, Typed
  <2>5. CASE Records
    <3>1. receipts[cur] # NoReceipt /\ receipts[cur].head = acc.head
      BY <2>5 DEF Records, PromiseInv, ReceiptIsAcc, Holding
    <3> QED BY <1>0, <1>1, <1>c, <2>5, <3>1 DEF Records, Receives, HeadsFollow, Between
  <2>6. Dispatches \/ UNCHANGED <<contexts, iters>>
    BY WhoDispatches
  <2> QED BY <2>1, <2>2, <2>3, <2>4, <2>5, <2>6, WhoReceives
<1>2. ASSUME pc' \in {"committed", "regate", "prepare"}, mode' = "recovery"
      PROVE  acc'.head >= contexts'[cur'].base
  <2>1. CASE MakesCommit
    BY <1>0, <1>c, <2>1 DEF MakesCommit, Appends, Between, CurFits
  <2>2. CASE Adopts
    BY <1>0, <1>c, <2>2 DEF Adopts, Quiet, Between, CurFits
  <2>3. CASE Checks \/ Regates
    BY <1>0, <1>2, <2>3 DEF Checks, Regates, Quiet, MeasuresOnly, HeadsFollow, Context
  <2>4. CASE Revalidates
    BY <1>2, <2>4 DEF Revalidates, AcceptInv, ReceiptFits, Early
  <2>5. CASE Overtakes \/ Replans \/ Idles
    BY <1>0, <1>2, <2>5 DEF Overtakes, Replans, Idles, Appends, PlanOnly, HeadsFollow, Context
  <2> QED BY <1>2, <2>1, <2>2, <2>3, <2>4, <2>5
          DEF Moves, Rests, Ends, Fails, Proceeds, Readies, Finds, Dispatches, Turns, Gates, Promises,
              Stages, RegatesRed, Prepares, Begins, Replaces, Finishes, Records, Reloads, Resumes,
              Marks, Concludes, Between, Later, AcceptInv, WriteFits, Writing, Thens
<1> DEFINE Ships(n) == /\ receipts[iters] # NoReceipt /\ receipts[iters].phase = "advanced"
                       /\ receipts[iters].head <= HEAD
                       /\ commits[receipts[iters].head].tree = receipts[iters].tree
<1>3. ASSUME iters' > 0, NEW n \in (contexts'[iters'].base + 1) .. HEAD'
      PROVE  /\ commits'[n].kind = "step" => commits'[n].iter = iters'
             /\ commits'[n].kind = "ship" => Ships(n)'
  <2>1. CASE Dispatches
    BY <1>0, <2>1 DEF Dispatches, CurFits, HEAD
  <2>2. CASE UNCHANGED <<contexts, iters>> /\ (MakesCommit \/ Marks \/ Overtakes)
    <3>1. /\ receipts' = receipts /\ HEAD' = HEAD + 1
          /\ \A m \in 1 .. HEAD : commits'[m] = commits[m]
      BY <2>2 DEF MakesCommit, Marks, Overtakes, Appends, HEAD
    <3>2. contexts[iters].base \in 1 .. HEAD /\ iters \in Iterations
      BY <1>0, <1>3, <2>2 DEF CurFits
    <3>3. ASSUME receipts[iters] # NoReceipt, receipts[iters].head <= HEAD
          PROVE  commits'[receipts[iters].head] = commits[receipts[iters].head]
      <4>1. receipts[iters].head >= contexts[iters].base
        BY <1>0, <1>3, <2>2, <3>3 DEF HeadsFollow, CurFits
      <4> QED BY <1>0, <3>1, <3>2, <3>3, <4>1 DEF CurFits
    <3>4. ASSUME Ships(n) PROVE Ships(n)'
      BY <1>0, <2>2, <3>1, <3>2, <3>3, <3>4 DEF CurFits
    <3>5. CASE n \in 1 .. HEAD
      <4>1. n \in (contexts[iters].base + 1) .. HEAD /\ commits'[n] = commits[n] /\ iters > 0
        BY <1>3, <2>2, <3>1, <3>2, <3>5
      <4>2. /\ commits[n].kind = "step" => commits[n].iter = iters
            /\ commits[n].kind = "ship" => Ships(n)
        BY <1>0, <4>1 DEF HeadsFollow
      <4> HIDE DEF Ships
      <4> QED BY <2>2, <3>4, <4>1, <4>2
    <3>6. CASE n \notin 1 .. HEAD
      <4>1. n = HEAD + 1
        BY <1>0, <1>3, <2>2, <3>1, <3>2, <3>6 DEF CurFits
      <4>2. CASE MakesCommit
        BY <1>c, <2>2, <4>1, <4>2 DEF MakesCommit, Appends, Between
      <4>3. CASE Overtakes
        BY <4>1, <4>3 DEF Overtakes, Appends
      <4>4. CASE Marks
        <5>1. cur = iters /\ Earned(cur)
          BY <1>c, <4>4 DEF Marks, PromiseInv, EarnedOnes, Reaches, Later, Between
        <5>2. Ships(n)
          BY <1>0, <5>1 DEF Earned, CurFits
        <5> HIDE DEF Ships
        <5> QED BY <3>4, <4>1, <4>4, <5>2 DEF Marks, Appends
      <4> QED BY <2>2, <4>2, <4>3, <4>4
    <3> QED BY <3>5, <3>6
  <2>3. CASE UNCHANGED <<contexts, iters, commits>>
    <3>1. /\ commits[n].kind = "step" => commits[n].iter = iters
          /\ commits[n].kind = "ship" => Ships(n)
      BY <1>0, <1>3, <2>3 DEF HeadsFollow, HEAD
    <3>2. CASE receipts' = receipts
      BY <2>3, <3>1, <3>2 DEF HEAD
    <3>3. CASE Promises \/ Prepares
      <4>1. cur = iters /\ (receipts[cur] = NoReceipt \/ receipts[cur].phase = "commit-intent")
        BY <1>c, <3>3 DEF Promises, Prepares, AcceptInv, ReceiptFits, Early, Unprepared, Between
      <4> QED BY <2>3, <3>1, <4>1
    <3>4. CASE Records
      <4>1. cur = iters /\ receipts[cur].head = acc.head /\ receipts[cur].tree = acc.tree
            /\ cur \in Iterations
        BY <1>c, <3>4 DEF Records, PromiseInv, ReceiptIsAcc, Holding, Between
      <4> QED BY <2>3, <3>1, <3>4, <4>1 DEF Records, Receives, HEAD
    <3> QED BY <3>2, <3>3, <3>4, WhoReceives
  <2> QED BY <2>1, <2>2, <2>3, WhoCommits, WhoDispatches
<1> QED BY <1>1, <1>2, <1>3 DEF HeadsFollow, Context

LEMMA MadeIsOwnStep ==
  ASSUME AcceptInv, AcceptInv', JournalInv, PromiseInv, Moves
  PROVE  MadeIsOwn'
<1>0. MadeIsOwn /\ CurFits /\ \A i \in 1 .. iters : i \in Iterations
  BY CurIsFit, AcceptBoundsAssumption DEF PromiseInv, AcceptInv, Typed, Iterations
<1>c. pc \notin Between => cur = iters /\ cur \in 1 .. iters /\ cur \in Iterations
  BY <1>0 DEF CurFits, JournalInv, CurIsLast
<1>o. \A i : ~MakesCommit => OwnCommits(i)' = OwnCommits(i)
  BY OwnCommitsStep
<1>1. pc' \in {"gate", "revalidate", "intend", "stage", "commit", "reintend"} => acc'.made = FALSE
  <2>1. CASE Reloads
    <3>1. receipts[cur] # NoReceipt
      BY <2>1 DEF Reloads, AcceptInv, OneOpen, Unfinished, Received
    <3> QED BY <1>0, <1>c, <2>1, <3>1 DEF Reloads, MadeIsOwn, Between
  <2>2. CASE Turns \/ Gates \/ Revalidates \/ Promises \/ Stages \/ Overtakes \/ Replans \/ Idles
    BY <1>0, <2>2 DEF Turns, Gates, Revalidates, Promises, Stages, Overtakes, Replans, Idles,
                      PlanOnly, MadeIsOwn
  <2> QED BY <2>1, <2>2
          DEF Moves, Rests, Ends, Fails, Proceeds, Readies, Finds, Dispatches, MakesCommit, Adopts,
              Checks, Regates, RegatesRed, Prepares, Begins, Replaces, Finishes, Records, Resumes,
              Marks, Concludes, Between, Later, AcceptInv, WriteFits, Writing, Thens
<1>2. ASSUME pc' \in {"committed", "regate", "prepare"}
      PROVE  acc'.made <=> OwnCommits(cur)' # {}
  <2>1. CASE MakesCommit
    <3>1. OwnCommits(cur)' = OwnCommits(cur) \cup {HEAD + 1} /\ cur' = cur
      BY <2>1, OwnCommitsStep DEF MakesCommit, Appends
    <3> QED BY <2>1, <3>1 DEF MakesCommit
  <2>2. CASE Adopts
    <3>1. commits[HEAD].iter = cur /\ HEAD \in 1 .. HEAD
      <4>1. HEAD \in (contexts[iters].base + 1) .. HEAD /\ iters > 0 /\ HEAD \in 1 .. HEAD
        BY <1>0, <1>c, <2>2 DEF Adopts, Between, Context, CurFits, AcceptInv, Numbered
      <4> QED BY <1>c, <2>2, <4>1 DEF Adopts, Between, PromiseInv, HeadsFollow
    <3>2. OwnCommits(cur) # {}
      BY <2>2, <3>1 DEF Adopts, OwnCommits
    <3> QED BY <2>2, <3>2 DEF Adopts, Quiet, OwnCommits, HEAD
  <2>3. CASE Revalidates
    BY <1>0, <1>o, <2>3 DEF Revalidates, Quiet, MakesCommit, MadeIsOwn, AcceptInv, CommitsFollow,
                            Uncommitted, Early
  <2>4. CASE Checks \/ Regates
    BY <1>0, <1>o, <2>4 DEF Checks, Regates, MeasuresOnly, Quiet, MakesCommit, MadeIsOwn
  <2>5. CASE Overtakes \/ Replans \/ Idles
    BY <1>0, <1>2, <1>o, <2>5 DEF Overtakes, Appends, Replans, Idles, PlanOnly, MakesCommit, MadeIsOwn
  <2> QED BY <1>2, <2>1, <2>2, <2>3, <2>4, <2>5
          DEF Moves, Rests, Ends, Fails, Proceeds, Readies, Finds, Dispatches, Turns, Gates, Promises,
              Stages, RegatesRed, Prepares, Begins, Replaces, Finishes, Records, Reloads, Resumes,
              Marks, Concludes, Between, Later, AcceptInv, WriteFits, Writing, Thens
<1>3. ASSUME NEW i \in 1 .. iters', receipts'[i] # NoReceipt
      PROVE  /\ receipts'[i].phase = "commit-intent" => receipts'[i].made = FALSE
             /\ receipts'[i].phase # "commit-intent" => (receipts'[i].made <=> OwnCommits(i)' # {})
  <2>1. i \in 1 .. iters /\ i \in Iterations
    <3>1. CASE Dispatches
      <4>1. i # iters + 1
        BY <1>0, <1>3, <3>1 DEF Dispatches, AcceptInv, Numbered, CurFits
      <4> QED BY <1>0, <3>1, <4>1 DEF Dispatches, CurFits
    <3> QED BY <1>0, <3>1, WhoDispatches
  <2>2. CASE receipts'[i] = receipts[i]
    <3>1. CASE OwnCommits(i)' = OwnCommits(i)
      BY <1>0, <1>3, <2>1, <2>2, <3>1 DEF MadeIsOwn
    <3>2. CASE OwnCommits(i)' # OwnCommits(i)
      <4>0. MakesCommit /\ i = cur
        BY <3>2, OwnCommitsStep
      <4>1. i = cur /\ pc = "commit"
        BY <4>0 DEF MakesCommit
      <4>2. receipts[i].phase = "commit-intent"
        BY <1>3, <2>2, <4>1 DEF AcceptInv, ReceiptFits, Unprepared
      <4> QED BY <1>0, <1>3, <2>1, <2>2, <4>2 DEF MadeIsOwn
    <3> QED BY <3>1, <3>2
  <2>3. CASE i = cur /\ Promises
    BY <1>0, <2>3 DEF Promises, Receives, MadeIsOwn
  <2>4. CASE i = cur /\ Prepares
    BY <1>0, <1>o, <2>4 DEF Prepares, Receives, MadeIsOwn, MakesCommit
  <2>5. CASE i = cur /\ Records
    <3>1. /\ receipts[cur] # NoReceipt /\ receipts[cur].phase # "commit-intent"
          /\ receipts[cur].made = acc.made
      BY <2>5 DEF Records, PromiseInv, ReceiptIsAcc, Holding
    <3> QED BY <1>0, <1>o, <2>1, <2>5, <3>1 DEF Records, Receives, MadeIsOwn, MakesCommit
  <2> QED BY <2>1, <2>2, <2>3, <2>4, <2>5, WhoReceives DEF Promises, Prepares, Records, Receives
<1> QED BY <1>1, <1>2, <1>3 DEF MadeIsOwn

\* Attempts are only added, by the gates, under the inputs of the iteration at work.
Measures ==
  \/ history' = history
  \/ pc \in {"gate", "regate"} /\ \E t, o : history' = history \cup {Attempt(Context, t, o)}

LEMMA StepMeasures == [Next]_vars => Measures
<1> SUFFICES ASSUME [Next]_vars PROVE Measures
  OBVIOUS
<1> USE DEF Measures, plan, repo, records, counters
<1>1. CASE Gate \/ Regate
  <2>1. pc \in {"gate", "regate"} /\ \E o, t : Measure(o, t)
    BY <1>1 DEF Gate, Regate
  <2> QED BY <2>1 DEF Measure
<1>2. CASE Start \/ Stop \/ WorkerTurn \/ Expire \/ MarkerFails \/ Crash \/ GiveUp
  BY <1>2 DEF Start, Stop, WorkerTurn, Expire, MarkerFails, Fail, ShipFails, LiveTimed,
              RecoveryTimed, Crash, GiveUp
<1>3. CASE Dispatch \/ Interference
  BY <1>3 DEF Dispatch, Interference, ParkMaster, UnparkMaster, ReturnReds, ChangePlan,
              EditTree, CommitTree
<1>4. CASE Validate \/ Revalidate \/ SaveIntent \/ Stage \/ Commit \/ Committed \/ Prepare
  BY <1>4 DEF Validate, Revalidate, SaveIntent, Stage, Commit, Committed, Prepare
<1>5. CASE Advance \/ Replace \/ Finish \/ Advanced \/ ImportFindings
  BY <1>5 DEF Advance, Replace, Finish, Advanced, ImportFindings
<1>6. CASE Scan \/ Recover \/ Reintend \/ ResumeTransaction \/ Explain \/ Settle \/ CompleteMaster
  BY <1>6 DEF Scan, Recover, Reintend, ResumeTransaction, Explain, Settle, CompleteMaster
<1>7. CASE CloseStep
  BY <1>7 DEF CloseStep, ProjectResult, ShipMarker, MarkerFails, Fail, ShipFails, ShipStatus, RecordProof, Audit, Close,
              CloseRefused, ProjectClose
<1>8. CASE UNCHANGED vars
  BY <1>8 DEF vars
<1> QED BY <1>1, <1>2, <1>3, <1>4, <1>5, <1>6, <1>7, <1>8 DEF Next, AcceptanceStep, RecoveryStep

\* A gate adds nothing under the inputs of another iteration.
LEMMA OthersStayGated ==
  ASSUME Measures, NEW i, NEW tree, contexts'[i] = contexts[i], Gated(i, tree),
         pc \in {"gate", "regate"} => Inputs(contexts[i]) # Inputs(Context)
  PROVE  Gated(i, tree)'
<1>1. CASE history' = history
  BY <1>1 DEF Gated, GatedIn
<1>2. CASE pc \in {"gate", "regate"} /\ history' # history
  <2>1. PICK t, o : history' = history \cup {Attempt(Context, t, o)}
    BY <1>2 DEF Measures
  <2>2. Attempt(Context, t, o).inputs # Inputs(contexts[i])
    BY <1>2 DEF Attempt
  <2>3. {b \in history' : b.inputs = Inputs(contexts[i]) /\ b.tree = tree}
          = {b \in history : b.inputs = Inputs(contexts[i]) /\ b.tree = tree}
    BY <2>1, <2>2
  <2> QED BY <2>3 DEF Gated, GatedIn
<1> QED BY <1>1, <1>2 DEF Measures

\* What was earned stays earned while others work.
LEMMA EarnedStays ==
  ASSUME AcceptInv, PromiseInv, Moves, Measures, NEW i \in 1 .. iters, Earned(i),
         receipts'[i] = receipts[i], ~(MakesCommit /\ i = cur),
         pc \in {"gate", "regate"} => Inputs(contexts[i]) # Inputs(Context)
  PROVE  Earned(i)'
<1>0. CurFits /\ i \in Iterations
  BY CurIsFit, AcceptBoundsAssumption DEF AcceptInv, Typed, Iterations
<1>1. contexts'[i] = contexts[i]
  BY <1>0, WhoDispatches DEF Dispatches, CurFits
<1>2. Gated(i, receipts[i].tree)'
  BY <1>1, OthersStayGated DEF Earned
<1>3. OwnCommits(i)' = OwnCommits(i)
  BY OwnCommitsStep
<1>4. ASSUME NEW n \in 1 .. HEAD PROVE n \in 1 .. HEAD' /\ commits'[n] = commits[n]
  BY <1>0, WhoCommits DEF MakesCommit, Marks, Overtakes, Appends, HEAD, CurFits
<1>5. \A t : t = receipts[i].tree => Gated(i, t)'
  BY <1>2 DEF Gated
<1> QED BY <1>2, <1>3, <1>4 DEF Earned, Gated

LEMMA EarnedOnesStep ==
  ASSUME AcceptInv, AcceptInv', JournalInv, PromiseInv, Moves, Measures
  PROVE  EarnedOnes'
<1>0. CurFits /\ \A i \in 1 .. iters : i \in Iterations
  BY CurIsFit, AcceptBoundsAssumption DEF AcceptInv, Typed, Iterations
<1>c. pc \notin Between => cur = iters /\ cur \in 1 .. iters /\ cur \in Iterations
  BY <1>0 DEF CurFits, JournalInv, CurIsLast
<1>1. ASSUME Reaches(Later)' PROVE Earned(cur)'
  <2>1. Continues
    BY <1>1, LaterStep
  <2>2. pc \notin {"gate", "regate", "commit"} /\ pc \notin Between
        /\ (Reaches(Later) \/ (pc = "project" /\ Projectable /\ UNCHANGED commits))
    BY <1>1, LaterStep DEF Reaches, Later, Writing, Between
  <2>3. Earned(cur)
    <3>1. CASE Reaches(Later)
      BY <3>1 DEF PromiseInv, EarnedOnes
    <3>2. CASE pc = "project" /\ Projectable
      <4>1. /\ receipts[cur] # NoReceipt /\ receipts[cur].phase = "advanced"
            /\ receipts[cur].tree = acc.tree /\ receipts[cur].head = acc.head
            /\ Gated(cur, acc.measured)
        BY <3>2 DEF PromiseInv, ReceiptIsAcc, GateHolds, Holding, Reaches, Past
      <4>2. receipts[cur].made <=> OwnCommits(cur) # {}
        BY <1>c, <2>2, <4>1 DEF PromiseInv, MadeIsOwn
      <4>3. acc.tree = acc.measured /\ HeadTree = acc.tree /\ acc.head <= HEAD
            /\ \A n \in (acc.head + 1) .. HEAD : commits[n].kind = "ship"
        BY <3>2 DEF Projectable, AtTransactionHead
      <4>4. acc.head \in Nat /\ contexts[cur].base \in 1 .. HEAD /\ acc.head >= contexts[cur].base
        BY <1>c, <2>2, <4>1, AccFields
           DEF AcceptInv, Typed, Numbered, PromiseInv, HeadsFollow
      <4>5. commits[acc.head].tree = acc.tree
        <5>1. CASE acc.head = HEAD
          BY <4>3, <5>1 DEF HeadTree
        <5>2. CASE acc.head # HEAD
          <6>1. /\ HEAD \in (acc.head + 1) .. HEAD /\ HEAD \in (contexts[iters].base + 1) .. HEAD
                /\ iters > 0
            BY <1>0, <1>c, <2>2, <4>3, <4>4, <5>2 DEF CurFits
          <6>2. commits[HEAD].kind = "ship"
            BY <4>3, <6>1
          <6> QED BY <1>c, <2>2, <4>1, <6>1, <6>2 DEF PromiseInv, HeadsFollow
        <5> QED BY <5>1, <5>2
      <4>6. acc.head \in 1 .. HEAD
        BY <1>0, <4>3, <4>4 DEF CurFits
      <4> QED BY <4>1, <4>2, <4>3, <4>5, <4>6 DEF Earned
    <3> QED BY <2>2, <3>1, <3>2
  <2>4. cur \in 1 .. iters /\ cur' = cur /\ receipts'[cur] = receipts[cur] /\ ~MakesCommit
    BY <1>c, <2>1, <2>2 DEF Continues, MakesCommit
  <2>5. \A i : i = cur => Earned(i)'
    BY <2>2, <2>3, <2>4, EarnedStays
  <2>6. Earned(cur)' <=> \E i : i = cur /\ Earned(i)'
    BY <2>4 DEF Earned, Gated, OwnCommits
  <2> QED BY <2>5, <2>6
<1>2. ASSUME NEW i \in 1 .. iters', closes'[i].result = "passed" PROVE Earned(i)'
  <2>1. i \in 1 .. iters /\ i \in Iterations
    <3>1. CASE Dispatches
      <4>1. iters + 1 \in Iterations /\ closes'[iters + 1] = NoClose
        BY <1>0, <3>1 DEF Dispatches, PromiseInv, OpenOnes, CurFits
      <4>2. i # iters + 1
        BY <1>2, <4>1 DEF NoClose
      <4> QED BY <1>0, <3>1, <4>2 DEF Dispatches, CurFits
    <3> QED BY <1>0, <3>1, WhoDispatches
  <2>2. CASE closes'[i] = closes[i]
    <3>1. Earned(i) /\ closes[i].result = "passed" /\ Advances(i) # {}
      BY <1>2, <2>1, <2>2 DEF PromiseInv, EarnedOnes, AdvanceFollows
    <3>2. Working => i # cur
      BY <3>1 DEF PromiseInv, OpenOnes, NoClose
    <3>3. receipts'[i] = receipts[i]
      BY <2>1, <3>2, WhoReceives
         DEF Promises, Prepares, Records, Receives, Working, Between, Writing
    <3>4. ~(MakesCommit /\ i = cur)
      BY <3>2 DEF MakesCommit, Working, Between, Writing
    <3>5. ASSUME pc \in {"gate", "regate"} PROVE Inputs(contexts[i]) # Inputs(Context)
      <4>1. i < cur /\ cur \in 1 .. iters
        BY <1>0, <1>c, <2>1, <3>2, <3>5 DEF Working, Between, Writing, CurFits
      <4>2. contexts[cur].step > contexts[i].step \/ contexts[cur].contract > contexts[i].contract
        BY <2>1, <3>1, <4>1 DEF PromiseInv, AdvanceFollows
      <4>3. contexts[cur].step # contexts[i].step \/ contexts[cur].contract # contexts[i].contract
        BY <2>1, <4>1, <4>2 DEF AcceptInv, Numbered, JournalInv, ContractGrows
      <4> QED BY <4>3 DEF Inputs, Context
    <3> QED BY <2>1, <3>1, <3>3, <3>4, <3>5, EarnedStays
  <2>3. CASE closes'[i] # closes[i]
    <3>1. Concludes /\ i = cur /\ pc = "close"
      BY <1>2, <2>1, <2>3, WhoCloses DEF Concludes
    <3>2. Earned(i) /\ receipts'[i] = receipts[i] /\ ~MakesCommit
      BY <3>1 DEF PromiseInv, EarnedOnes, Reaches, Later, Concludes, MakesCommit
    <3> QED BY <2>1, <3>1, <3>2, EarnedStays
  <2> QED BY <2>2, <2>3
<1> QED BY <1>1, <1>2 DEF EarnedOnes

-----------------------------------------------------------------------------
(* The proof row and the close record.                                      *)

\* The iteration at work has its provisional row.
Rowed == Reaches({"audit", "close"}) \/ (mode = "live" /\ pc \in {"ship", "status"})

\* Nothing is left to recover.
Readied == pc \in {"ready", "complete"} \/ (Writing /\ write.then = "ready")

Judged == {"proof", "denied"}

LedgerFollows ==
  /\ Rowed => ledger[cur] # "none"
  /\ \A i \in Iterations : closes[i].result = "passed" => ledger[i] # "none"
  /\ \A i \in Iterations : ledger[i] = "proof" => closes[i].result = "passed"
  /\ \A i \in Iterations : ledger[i] = "denied" =>
       closes[i] # NoClose /\ (closes[i].result = "passed" => closes[i].tree # closes[i].head_tree)

\* Only the last iteration can have a receipt and no passed close record.
AllPassed ==
  /\ \A i \in Received : i < iters \/ Readied => closes[i].result = "passed"
  /\ \A i \in 1 .. iters :
       closes[i].result = "passed" /\ (i < iters \/ Readied) => ledger[i] \in Judged

LedgerInv == LedgerFollows /\ AllPassed

LEMMA WhoProjects ==
  ASSUME [Next]_vars
  PROVE  /\ Scan \/ RecordProof \/ ProjectClose \/ ledger' = ledger
         /\ Close \/ CloseRefused \/ closes' = closes
<1> USE DEF plan, repo, records, counters
<1>1. CASE Start \/ Stop \/ WorkerTurn \/ Expire \/ MarkerFails \/ Crash \/ GiveUp
  BY <1>1 DEF Start, Stop, WorkerTurn, Expire, MarkerFails, Fail, ShipFails, LiveTimed,
              RecoveryTimed, Crash, GiveUp
<1>2. CASE Dispatch \/ Interference
  BY <1>2 DEF Dispatch, Interference, ParkMaster, UnparkMaster, ReturnReds, ChangePlan,
              EditTree, CommitTree
<1>3. CASE AcceptanceStep
  BY <1>3 DEF AcceptanceStep, Validate, Gate, Revalidate, SaveIntent, Stage, Commit, Committed,
              Regate, Prepare, Advance, Replace, Finish, Advanced, ImportFindings
<1>4. CASE Recover \/ Reintend \/ ResumeTransaction \/ Explain \/ Settle \/ CompleteMaster
  BY <1>4 DEF Recover, Reintend, ResumeTransaction, Explain, Settle, CompleteMaster
<1>5. CASE ProjectResult \/ ShipMarker \/ ShipStatus \/ Audit \/ Close \/ CloseRefused
  BY <1>5 DEF ProjectResult, ShipMarker, ShipStatus, Audit, Close, CloseRefused
<1>6. CASE Scan \/ RecordProof \/ ProjectClose
  BY <1>6 DEF Scan, RecordProof, ProjectClose
<1>7. CASE UNCHANGED vars
  BY <1>7 DEF vars
<1> QED BY <1>1, <1>2, <1>3, <1>4, <1>5, <1>6, <1>7 DEF Next, RecoveryStep, CloseStep

LEMMA RowedStep ==
  ASSUME AcceptInv, [Next]_vars, Rowed'
  PROVE  (Rowed /\ UNCHANGED <<ledger, cur>>) \/ RecordProof
<1> USE DEF Rowed, Reaches, Writing, plan, repo, records, counters, Refuse
<1>1. CASE Start \/ Stop \/ WorkerTurn \/ Expire \/ MarkerFails \/ Crash \/ GiveUp
  BY <1>1 DEF Start, Stop, WorkerTurn, Expire, MarkerFails, Fail, ShipFails, LiveTimed,
              RecoveryTimed, Crash, GiveUp
<1>2. CASE Dispatch \/ Interference
  BY <1>2 DEF Dispatch, Interference, ParkMaster, UnparkMaster, ReturnReds, ChangePlan,
              EditTree, CommitTree
<1>3. CASE Validate \/ Gate \/ Revalidate \/ SaveIntent \/ Stage \/ Commit
  BY <1>3 DEF Validate, Gate, Revalidate, SaveIntent, Stage, Commit
<1>4. CASE Committed \/ Regate \/ Prepare \/ Advanced
  BY <1>4 DEF Committed, Regate, Prepare, Advanced
<1>5. CASE Advance \/ ImportFindings
  BY <1>5 DEF Advance, ImportFindings, Begin, BeginWrite
<1>6. CASE Replace \/ Finish
  BY <1>6 DEF Replace, Finish, AcceptInv, WriteFits, Thens
<1>7. CASE Scan \/ Recover \/ Reintend
  BY <1>7 DEF Scan, Recover, Reintend
<1>8. CASE ResumeTransaction \/ Explain \/ Settle
  BY <1>8 DEF ResumeTransaction, Explain, Settle
<1>9. CASE CompleteMaster
  BY <1>9 DEF CompleteMaster, Begin, BeginWrite
<1>10. CASE ShipStatus
  BY <1>10 DEF ShipStatus, Begin, BeginWrite, AfterShip, ShipFails, AcceptInv, Typed
<1>11. CASE ProjectResult \/ ShipMarker
  BY <1>11 DEF ProjectResult, ShipMarker, ShipFails, AcceptInv, Typed
<1>12. CASE Audit \/ Close \/ CloseRefused \/ ProjectClose
  BY <1>12 DEF Audit, Close, CloseRefused, ProjectClose
<1>13. CASE UNCHANGED vars
  BY <1>13 DEF vars
<1> QED BY <1>1, <1>2, <1>3, <1>4, <1>5, <1>6, <1>7, <1>8, <1>9, <1>10, <1>11, <1>12, <1>13
        DEF Next, AcceptanceStep, RecoveryStep, CloseStep

LEMMA ReadiedStep ==
  ASSUME AcceptInv, [Next]_vars, Readied'
  PROVE  (Readied /\ UNCHANGED <<receipts, closes, ledger, iters>>) \/ Scan \/ ProjectClose
<1> USE DEF Readied, Writing, plan, repo, records, counters, Refuse
<1>1. CASE Start \/ Stop \/ WorkerTurn \/ Expire \/ MarkerFails \/ Crash \/ GiveUp
  BY <1>1 DEF Start, Stop, WorkerTurn, Expire, MarkerFails, Fail, ShipFails, LiveTimed,
              RecoveryTimed, Crash, GiveUp
<1>2. CASE Dispatch \/ Interference
  BY <1>2 DEF Dispatch, Interference, ParkMaster, UnparkMaster, ReturnReds, ChangePlan,
              EditTree, CommitTree
<1>3. CASE Validate \/ Gate \/ Revalidate \/ SaveIntent \/ Stage \/ Commit
  BY <1>3 DEF Validate, Gate, Revalidate, SaveIntent, Stage, Commit
<1>4. CASE Committed \/ Regate \/ Prepare \/ Advanced
  BY <1>4 DEF Committed, Regate, Prepare, Advanced
<1>5. CASE Advance \/ ImportFindings
  BY <1>5 DEF Advance, ImportFindings, Begin, BeginWrite
<1>6. CASE Replace \/ Finish
  BY <1>6 DEF Replace, Finish, AcceptInv, WriteFits, Thens
<1>7. CASE Recover \/ Reintend
  BY <1>7 DEF Recover, Reintend
<1>8. CASE ResumeTransaction \/ Explain \/ Settle
  BY <1>8 DEF ResumeTransaction, Explain, Settle
<1>9. CASE CompleteMaster
  BY <1>9 DEF CompleteMaster, Begin, BeginWrite
<1>10. CASE ShipStatus
  BY <1>10 DEF ShipStatus, Begin, BeginWrite, AfterShip, ShipFails
<1>11. CASE ProjectResult \/ ShipMarker
  BY <1>11 DEF ProjectResult, ShipMarker, ShipFails
<1>12. CASE RecordProof \/ Audit \/ Close \/ CloseRefused
  BY <1>12 DEF RecordProof, Audit, Close, CloseRefused
<1>13. CASE UNCHANGED vars
  BY <1>13 DEF vars
<1> QED BY <1>1, <1>2, <1>3, <1>4, <1>5, <1>6, <1>7, <1>8, <1>9, <1>10, <1>11, <1>12, <1>13
        DEF Next, AcceptanceStep, RecoveryStep, CloseStep

\* What happens to the row of an iteration.
LEMMA RowStep ==
  ASSUME AcceptInv, [Next]_vars, NEW i \in Iterations
  PROVE  /\ ledger'[i] = ledger[i] \/ ledger'[i] = Projected(i)
            \/ (i = cur /\ pc = "ledger" /\ ledger[i] = "none" /\ ledger'[i] = "provisional")
         /\ ledger'[i] # ledger[i] /\ ledger'[i] = Projected(i) =>
              closes[i] # NoClose /\ closes' = closes
<1>0. DOMAIN ledger = Iterations
  BY DEF AcceptInv, Typed
<1>1. CASE Scan
  BY <1>1 DEF Scan
<1>2. CASE RecordProof
  <2>1. ledger'[i] = IF i = cur /\ ledger[i] = "none" THEN "provisional" ELSE ledger[i]
    BY <1>0, <1>2 DEF RecordProof
  <2>2. ledger[i] = "none" => Projected(i) = "none"
    BY DEF Projected
  <2> QED BY <1>2, <2>1, <2>2 DEF RecordProof
<1>3. CASE ProjectClose
  <2>1. ledger'[i] = IF i = cur THEN Projected(i) ELSE ledger[i]
    BY <1>0, <1>3 DEF ProjectClose
  <2>2. closes[cur] # NoClose
    BY <1>3 DEF ProjectClose, AcceptInv, OneOpen
  <2> QED BY <1>3, <2>1, <2>2 DEF ProjectClose
<1> QED BY <1>1, <1>2, <1>3, WhoProjects

LEMMA LedgerFollowsStep ==
  ASSUME AcceptInv, AcceptInv', JournalInv, PromiseInv, LedgerInv, Moves, [Next]_vars
  PROVE  LedgerFollows'
<1>0. LedgerFollows /\ CurFits /\ ledger \in [Iterations -> Verdicts]
  BY CurIsFit DEF LedgerInv, AcceptInv, Typed
<1>1. ASSUME Rowed' PROVE ledger'[cur'] # "none"
  <2>1. CASE Rowed /\ UNCHANGED <<ledger, cur>>
    BY <1>0, <2>1 DEF LedgerFollows
  <2>2. CASE RecordProof
    <3>1. cur \in Iterations /\ cur' = cur
      BY <1>0, <2>2 DEF RecordProof, CurFits, Between
    <3> QED BY <1>0, <2>2, <3>1 DEF RecordProof
  <2> QED BY <1>1, <2>1, <2>2, RowedStep
<1>2. ASSUME NEW i \in Iterations
      PROVE  /\ closes'[i].result = "passed" => ledger'[i] # "none"
             /\ ledger'[i] = "proof" => closes'[i].result = "passed"
             /\ ledger'[i] = "denied" =>
                  /\ closes'[i] # NoClose
                  /\ closes'[i].result = "passed" => closes'[i].tree # closes'[i].head_tree
  <2>1. /\ ledger[i] # "none" => ledger'[i] # "none"
        /\ ledger[i] \in Judged => ledger'[i] = ledger[i]
        /\ ledger'[i] = ledger[i] \/ ledger'[i] = Projected(i)
           \/ (i = cur /\ pc = "ledger" /\ ledger[i] = "none" /\ ledger'[i] = "provisional")
    BY <1>0, RowStep DEF Projected, Judged, Verdicts
  <2>2. CASE closes'[i] # closes[i]
    <3>1. Close \/ CloseRefused
      BY <2>2, WhoProjects
    <3>2. i = cur /\ ledger' = ledger /\ (closes'[i].result = "passed" => pc = "close")
      <4>1. DOMAIN closes = Iterations
        BY DEF AcceptInv, Typed
      <4> QED BY <2>2, <3>1, <4>1 DEF Close, CloseRefused, CloseAs
    <3>3. closes[i] = NoClose
      BY <3>1, <3>2 DEF Close, CloseRefused, PromiseInv, OpenOnes, Working, Between, Writing
    <3>4. ledger[i] # "proof" /\ ledger[i] # "denied"
      BY <1>0, <3>3 DEF LedgerFollows, NoClose
    <3>5. pc = "close" => ledger[i] # "none"
      BY <1>0, <3>2 DEF LedgerFollows, Rowed, Reaches
    <3> QED BY <3>2, <3>4, <3>5
  <2>3. CASE closes'[i] = closes[i]
    <3>1. CASE ledger'[i] = ledger[i]
      BY <1>0, <2>3, <3>1 DEF LedgerFollows
    <3>2. CASE ledger'[i] # ledger[i] /\ ledger'[i] = Projected(i)
      <4>1. closes[i] # NoClose /\ ledger[i] = "provisional"
        BY <3>2, RowStep DEF Projected
      <4> QED BY <2>3, <3>2, <4>1 DEF Projected
    <3>3. CASE ledger'[i] = "provisional"
      BY <3>3
    <3> QED BY <2>1, <3>1, <3>2, <3>3
  <2> QED BY <2>2, <2>3
<1> QED BY <1>1, <1>2 DEF LedgerFollows

LEMMA AllPassedStep ==
  ASSUME AcceptInv, AcceptInv', JournalInv, PromiseInv, LedgerInv, LedgerFollows', Moves, [Next]_vars
  PROVE  AllPassed'
<1>0. /\ AllPassed /\ LedgerFollows /\ CurFits /\ ledger \in [Iterations -> Verdicts]
      /\ \A i \in 1 .. iters : i \in Iterations
  <2>1. AllPassed /\ LedgerFollows /\ CurFits /\ ledger \in [Iterations -> Verdicts]
    BY CurIsFit DEF LedgerInv, AcceptInv, Typed
  <2>2. \A i \in 1 .. iters : i \in Iterations
    BY AcceptBoundsAssumption DEF AcceptInv, Typed, Iterations
  <2> QED BY <2>1, <2>2
<1>c. pc \notin Between => cur = iters /\ cur \in 1 .. iters /\ cur \in Iterations
  BY <1>0 DEF CurFits, JournalInv, CurIsLast
<1>j. \A i \in Iterations : ledger[i] \in Judged => ledger'[i] \in Judged
  BY <1>0, RowStep DEF Projected, Judged, Verdicts
\* A receipt or a close record that is new is the last iteration's.
<1>n. ASSUME NEW i \in Iterations, i < iters, ~Dispatches
      PROVE  receipts'[i] = receipts[i] /\ closes'[i] = closes[i]
  <2>1. pc \notin Between => i # cur
    BY <1>0, <1>c, <1>n DEF CurFits, Iterations
  <2>2. receipts'[i] = receipts[i]
    BY <1>n, <2>1, WhoReceives DEF Promises, Prepares, Records, Receives, Between
  <2>3. closes'[i] = closes[i]
    BY <1>n, <2>1, WhoCloses DEF Concludes
  <2> QED BY <2>2, <2>3
<1>1. CASE Dispatches
  <2>1. /\ UNCHANGED <<receipts, closes>> /\ Readied /\ ~Readied' /\ iters' = iters + 1
    BY <1>1 DEF Dispatches, Readied, Writing
  <2>2. \A i \in Received : closes[i].result = "passed"
    BY <1>0, <2>1 DEF AllPassed
  <2>3. \A i \in 1 .. iters' : i < iters' => i \in 1 .. iters /\ i \in Iterations
    BY <1>0, <2>1 DEF CurFits
  <2>4. \A i \in 1 .. iters : closes[i].result = "passed" => ledger[i] \in Judged
    BY <1>0, <2>1 DEF AllPassed
  <2> QED BY <1>j, <2>1, <2>2, <2>3, <2>4 DEF AllPassed, Received
<1>2. CASE ~Dispatches /\ ~Readied'
  <2>1. iters' = iters
    BY <1>2, WhoDispatches
  <2>2. ASSUME NEW i \in Iterations, receipts'[i] # NoReceipt, i < iters
        PROVE  closes'[i].result = "passed"
    BY <1>0, <1>2, <1>n, <2>2 DEF AllPassed, Received
  <2>3. ASSUME NEW i \in 1 .. iters, closes'[i].result = "passed", i < iters
        PROVE  ledger'[i] \in Judged
    BY <1>0, <1>2, <1>j, <1>n, <2>3 DEF AllPassed
  <2> QED BY <1>2, <2>1, <2>2, <2>3 DEF AllPassed, Received
<1>3. CASE ~Dispatches /\ Readied'
  <2>0. iters' = iters
    BY <1>3, WhoDispatches
  <2>1. CASE Readied /\ UNCHANGED <<receipts, closes, ledger, iters>>
    BY <1>0, <2>1 DEF AllPassed, Received
  <2>2. CASE Scan
    <3>1. /\ Unfinished = {} /\ \A i \in Received : closes[i].result \notin {"failed", "red"}
          /\ UNCHANGED <<receipts, closes>>
      BY <1>3, <2>2 DEF Scan, Readied, Writing
    <3>2. ASSUME NEW i \in Received PROVE closes[i].result = "passed"
      <4>1. i \in Iterations /\ closes[i] # NoClose
        BY <3>1 DEF Unfinished, Received
      <4>2. closes[i].result # "none"
        BY <4>1 DEF PromiseInv, OpenOnes
      <4> QED BY <3>1, <4>1, <4>2 DEF AcceptInv, Typed
    <3>3. ASSUME NEW i \in 1 .. iters, closes[i].result = "passed" PROVE ledger'[i] \in Judged
      <4>1. i \in Iterations /\ closes[i] # NoClose /\ ledger[i] \in Verdicts \ {"none"}
        BY <1>0, <3>3 DEF LedgerFollows, NoClose
      <4>2. ledger'[i] = Projected(i)
        BY <2>2, <4>1 DEF Scan
      <4> QED BY <4>1, <4>2 DEF Projected, Judged, Verdicts
    <3> QED BY <2>0, <3>1, <3>2, <3>3 DEF AllPassed, Received
  <2>3. CASE ProjectClose
    <3>1. /\ pc = "closed" /\ closes[cur].result = "passed" /\ UNCHANGED <<receipts, closes>>
          /\ ledger' = [ledger EXCEPT ![cur] = Projected(cur)]
      BY <1>3, <2>3 DEF ProjectClose, records, Readied, Writing
    <3>2. cur = iters /\ cur \in Iterations /\ iters \in Nat
      BY <1>0, <1>c, <3>1 DEF Between, CurFits
    <3>3. ASSUME NEW i \in Received PROVE closes[i].result = "passed"
      <4>1. i \in Iterations /\ receipts[i] # NoReceipt
        BY DEF Received
      <4>2. i < iters \/ i = iters
        <5>1. i <= iters
          BY <3>2, <4>1 DEF AcceptInv, Numbered, Iterations
        <5> QED BY <3>2, <4>1, <5>1 DEF Iterations
      <4> QED BY <1>0, <3>1, <3>2, <4>2 DEF AllPassed
    <3>4. ASSUME NEW i \in 1 .. iters, closes[i].result = "passed" PROVE ledger'[i] \in Judged
      <4>1. CASE i = cur
        <5>1. ledger[cur] \in Verdicts \ {"none"}
          BY <1>0, <3>1, <3>2 DEF LedgerFollows
        <5>2. ledger'[cur] = Projected(cur)
          BY <1>0, <3>1, <3>2
        <5> QED BY <4>1, <5>1, <5>2 DEF Projected, Judged, Verdicts
      <4>2. CASE i # cur
        BY <1>0, <1>j, <3>2, <3>4, <4>2 DEF AllPassed
      <4> QED BY <4>1, <4>2
    <3> QED BY <2>0, <3>1, <3>3, <3>4 DEF AllPassed, Received
  <2> QED BY <1>3, <2>1, <2>2, <2>3, ReadiedStep
<1> QED BY <1>1, <1>2, <1>3

LEMMA PromiseStep ==
  (AcceptInv /\ JournalInv /\ PromiseInv /\ LedgerInv) /\ AcceptInv' /\ [Next]_vars
    => (PromiseInv /\ LedgerInv)'
<1> SUFFICES ASSUME AcceptInv, JournalInv, PromiseInv, LedgerInv, AcceptInv', [Next]_vars
             PROVE  (PromiseInv /\ LedgerInv)'
  OBVIOUS
<1>1. JournalMoves /\ Moves /\ Measures
  BY StepJournal, StepMoves, StepMeasures
<1>2. PromiseInv'
  BY <1>1, OpenOnesStep, AdvanceFollowsStep, ReceiptIsAccStep, GateHoldsStep, HeadsFollowStep,
     MadeIsOwnStep, EarnedOnesStep DEF PromiseInv
<1>3. LedgerFollows'
  BY <1>1, LedgerFollowsStep
<1>4. AllPassed'
  BY <1>1, <1>3, AllPassedStep
<1> QED BY <1>2, <1>3, <1>4 DEF LedgerInv

LEMMA PromiseInit == Init => PromiseInv /\ LedgerInv
<1> SUFFICES ASSUME Init PROVE PromiseInv /\ LedgerInv
  OBVIOUS
<1>1. /\ iters = 0 /\ pc = "down" /\ HEAD = 1
      /\ \A i \in Iterations : /\ receipts[i] = NoReceipt /\ closes[i] = NoClose
                               /\ ledger[i] = "none"
  BY DEF Init, HEAD
<1>2. OpenOnes /\ AdvanceFollows /\ ReceiptIsAcc /\ GateHolds
  BY <1>1 DEF OpenOnes, Working, Between, AdvanceFollows, Reaches, Past, Later, Writing, Advancing,
              ReceiptIsAcc, Holding, GateHolds
<1>3. HeadsFollow /\ MadeIsOwn /\ EarnedOnes
  BY <1>1 DEF HeadsFollow, MadeIsOwn, EarnedOnes, Reaches, Later, Writing
<1>4. LedgerInv
  BY <1>1 DEF LedgerInv, LedgerFollows, AllPassed, Rowed, Readied, Reaches, Writing, Received, NoClose
<1> QED BY <1>2, <1>3, <1>4 DEF PromiseInv

\* From its advance to its proof row an iteration keeps the receipt, the gate and
\* the commit it advanced with, and the start that follows leaves none of it undone.
THEOREM PromiseInductive == Spec => [](AcceptInv /\ JournalInv /\ PromiseInv /\ LedgerInv)
<1>1. Init => PromiseInv /\ LedgerInv
  BY PromiseInit
<1>2. (AcceptInv /\ JournalInv /\ PromiseInv /\ LedgerInv) /\ [Next]_vars /\ (AcceptInv /\ JournalInv)'
        => (PromiseInv /\ LedgerInv)'
  BY PromiseStep
<1> QED BY <1>1, <1>2, JournalInductive, PTL DEF Spec

\* A proof row in the suite ledger is earned: its iteration moved the pointer, and
\* the commit its receipt names holds a tree whose every attempt under the frozen
\* inputs passed, whatever crashes, hooks and other commits came between.
THEOREM ProofRowsAreEarned == Spec => []ProofIsEarned
<1>1. AcceptInv /\ JournalInv /\ PromiseInv /\ LedgerInv => ProofIsEarned
  <2> SUFFICES ASSUME AcceptInv, PromiseInv, LedgerInv, NEW i \in Dispatched, ledger[i] = "proof"
               PROVE  /\ Advances(i) # {}
                      /\ LET r == receipts[i] IN
                         /\ r.phase = "advanced"
                         /\ r.head <= HEAD /\ commits[r.head].tree = r.tree
                         /\ Outcomes(contexts[i], r.tree) = {"pass"}
                         /\ r.made <=> OwnCommits(i) # {}
    BY DEF ProofIsEarned
  <2>1. i \in 1 .. iters /\ i \in Iterations /\ HEAD \in Nat
    BY CurIsFit, AcceptBoundsAssumption DEF CurFits, AcceptInv, Numbered, Dispatched, Iterations
  <2>2. closes[i].result = "passed"
    BY <2>1 DEF LedgerInv, LedgerFollows
  <2>3. Advances(i) # {} /\ Earned(i)
    BY <2>1, <2>2 DEF PromiseInv, AdvanceFollows, EarnedOnes
  <2> QED BY <2>1, <2>3 DEF Earned, Gated, GatedIn, Outcomes
<1> QED BY <1>1, PromiseInductive, PTL

\* When a worker is dispatched no earlier acceptance is half done: what committed
\* moved the pointer, what moved the pointer has its proof row, and every receipt
\* its close record, however the runs before were interrupted.
THEOREM NothingLeftHalfDone == Spec => []NothingHalfDone
<1>1. AcceptInv /\ JournalInv /\ PromiseInv /\ LedgerInv => NothingHalfDone
  <2> SUFFICES ASSUME AcceptInv, JournalInv, PromiseInv, LedgerInv, pc = "dispatched",
                      NEW i \in Dispatched \ {cur}
               PROVE  /\ receipts[i] # NoReceipt => closes[i].result = "passed"
                      /\ OwnCommits(i) # {} => Advances(i) # {}
                      /\ Advances(i) # {} =>
                           \/ ledger[i] = "proof"
                           \/ ledger[i] = "denied" /\ closes[i].tree # closes[i].head_tree
    BY DEF NothingHalfDone
  <2>1. i \in 1 .. iters /\ i \in Iterations /\ i < iters
    <3>1. i \in 1 .. iters /\ i \in Iterations /\ iters \in Nat
      BY CurIsFit, AcceptBoundsAssumption DEF CurFits, AcceptInv, Numbered, Dispatched, Iterations
    <3> QED BY <3>1 DEF JournalInv, CurIsLast, Between
  <2>2. receipts[i] # NoReceipt =>
          closes[i].result = "passed" /\ Advances(i) # {} /\ ledger[i] \in Judged
    BY <2>1 DEF LedgerInv, AllPassed, Received, PromiseInv, AdvanceFollows
  <2>3. Advances(i) # {} \/ OwnCommits(i) # {} => receipts[i] # NoReceipt
    BY <2>1 DEF PromiseInv, AdvanceFollows
  <2>4. ledger[i] = "denied" /\ closes[i].result = "passed" => closes[i].tree # closes[i].head_tree
    BY <2>1 DEF LedgerInv, LedgerFollows
  <2> QED BY <2>2, <2>3, <2>4 DEF Judged
<1> QED BY <1>1, PromiseInductive, PTL
=============================================================================

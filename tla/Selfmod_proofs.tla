--------------------------- MODULE Selfmod_proofs ---------------------------
(***************************************************************************)
(* Proofs about Selfmod for any number of other loops, commits, launches   *)
(* and faults.                                                             *)
(*                                                                         *)
(* Commits leave the worktree in two ways only, a refresh and a removal.   *)
(* A refresh follows the clone only when the clone has all of it; a        *)
(* removal follows a fast-forward, after which nothing moves either head   *)
(* but a commit.  A landing replaces the clone's head, so what it freezes  *)
(* before the work must stay below the worktree until the clone moves.     *)
(***************************************************************************)
EXTENDS Selfmod, TLAPS

Pcs == {"off", "preflight", "setup", "enter", "work", "gate", "merge", "ff", "remove",
        "land", "landff", "landed", "back", "closing"}

Callers == {"none", "preflight", "setup", "iteration"}

Answers == {"none", "merged", "deferred", "failed"}

Places == {"clone", "tree"}

Stops == {"none", "timeout", "red", "touched", "invalid", "failed"}

RunSet == [pc : Pcs, caller : Callers, rc : Answers, owned : BOOLEAN, isolated : BOOLEAN,
           deferred : BOOLEAN, path : Places, base : SUBSET Nat, fresh : SUBSET Nat,
           stop : Stops]

Typed ==
  /\ run \in RunSet /\ made \in Nat
  /\ clone \in SUBSET Nat /\ tree \in SUBSET Nat

\* No head is empty: both reach the first commit.
Rooted == 0 \in clone /\ (tree # NoTree => 0 \in tree)

\* The worktree is removed only when the clone has all of it.
RemovesMerged == At("remove") => tree \subseteq clone

\* What an iteration may land on stays below the worktree.
LandsAbove == run.pc \in {"work", "gate", "land", "landff"} => run.base \subseteq tree

\* A run that is in the worktree has one, and an iteration goes on from its
\* retry in the worktree unless the retry landed.
InTree ==
  /\ run.path = "tree" => tree # NoTree
  /\ run.pc \in {"enter", "work", "gate", "land", "landff", "landed"} => run.path = "tree"
  /\ run.caller = "setup" /\ run.pc \in {"merge", "ff", "remove"} => run.path = "tree"
  /\ run.caller = "setup" /\ At("back") /\ run.rc # "merged" => run.path = "tree"

SelfInv ==
  /\ Typed /\ Rooted /\ NothingLost /\ RemovesMerged /\ LandsAbove /\ InTree

-----------------------------------------------------------------------------
(* The runner's record, as the steps write it.                             *)

LEMMA FieldsRun ==
  ASSUME NEW r \in RunSet
  PROVE  /\ r.pc \in Pcs /\ r.caller \in Callers /\ r.rc \in Answers
         /\ r.owned \in BOOLEAN /\ r.isolated \in BOOLEAN /\ r.deferred \in BOOLEAN
         /\ r.path \in Places /\ r.base \in SUBSET Nat /\ r.fresh \in SUBSET Nat
         /\ r.stop \in Stops
  BY DEF RunSet

LEMMA OffRun ==
  /\ Off \in RunSet /\ Off.pc = "off" /\ Off.path = "clone" /\ Off.caller = "none"
  /\ Off.rc = "none" /\ Off.base = {}
  BY DEF Off, RunSet, Pcs, Callers, Answers, Places, Stops, NoTree

LEMMA SetPc ==
  ASSUME NEW r \in RunSet, NEW x \in Pcs
  PROVE  LET q == [r EXCEPT !.pc = x] IN
         /\ q \in RunSet
         /\ q.pc = x /\ q.caller = r.caller /\ q.rc = r.rc /\ q.path = r.path /\ q.base = r.base
  BY DEF RunSet, Pcs

LEMMA StartedRun ==
  ASSUME NEW b \in BOOLEAN
  PROVE  LET q == [Off EXCEPT !.pc = "preflight", !.owned = b] IN
         /\ q \in RunSet
         /\ q.pc = "preflight" /\ q.caller = "none" /\ q.rc = "none" /\ q.path = "clone" /\ q.base = {}
  BY DEF RunSet, Pcs, Callers, Answers, Places, Stops, Off, NoTree

LEMMA RetryRun ==
  ASSUME run \in RunSet, NEW c \in Callers
  PROVE  LET q == Retry(c) IN
         /\ q \in RunSet
         /\ q.pc = "merge" /\ q.caller = c /\ q.rc = run.rc /\ q.path = run.path /\ q.base = run.base
  BY DEF RunSet, Pcs, Retry

LEMMA IsolatedRun ==
  ASSUME run \in RunSet
  PROVE  LET q == [run EXCEPT !.isolated = TRUE, !.path = "tree"] IN
         /\ q \in RunSet
         /\ q.pc = run.pc /\ q.caller = run.caller /\ q.rc = run.rc /\ q.path = "tree" /\ q.base = run.base
  BY DEF RunSet, Places

LEMMA EnteredRun ==
  ASSUME run \in RunSet, NEW b \in SUBSET Nat
  PROVE  LET q == [run EXCEPT !.pc = "work", !.fresh = {}, !.base = b] IN
         /\ q \in RunSet
         /\ q.pc = "work" /\ q.caller = run.caller /\ q.rc = run.rc /\ q.path = run.path /\ q.base = b
  BY DEF RunSet, Pcs

LEMMA WorkedRun ==
  ASSUME run \in RunSet, NEW c \in SUBSET Nat
  PROVE  LET q == [run EXCEPT !.pc = "gate", !.fresh = c] IN
         /\ q \in RunSet
         /\ q.pc = "gate" /\ q.caller = run.caller /\ q.rc = run.rc /\ q.path = run.path /\ q.base = run.base
  BY DEF RunSet, Pcs

LEMMA WithheldRun ==
  ASSUME NEW r \in RunSet, run \in RunSet, NEW stop \in Stops
  PROVE  LET q == Withheld(r, stop) IN
         /\ q \in RunSet
         /\ q.pc = "closing" /\ q.caller = r.caller /\ q.rc = r.rc /\ q.path = r.path /\ q.base = r.base
  BY DEF RunSet, Pcs, Withheld

LEMMA AnswerRun ==
  ASSUME run \in RunSet, NEW rc \in Answers
  PROVE  LET q == Answer(rc) IN
         /\ q \in RunSet
         /\ q.pc = "back" /\ q.caller = run.caller /\ q.rc = rc /\ q.path = run.path /\ q.base = run.base
  BY DEF RunSet, Pcs, Answer

LEMMA HomeRun ==
  ASSUME run \in RunSet
  PROVE  LET q == [Answer("merged") EXCEPT !.path = "clone"] IN
         /\ q \in RunSet
         /\ q.pc = "back" /\ q.caller = run.caller /\ q.rc = "merged" /\ q.path = "clone" /\ q.base = run.base
  BY DEF RunSet, Pcs, Callers, Answers, Places, Stops, Answer

LEMMA ResumedRun ==
  ASSUME run \in RunSet, NEW x \in Pcs
  PROVE  LET q == [Resumed EXCEPT !.pc = x] IN
         /\ q \in RunSet
         /\ q.pc = x /\ q.caller = "none" /\ q.rc = "none" /\ q.path = run.path /\ q.base = run.base
  BY DEF RunSet, Pcs, Callers, Answers, Places, Stops, Resumed

LEMMA ReenteredRun ==
  ASSUME run \in RunSet
  PROVE  LET q == Reentered[2] IN
         /\ q \in RunSet
         /\ q.pc = "enter" /\ q.caller = "none" /\ q.rc = "none" /\ q.path = "tree" /\ q.base = run.base
  BY DEF RunSet, Pcs, Callers, Answers, Places, Stops, Resumed, Reentered

LEMMA ClosingRun ==
  ASSUME run \in RunSet, NEW d \in BOOLEAN, NEW stop \in Stops
  PROVE  LET q == [Resumed EXCEPT !.pc = "closing", !.deferred = d, !.isolated = d, !.stop = stop] IN
         /\ q \in RunSet
         /\ q.pc = "closing" /\ q.caller = "none" /\ q.rc = "none" /\ q.path = run.path /\ q.base = run.base
  BY DEF RunSet, Pcs, Callers, Answers, Places, Stops, Resumed

LEMMA AgainRun ==
  ASSUME run \in RunSet
  PROVE  LET q == [run EXCEPT !.pc = "setup", !.fresh = {}] IN
         /\ q \in RunSet
         /\ q.pc = "setup" /\ q.caller = run.caller /\ q.rc = run.rc /\ q.path = run.path /\ q.base = run.base
  BY DEF RunSet, Pcs, Callers, Answers, Places, Stops

LEMMA GatedRun ==
  ASSUME run \in RunSet, NEW fresh \in SUBSET Nat
  PROVE  LET q == [run EXCEPT !.fresh = fresh] IN
         /\ q \in RunSet
         /\ q.caller = run.caller /\ q.rc = run.rc /\ q.path = run.path /\ q.base = run.base
  BY DEF RunSet

LEMMA UngatedRun ==
  ASSUME run \in RunSet, NEW stop \in Stops
  PROVE  LET q == [run EXCEPT !.stop = stop, !.base = NoTree] IN
         /\ q \in RunSet
         /\ q.caller = run.caller /\ q.rc = run.rc /\ q.path = run.path /\ q.base = NoTree
  BY DEF RunSet, NoTree

LEMMA MergesNextRun ==
  ASSUME NEW r \in RunSet, run \in RunSet, MergesNext(r)
  PROVE  /\ run' \in RunSet
         /\ run'.pc \in {"land", "merge", "closing"}
         /\ run'.pc = "merge" => run'.caller = "iteration"
         /\ run'.path = r.path /\ run'.base = r.base
<1>1. CASE Merges
  <2>1. \E pc \in {"land", "merge"} : run' = [r EXCEPT !.pc = pc, !.caller = "iteration"]
    BY <1>1 DEF MergesNext
  <2> QED BY <2>1 DEF RunSet, Pcs, Callers
<1>2. CASE ~Merges
  <2>1. r.stop \in Stops
    BY DEF RunSet
  <2>2. \E stop \in Stops : run' = Withheld(r, stop)
    BY <1>2, <2>1 DEF MergesNext, Stops
  <2> QED BY <2>2, WithheldRun
<1> QED BY <1>1, <1>2

-----------------------------------------------------------------------------
(* What a step does to the heads and to where the runner is.                *)

HeadsStay == UNCHANGED <<clone, tree, made>>

SamePlace == run'.path = run.path /\ run'.caller = run.caller

Refreshed == UNCHANGED <<clone, made>> /\ tree' = Created

Committed == UNCHANGED clone /\ made' = made + 1 /\ tree' = tree \cup {made'}

Disturbed == UNCHANGED tree /\ made' = made + 1 /\ clone' = clone \cup {made'}

Idles == run' = run /\ (HeadsStay \/ Disturbed)

OffAgain == /\ HeadsStay
            /\ run'.pc \in {"off", "preflight"} /\ run'.path = "clone" /\ run'.caller = "none"

Onward == /\ HeadsStay /\ run'.pc \in {"setup", "merge", "closing"} /\ run'.path = run.path
          /\ run'.pc = "merge" => run'.caller # "setup"

Stays == HeadsStay /\ run'.pc = "enter" /\ run.path = "tree" /\ run'.path = "tree"

Isolates == Refreshed /\ run'.pc \in {"enter", "merge"} /\ run'.path = "tree"

GoesOn == /\ HeadsStay /\ At("back") /\ run.caller = "setup" /\ run.rc # "merged"
          /\ run'.pc = "enter" /\ run'.path = run.path

Enters == /\ HeadsStay /\ At("enter") /\ run'.pc = "work" /\ run'.path = run.path
          /\ run'.base = NoTree \/ (run'.base = clone /\ clone = tree)

Works == /\ HeadsStay \/ Committed
         /\ \/ At("work") /\ run'.pc = "gate" /\ run'.base = run.base
            \/ /\ At("gate") /\ run'.pc \in {"land", "merge", "closing"}
               /\ run'.base \in {run.base, NoTree}
               /\ run'.pc = "merge" => run'.caller = "iteration"
         /\ run'.path = run.path

Probes == /\ Refreshed /\ At("merge") /\ SamePlace
          /\ run'.pc = "ff" \/ (run'.pc = "back" /\ run'.rc # "merged")

Forwards == /\ At("ff") /\ SamePlace /\ UNCHANGED <<tree, made>>
            /\ \/ clone \subseteq tree /\ clone' = tree /\ run'.pc = "remove"
               \/ tree \subseteq clone /\ UNCHANGED clone /\ run'.pc = "remove"
               \/ UNCHANGED clone /\ run'.pc = "back" /\ run'.rc = "failed"

Removes == /\ At("remove") /\ UNCHANGED <<clone, made>> /\ tree' \in {tree, NoTree}
           /\ run'.pc = "back" /\ run'.rc = "merged" /\ run'.path = "clone"

Lands == /\ UNCHANGED <<tree, made>>
         /\ \/ /\ run.pc \in {"land", "landff", "landed"} /\ UNCHANGED clone
               /\ run'.pc = "back" /\ run'.path = run.path
            \/ /\ At("land") /\ UNCHANGED clone
               /\ run'.pc = "landff" /\ run'.path = run.path /\ run'.base = run.base
            \/ /\ At("landff") /\ clone \in {run.base, tree} /\ clone' = tree
               /\ run'.pc = "landed" /\ run'.path = run.path
            \/ /\ At("landed") /\ UNCHANGED clone
               /\ run'.pc = "back" /\ run'.rc = "merged" /\ run'.path = "clone"

Moves ==
  /\ run' \in RunSet
  /\ \/ Idles \/ OffAgain \/ Onward \/ Stays \/ Isolates \/ GoesOn \/ Enters
     \/ Works \/ Probes \/ Forwards \/ Removes \/ Lands

LEMMA StepMoves ==
  ASSUME Typed, [Next]_vars
  PROVE  Moves
<1>0. run \in RunSet /\ made \in Nat /\ clone \in SUBSET Nat /\ tree \in SUBSET Nat
  BY DEF Typed
<1>a. ASSUME HeadsStay, run' = Off PROVE Moves
  BY <1>a, OffRun DEF Moves, OffAgain
<1>b. ASSUME HeadsStay, run' = run PROVE Moves
  BY <1>b, <1>0 DEF Moves, Idles
<1>c. ASSUME HeadsStay, NEW rc \in {"deferred", "failed"}, run' = Answer(rc),
             run.pc \in {"land", "landff", "landed"}
      PROVE  Moves
  BY <1>c, <1>0, AnswerRun DEF Moves, HeadsStay, Lands, Answers
<1>d. ASSUME made < MaxCommits, Commit PROVE made' \in Nat /\ tree' \in SUBSET Nat
  BY <1>d, <1>0 DEF Commit
<1> USE DEF At, NoTree, HeadsStay, gitVars
<1>1. ASSUME DispatchMerge PROVE Moves
  BY <1>1, StartedRun DEF DispatchMerge, Launched, Moves, OffAgain
<1>2. ASSUME Launch PROVE Moves
  BY <1>2, StartedRun DEF Launch, Launched, Moves, OffAgain
<1>3. ASSUME Preflight PROVE Moves
  <2>1. CASE run' = [run EXCEPT !.pc = "setup"]
    BY <1>3, <2>1, <1>0, SetPc DEF Preflight, Moves, Onward, Pcs
  <2>2. CASE run' = Off
    BY <1>3, <2>2, <1>a DEF Preflight
  <2>3. CASE run' = Retry("preflight")
    BY <1>3, <2>3, <1>0, RetryRun DEF Preflight, Moves, Onward, Callers
  <2> QED BY <1>3, <2>1, <2>2, <2>3 DEF Preflight, End
<1>4. ASSUME KeepPlace PROVE Moves
  BY <1>4, <1>0, SetPc DEF KeepPlace, Moves, Stays, Pcs
<1>5. ASSUME Isolate PROVE Moves
  <2> DEFINE in == [run EXCEPT !.isolated = TRUE, !.path = "tree"]
  <2>1. in \in RunSet /\ in.path = "tree"
    BY <1>0, IsolatedRun
  <2>2. Refreshed
    BY <1>5 DEF Isolate, Refreshed
  <2>3. run' = [in EXCEPT !.pc = "enter"] \/ run' = [in EXCEPT !.pc = "merge", !.caller = "setup"]
    BY <1>5 DEF Isolate
  <2> HIDE DEF in
  <2>4. CASE run' = [in EXCEPT !.pc = "enter"]
    BY <2>1, <2>2, <2>4, SetPc DEF Moves, Isolates, Pcs
  <2>5. CASE run' = [in EXCEPT !.pc = "merge", !.caller = "setup"]
    <3>1. run' \in RunSet /\ run'.pc = "merge" /\ run'.path = "tree"
      BY <2>1, <2>5 DEF RunSet, Pcs, Callers
    <3> QED BY <2>2, <3>1 DEF Moves, Isolates
  <2> QED BY <2>3, <2>4, <2>5
<1>6. ASSUME Enter PROVE Moves
  <2> DEFINE b == IF clone = tree /\ ~dirty THEN clone ELSE NoTree
  <2>1. run' = [run EXCEPT !.pc = "work", !.fresh = {}, !.base = b]
    BY <1>6 DEF Enter
  <2>2. HeadsStay /\ At("enter")
    BY <1>6 DEF Enter
  <2>3. b \in SUBSET Nat
    BY <1>0
  <2>4. run' \in RunSet /\ run'.pc = "work" /\ run'.path = run.path /\ run'.base = b
    <3> HIDE DEF b
    <3> QED BY <2>1, <2>3, <1>0, EnteredRun
  <2> QED BY <2>1, <2>2, <2>4 DEF Moves, Enters
<1>7. ASSUME Work PROVE Moves
  <2>1. CASE run' = [run EXCEPT !.pc = "gate"] /\ UNCHANGED <<made, tree>>
    BY <1>7, <2>1, <1>0, SetPc DEF Work, Moves, Works, Pcs
  <2>2. CASE Commit /\ run' = [run EXCEPT !.pc = "gate", !.fresh = {made'}]
    <3>1. {made'} \in SUBSET Nat
      BY <2>2, <1>0 DEF Commit
    <3>2. Committed /\ At("work")
      BY <1>7, <2>2 DEF Work, Commit, Committed
    <3> QED BY <2>2, <3>1, <3>2, <1>0, WorkedRun DEF Moves, Works
  <2> QED BY <1>7, <2>1, <2>2 DEF Work
<1>8. ASSUME GreenGate PROVE Moves
  <2>1. HeadsStay \/ Committed
    BY <1>8 DEF GreenGate, Commit, Committed
  <2>2. run.fresh \cup (tree' \ tree) \in SUBSET Nat
    <3>1. run.fresh \in SUBSET Nat
      BY <1>0, FieldsRun
    <3>2. CASE HeadsStay
      BY <3>1, <3>2, <1>0
    <3>3. CASE Committed
      <4>1. made' \in Nat /\ tree' \ tree \subseteq {made'}
        BY <3>3, <1>0 DEF Committed
      <4> QED BY <3>1, <4>1
    <3> QED BY <2>1, <3>2, <3>3
  <2>3. PICK fresh \in SUBSET Nat : MergesNext([run EXCEPT !.fresh = fresh])
    BY <1>8, <2>2 DEF GreenGate
  <2>4. At("gate")
    BY <1>8 DEF GreenGate
  <2> DEFINE r == [run EXCEPT !.fresh = fresh]
  <2>5. r \in RunSet /\ r.path = run.path /\ r.base = run.base
    BY <1>0, GatedRun
  <2>6. MergesNext(r)
    BY <2>3
  <2> HIDE DEF r
  <2> QED BY <2>1, <2>4, <2>5, <2>6, <1>0, MergesNextRun DEF Moves, Works
<1>9. ASSUME Interrupted PROVE Moves
  <2>1. HeadsStay \/ Committed
    BY <1>9 DEF Interrupted, Commit, Committed
  <2>2. PICK stop \in Stops : MergesNext([run EXCEPT !.stop = stop, !.base = NoTree])
    BY <1>9 DEF Interrupted, Stops
  <2> DEFINE r == [run EXCEPT !.stop = stop, !.base = NoTree]
  <2>3. r \in RunSet /\ r.path = run.path /\ r.base = NoTree
    BY <1>0, UngatedRun
  <2>4. MergesNext(r) /\ At("gate")
    BY <1>9, <2>2 DEF Interrupted
  <2> HIDE DEF r
  <2> QED BY <2>1, <2>3, <2>4, <1>0, MergesNextRun DEF Moves, Works
<1>10. ASSUME RedGate PROVE Moves
  <2>1. PICK stop \in Stops : run' = Withheld(run, stop)
    BY <1>10 DEF RedGate, Stops
  <2> QED BY <1>10, <2>1, <1>0, WithheldRun DEF RedGate, Moves, Onward
<1>11. ASSUME MergeProbes PROVE Moves
  <2>1. Refreshed /\ At("merge")
    BY <1>11 DEF MergeProbes, Refreshed
  <2>2. CASE run' = [run EXCEPT !.pc = "ff"]
    BY <2>1, <2>2, <1>0, SetPc DEF Moves, Probes, SamePlace, Pcs
  <2>3. CASE run' \in {Answer("failed"), Answer("deferred")}
    BY <2>1, <2>3, <1>0, AnswerRun DEF Moves, Probes, SamePlace, Answers
  <2> QED BY <1>11, <2>2, <2>3 DEF MergeProbes
<1>12. ASSUME MergeForward PROVE Moves
  <2>1. At("ff") /\ UNCHANGED <<tree, made>>
    BY <1>12 DEF MergeForward
  <2>2. CASE /\ run' = [run EXCEPT !.pc = "remove"]
             /\ (clone \subseteq tree /\ clone' = tree) \/ (tree \subseteq clone /\ UNCHANGED clone)
    BY <2>1, <2>2, <1>0, SetPc DEF Moves, Forwards, SamePlace, Pcs
  <2>3. CASE run' = Answer("failed") /\ UNCHANGED clone
    BY <2>1, <2>3, <1>0, AnswerRun DEF Moves, Forwards, SamePlace, Answers
  <2> QED BY <1>12, <2>2, <2>3 DEF MergeForward
<1>13. ASSUME RemoveTree PROVE Moves
  BY <1>13, <1>0, HomeRun DEF RemoveTree, Moves, Removes
<1>14. ASSUME LandProbes PROVE Moves
  <2>1. CASE run' = Answer("failed")
    BY <1>14, <2>1, <1>c DEF LandProbes
  <2>2. CASE run' = [run EXCEPT !.pc = "landff"]
    <3>1. At("land") /\ HeadsStay
      BY <1>14 DEF LandProbes
    <3> QED BY <3>1, <2>2, <1>0, SetPc DEF Moves, Lands, Pcs
  <2> QED BY <1>14, <2>1, <2>2 DEF LandProbes
<1>15. ASSUME LandForward PROVE Moves
  <2>1. CASE run' = Answer("failed") /\ UNCHANGED clone
    BY <1>15, <2>1, <1>c DEF LandForward
  <2>2. CASE run' = [run EXCEPT !.pc = "landed"] /\ clone \in {run.base, tree} /\ clone' = tree
    BY <1>15, <2>2, <1>0, SetPc DEF LandForward, Moves, Lands, Pcs
  <2> QED BY <1>15, <2>1, <2>2 DEF LandForward
<1>16. ASSUME LandVerifies PROVE Moves
  <2>1. CASE run' = Answer("failed")
    BY <1>16, <2>1, <1>c DEF LandVerifies
  <2>2. CASE run' = [Answer("merged") EXCEPT !.path = "clone"]
    BY <1>16, <2>2, <1>0, HomeRun DEF LandVerifies, Moves, Lands
  <2> QED BY <1>16, <2>1, <2>2 DEF LandVerifies
<1>17. ASSUME PreflightResumes PROVE Moves
  <2>1. CASE run' = [Resumed EXCEPT !.pc = "setup"]
    BY <1>17, <2>1, <1>0, ResumedRun DEF PreflightResumes, Moves, Onward, Pcs
  <2>2. CASE run' = Off
    BY <1>17, <2>2, <1>a DEF PreflightResumes
  <2> QED BY <1>17, <2>1, <2>2 DEF PreflightResumes, End
<1>18. ASSUME SetupResumes PROVE Moves
  <2>1. CASE run' = Off /\ UNCHANGED tree
    BY <1>18, <2>1, <1>a DEF SetupResumes
  <2>2. CASE run' = Reentered[2] /\ tree' = Reentered[1]
    <3>1. Refreshed
      BY <1>18, <2>2 DEF SetupResumes, Reentered, Refreshed
    <3> QED BY <3>1, <2>2, <1>0, ReenteredRun DEF Moves, Isolates
  <2>3. CASE run' = [Resumed EXCEPT !.pc = "enter"] /\ run.rc # "merged" /\ UNCHANGED tree
    BY <1>18, <2>3, <1>0, ResumedRun DEF SetupResumes, Moves, GoesOn, Pcs
  <2> QED BY <1>18, <2>1, <2>2, <2>3 DEF SetupResumes, End
<1>19. ASSUME IterationResumes PROVE Moves
  <2>1. PICK d \in BOOLEAN, stop \in Stops :
          run' = [Resumed EXCEPT !.pc = "closing", !.deferred = d, !.isolated = d, !.stop = stop]
    <3> DEFINE d == IF run.rc = "failed" THEN run.deferred ELSE run.rc = "deferred"
               stop == IF Lost THEN "invalid" ELSE IF run.rc = "failed" THEN "failed" ELSE run.stop
    <3>1. d \in BOOLEAN /\ stop \in Stops
      BY <1>0, FieldsRun DEF Stops
    <3>2. Resumed.stop = run.stop
      BY <1>0 DEF Resumed, RunSet
    <3>3. run' = [Resumed EXCEPT !.pc = "closing", !.deferred = d, !.isolated = d, !.stop = stop]
      BY <1>19, <3>2, <1>0 DEF IterationResumes
    <3> QED BY <3>1, <3>3
  <2>2. HeadsStay
    BY <1>19 DEF IterationResumes
  <2>3. run' \in RunSet /\ run'.pc = "closing" /\ run'.path = run.path
    BY <2>1, <1>0, ClosingRun
  <2> QED BY <2>2, <2>3 DEF Moves, Onward
<1>20. ASSUME Close PROVE Moves
  <2>1. CASE run' = Off
    BY <1>20, <2>1, <1>a DEF Close
  <2>2. CASE run' = [run EXCEPT !.pc = "setup", !.fresh = {}]
    BY <1>20, <2>2, <1>0, AgainRun DEF Close, Moves, Onward
  <2> QED BY <1>20, <2>1, <2>2 DEF Close, End
<1>21. ASSUME RunDies PROVE Moves
  BY <1>21, <1>a DEF RunDies
<1>22. ASSUME Disturb PROVE Moves
  BY <1>22, <1>0 DEF Disturb, Moves, Idles, Disturbed
<1>23. ASSUME NEW o \in Others, OtherStarts(o) PROVE Moves
  BY <1>23, <1>b DEF OtherStarts
<1>24. ASSUME NEW o \in Others, OtherEnds(o) PROVE Moves
  BY <1>24, <1>b DEF OtherEnds
<1>25. ASSUME RefuseMerge PROVE Moves
  BY <1>25, <1>b DEF RefuseMerge
<1>26. ASSUME Acknowledge PROVE Moves
  BY <1>26, <1>b DEF Acknowledge
<1>27. ASSUME UNCHANGED vars PROVE Moves
  BY <1>27, <1>b DEF vars
<1> QED BY <1>1, <1>2, <1>3, <1>4, <1>5, <1>6, <1>7, <1>8, <1>9, <1>10, <1>11, <1>12,
           <1>13, <1>14, <1>15, <1>16, <1>17, <1>18, <1>19, <1>20, <1>21, <1>22, <1>23,
           <1>24, <1>25, <1>26, <1>27
       DEF Next, RunSteps

-----------------------------------------------------------------------------
(* SelfInv is inductive.                                                   *)

LEMMA InitHolds == Init => SelfInv
  BY OffRun DEF Init, SelfInv, Typed, Rooted, NothingLost, RemovesMerged, LandsAbove, InTree,
         NoTree, At

LEMMA TypeStep ==
  ASSUME SelfInv, Moves
  PROVE  Typed'
<1>0. run' \in RunSet
  BY DEF Moves
<1> USE DEF SelfInv, Typed, NoTree
<1>1. CASE Idles
  <2>1. CASE HeadsStay
    BY <1>0, <2>1 DEF HeadsStay
  <2>2. CASE Disturbed
    <3>1. made' \in Nat
      BY <2>2 DEF Disturbed
    <3>2. clone' \in SUBSET Nat
      BY <2>2, <3>1 DEF Disturbed
    <3> QED BY <1>0, <2>2, <3>1, <3>2 DEF Disturbed
  <2> QED BY <1>1, <2>1, <2>2 DEF Idles
<1>2. CASE OffAgain
  BY <1>0, <1>2 DEF OffAgain, HeadsStay
<1>3. CASE Onward
  BY <1>0, <1>3 DEF Onward, HeadsStay
<1>4. CASE Stays
  BY <1>0, <1>4 DEF Stays, HeadsStay
<1>5. CASE Isolates
  BY <1>0, <1>5 DEF Isolates, Refreshed, Created
<1>6. CASE GoesOn
  BY <1>0, <1>6 DEF GoesOn, HeadsStay
<1>7. CASE Enters
  BY <1>0, <1>7 DEF Enters, HeadsStay
<1>8. CASE Works
  <2>1. CASE HeadsStay
    BY <1>0, <2>1 DEF HeadsStay
  <2>2. CASE Committed
    <3>1. made' \in Nat
      BY <2>2 DEF Committed
    <3>2. tree' \in SUBSET Nat
      BY <2>2, <3>1 DEF Committed
    <3> QED BY <1>0, <2>2, <3>1, <3>2 DEF Committed
  <2> QED BY <1>8, <2>1, <2>2 DEF Works
<1>9. CASE Probes
  BY <1>0, <1>9 DEF Probes, Refreshed, Created, SamePlace
<1>10. CASE Forwards
  BY <1>0, <1>10 DEF Forwards, SamePlace
<1>11. CASE Removes
  BY <1>0, <1>11 DEF Removes
<1>12. CASE Lands
  BY <1>0, <1>12 DEF Lands
<1> QED BY <1>1, <1>2, <1>3, <1>4, <1>5, <1>6, <1>7, <1>8, <1>9, <1>10, <1>11, <1>12 DEF Moves

LEMMA RootedStep ==
  ASSUME SelfInv, Moves
  PROVE  Rooted'
<1> USE DEF SelfInv, Typed, Rooted, InTree, NoTree, At
<1>1. CASE Idles
  BY <1>1 DEF Idles, Disturbed, HeadsStay
<1>2. CASE OffAgain
  BY <1>2 DEF OffAgain, HeadsStay
<1>3. CASE Onward
  BY <1>3 DEF Onward, HeadsStay
<1>4. CASE Stays
  BY <1>4 DEF Stays, HeadsStay
<1>5. CASE Isolates
  BY <1>5 DEF Isolates, Refreshed, Created
<1>6. CASE GoesOn
  BY <1>6 DEF GoesOn, HeadsStay
<1>7. CASE Enters
  BY <1>7 DEF Enters, HeadsStay
<1>8. CASE Works
  BY <1>8 DEF Works, HeadsStay, Committed
<1>9. CASE Probes
  BY <1>9 DEF Probes, Refreshed, Created, SamePlace
<1>10. CASE Forwards
  BY <1>10 DEF Forwards, SamePlace
<1>11. CASE Removes
  BY <1>11 DEF Removes
<1>12. CASE Lands
  BY <1>12 DEF Lands
<1> QED BY <1>1, <1>2, <1>3, <1>4, <1>5, <1>6, <1>7, <1>8, <1>9, <1>10, <1>11, <1>12 DEF Moves

LEMMA NothingLostStep ==
  ASSUME SelfInv, Moves
  PROVE  NothingLost'
<1> USE DEF SelfInv, Typed, NothingLost, RemovesMerged, LandsAbove, NoTree, At
<1>1. CASE Idles
  BY <1>1 DEF Idles, Disturbed, HeadsStay
<1>2. CASE OffAgain
  BY <1>2 DEF OffAgain, HeadsStay
<1>3. CASE Onward
  BY <1>3 DEF Onward, HeadsStay
<1>4. CASE Stays
  BY <1>4 DEF Stays, HeadsStay
<1>5. CASE Isolates
  BY <1>5 DEF Isolates, Refreshed, Created
<1>6. CASE GoesOn
  BY <1>6 DEF GoesOn, HeadsStay
<1>7. CASE Enters
  BY <1>7 DEF Enters, HeadsStay
<1>8. CASE Works
  BY <1>8 DEF Works, HeadsStay, Committed
<1>9. CASE Probes
  BY <1>9 DEF Probes, Refreshed, Created, SamePlace
<1>10. CASE Forwards
  BY <1>10 DEF Forwards, SamePlace
<1>11. CASE Removes
  BY <1>11 DEF Removes
<1>12. CASE Lands
  BY <1>12 DEF Lands
<1> QED BY <1>1, <1>2, <1>3, <1>4, <1>5, <1>6, <1>7, <1>8, <1>9, <1>10, <1>11, <1>12 DEF Moves

LEMMA RemovesMergedStep ==
  ASSUME SelfInv, Moves
  PROVE  RemovesMerged'
<1> USE DEF SelfInv, Typed, RemovesMerged, NoTree, At
<1>1. CASE Idles
  BY <1>1 DEF Idles, Disturbed, HeadsStay
<1>2. CASE OffAgain
  BY <1>2 DEF OffAgain, HeadsStay
<1>3. CASE Onward
  BY <1>3 DEF Onward, HeadsStay
<1>4. CASE Stays
  BY <1>4 DEF Stays, HeadsStay
<1>5. CASE Isolates
  BY <1>5 DEF Isolates, Refreshed, Created
<1>6. CASE GoesOn
  BY <1>6 DEF GoesOn, HeadsStay
<1>7. CASE Enters
  BY <1>7 DEF Enters, HeadsStay
<1>8. CASE Works
  BY <1>8 DEF Works, HeadsStay, Committed
<1>9. CASE Probes
  BY <1>9 DEF Probes, Refreshed, Created, SamePlace
<1>10. CASE Forwards
  BY <1>10 DEF Forwards, SamePlace
<1>11. CASE Removes
  BY <1>11 DEF Removes
<1>12. CASE Lands
  BY <1>12 DEF Lands
<1> QED BY <1>1, <1>2, <1>3, <1>4, <1>5, <1>6, <1>7, <1>8, <1>9, <1>10, <1>11, <1>12 DEF Moves

LEMMA LandsAboveStep ==
  ASSUME SelfInv, Moves
  PROVE  LandsAbove'
<1> USE DEF SelfInv, Typed, LandsAbove, NoTree, At
<1>1. CASE Idles
  BY <1>1 DEF Idles, Disturbed, HeadsStay
<1>2. CASE OffAgain
  BY <1>2 DEF OffAgain, HeadsStay
<1>3. CASE Onward
  BY <1>3 DEF Onward, HeadsStay
<1>4. CASE Stays
  BY <1>4 DEF Stays, HeadsStay
<1>5. CASE Isolates
  BY <1>5 DEF Isolates, Refreshed, Created
<1>6. CASE GoesOn
  BY <1>6 DEF GoesOn, HeadsStay
<1>7. CASE Enters
  BY <1>7 DEF Enters, HeadsStay
<1>8. CASE Works
  BY <1>8 DEF Works, HeadsStay, Committed
<1>9. CASE Probes
  BY <1>9 DEF Probes, Refreshed, Created, SamePlace
<1>10. CASE Forwards
  BY <1>10 DEF Forwards, SamePlace
<1>11. CASE Removes
  BY <1>11 DEF Removes
<1>12. CASE Lands
  BY <1>12 DEF Lands
<1> QED BY <1>1, <1>2, <1>3, <1>4, <1>5, <1>6, <1>7, <1>8, <1>9, <1>10, <1>11, <1>12 DEF Moves

LEMMA InTreeStep ==
  ASSUME SelfInv, Moves
  PROVE  InTree'
<1> USE DEF SelfInv, Typed, Rooted, InTree, NoTree, At
<1>1. CASE Idles
  BY <1>1 DEF Idles, Disturbed, HeadsStay
<1>2. CASE OffAgain
  BY <1>2 DEF OffAgain, HeadsStay
<1>3. CASE Onward
  BY <1>3 DEF Onward, HeadsStay
<1>4. CASE Stays
  BY <1>4 DEF Stays, HeadsStay
<1>5. CASE Isolates
  BY <1>5 DEF Isolates, Refreshed, Created
<1>6. CASE GoesOn
  BY <1>6 DEF GoesOn, HeadsStay
<1>7. CASE Enters
  BY <1>7 DEF Enters, HeadsStay
<1>8. CASE Works
  BY <1>8 DEF Works, HeadsStay, Committed
<1>9. CASE Probes
  BY <1>9 DEF Probes, Refreshed, Created, SamePlace
<1>10. CASE Forwards
  BY <1>10 DEF Forwards, SamePlace
<1>11. CASE Removes
  BY <1>11 DEF Removes
<1>12. CASE Lands
  BY <1>12 DEF Lands
<1> QED BY <1>1, <1>2, <1>3, <1>4, <1>5, <1>6, <1>7, <1>8, <1>9, <1>10, <1>11, <1>12 DEF Moves

-----------------------------------------------------------------------------
(* The theorems.                                                           *)

\* What a refresh, a removal and a landing take from a head is always in the other
\* one, and an iteration is in the worktree from its start to its merge.
THEOREM SelfmodInductive == Spec => []SelfInv
<1>1. SelfInv /\ [Next]_vars => SelfInv'
  <2> SUFFICES ASSUME SelfInv, [Next]_vars PROVE SelfInv'
    OBVIOUS
  <2>1. Moves
    BY StepMoves DEF SelfInv
  <2> QED BY <2>1, TypeStep, RootedStep, NothingLostStep, RemovesMergedStep, LandsAboveStep,
             InTreeStep DEF SelfInv
<1> QED BY InitHolds, <1>1, PTL DEF Spec

\* No commit is lost with the worktree: of any number, from any number of runs, each
\* is reachable from the clone or from the worktree, through every refresh, removal,
\* refused merge, landing, disturbance and death (selfmod_worktree.py, selfmod_landing.py).
THEOREM CommitsSurvive == Spec => []NothingLost
<1>1. SelfInv => NothingLost
  BY DEF SelfInv
<1> QED BY SelfmodInductive, <1>1, PTL

\* No worker is ever dispatched into the live clone, nor into a worktree that is gone
\* (run_ilk_loop_claude.sh's setup and its retry of a deferred merge).
THEOREM WorkersStayOut == Spec => []OutOfClone
<1>1. SelfInv => OutOfClone
  BY DEF SelfInv, InTree, OutOfClone, At
<1> QED BY SelfmodInductive, <1>1, PTL
=============================================================================

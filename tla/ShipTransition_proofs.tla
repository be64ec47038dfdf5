------------------------ MODULE ShipTransition_proofs ------------------------
(***************************************************************************)
(* Proofs about ShipTransition, for any set of sub-plans and sessions: its *)
(* type invariant and that no plan says shipped ahead of its evidence.     *)
(***************************************************************************)
EXTENDS ShipTransition, TLAPS

\* Where the procedures of process p return to.
Homes(p) == IF p = Runner THEN {"turn", "one-ship", "integrity"} ELSE {"idle"}

RunnersOwn == {"turn", "one-ship", "integrity", "row", "invalidate"}
Repairing  == {"retire", "unlink", "detect", "converge", "forget"}
Named      == {"intent", "marker", "status", "clear", "row", "invalidate"}
RepairJob(m) == [sub : Subs \cup {NoSub}, only : BOOLEAN, back : Labels,
                 found : SUBSET m]

\* A job j of process p fits the label l when the slugs m have their marker:
\* whoever is past the marker commit, or converges, has one.
JobFits(p, l, j, m) ==
  /\ l \in RunnersOwn => p = Runner
  /\ l \in Named \cup Repairing => j.back \in Homes(p)
  /\ l \in Named => j.sub \in Subs
  /\ l \in {"status", "clear"} => j.sub \in m
  /\ l \in Repairing => j \in RepairJob(m)

JobsOK ==
  /\ DOMAIN job = Procs
  /\ \A p \in Procs : JobFits(p, pc[p], job[p], marked)

TurnOK ==
  /\ turn = NoTurn \/ turn \in [target : Subs, left : SUBSET Subs, measured : BOOLEAN]
  /\ pc[Runner] # "idle" => turn # NoTurn

IInv == TypeOK /\ ShippedIsMarked /\ JobsOK /\ TurnOK

LEMMA HomesAreFree ==
  ASSUME NEW p, NEW l \in Homes(p), NEW j, NEW m
  PROVE  JobFits(p, l, j, m) /\ l \in Labels
BY DEF Homes, JobFits, RunnersOwn, Named, Repairing, Labels

\* More markers disturb no job.
LEMMA FitsMore ==
  ASSUME NEW p, NEW l, NEW j, NEW m, NEW n, m \subseteq n, JobFits(p, l, j, m)
  PROVE  JobFits(p, l, j, n)
BY DEF JobFits, RepairJob

\* One process moves to a label, with a job that fits it.
LEMMA Moved ==
  ASSUME JobsOK, pc \in [Procs -> Labels], marked \subseteq marked',
         NEW p \in Procs, NEW l \in Labels, NEW j, JobFits(p, l, j, marked'),
         pc' = [pc EXCEPT ![p] = l],
         job' = [job EXCEPT ![p] = j]
  PROVE  JobsOK' /\ pc' \in [Procs -> Labels]
<1>1. DOMAIN job' = Procs /\ pc' \in [Procs -> Labels]  BY DEF JobsOK
<1>2. ASSUME NEW q \in Procs PROVE JobFits(q, pc'[q], job'[q], marked')
  <2>1. CASE q = p
    <3>1. pc'[q] = l /\ job'[q] = j  BY <2>1 DEF JobsOK
    <3>. QED  BY <2>1, <3>1
  <2>2. CASE q # p
    <3>1. pc'[q] = pc[q] /\ job'[q] = job[q]  BY <2>2 DEF JobsOK
    <3>2. JobFits(q, pc[q], job[q], marked)  BY DEF JobsOK
    <3>. QED  BY <3>1, <3>2, FitsMore
  <2>. QED  BY <2>1, <2>2
<1>. QED  BY <1>1, <1>2 DEF JobsOK

LEMMA Went ==
  ASSUME JobsOK, pc \in [Procs -> Labels], marked \subseteq marked',
         NEW p \in Procs, NEW l \in Labels, JobFits(p, l, job[p], marked'),
         pc' = [pc EXCEPT ![p] = l],
         job' = job
  PROVE  JobsOK' /\ pc' \in [Procs -> Labels]
<1>1. ASSUME NEW q \in Procs PROVE JobFits(q, pc'[q], job[q], marked')
  <2>1. CASE q = p  BY <2>1
  <2>2. CASE q # p
    <3>1. pc'[q] = pc[q]  BY <2>2
    <3>2. JobFits(q, pc[q], job[q], marked)  BY DEF JobsOK
    <3>. QED  BY <3>1, <3>2, FitsMore
  <2>. QED  BY <2>1, <2>2
<1>. QED  BY <1>1 DEF JobsOK

LEMMA Stayed ==
  ASSUME JobsOK, pc \in [Procs -> Labels], marked \subseteq marked',
         pc' = pc, job' = job
  PROVE  JobsOK' /\ pc' \in [Procs -> Labels]
<1>1. ASSUME NEW q \in Procs PROVE JobFits(q, pc[q], job[q], marked')
  <2>1. JobFits(q, pc[q], job[q], marked)  BY DEF JobsOK
  <2>. QED  BY <2>1, FitsMore
<1>. QED  BY <1>1 DEF JobsOK

LEMMA Returned ==
  ASSUME IInv, NEW p \in Procs, pc[p] \in Named \cup Repairing, Return(p),
         marked \subseteq marked'
  PROVE  JobsOK' /\ pc' \in [Procs -> Labels]
<1>1. job[p].back \in Homes(p)  BY DEF IInv, JobsOK, JobFits
<1>2. JobFits(p, job[p].back, NoJob, marked') /\ job[p].back \in Labels
  BY <1>1, HomesAreFree
<1>. QED  BY <1>2, Moved DEF IInv, TypeOK, Return

\* What remains of the invariant when the plan files and the evidence are safe.
LEMMA Kept ==
  ASSUME IInv, JobsOK', pc' \in [Procs -> Labels],
         status' \in [Subs -> {"in-progress", "shipped", "blocked"}],
         marked' \subseteq Subs, marked \subseteq marked',
         reverts' \subseteq [slug : Subs, commit : BOOLEAN],
         \A row \in reverts' : row.commit => row.slug \in marked',
         forged' \subseteq Subs, undone' \subseteq Subs,
         intent' \in Subs \cup {NoSub}, faults' \in 0 .. MaxFaults,
         TurnOK', ShippedIsMarked'
  PROVE  IInv'
<1>1. \A p \in Sessions : pc'[p] \notin {"turn", "one-ship", "integrity", "row", "invalidate"}
  BY NamesAssumption DEF JobsOK, JobFits, RunnersOwn, Procs
<1>2. turn' = NoTurn \/ turn'.target \in Subs  BY DEF TurnOK
<1>. QED  BY <1>1, <1>2 DEF IInv, TypeOK

\* A step that writes no plan file, and does not start or end an iteration.
LEMMA Quiet ==
  ASSUME IInv, JobsOK', pc' \in [Procs -> Labels],
         status' = status, forged' = forged, turn' = turn,
         pc'[Runner] # "idle" => pc[Runner] # "idle",
         marked' \subseteq Subs, marked \subseteq marked',
         reverts' \subseteq [slug : Subs, commit : BOOLEAN],
         \A row \in reverts' : row.commit => row.slug \in marked',
         undone' \subseteq Subs, intent' \in Subs \cup {NoSub}, faults' \in 0 .. MaxFaults
  PROVE  IInv'
<1>1. TurnOK'  BY DEF IInv, TurnOK
<1>2. ShippedIsMarked'  BY DEF IInv, ShippedIsMarked
<1>. QED  BY <1>1, <1>2, Kept DEF IInv, TypeOK

-----------------------------------------------------------------------------

LEMMA InitKeeps == Init => IInv
<1>. SUFFICES ASSUME Init PROVE IInv  OBVIOUS
<1>1. Runner \in Procs /\ "idle" \in Labels  BY DEF Procs, Labels
<1>2. TypeOK
  <2>1. pc \in [Procs -> Labels] /\ \A p \in Sessions : pc[p] = "idle"
    BY <1>1 DEF Init, Procs
  <2>2. faults \in 0 .. MaxFaults  BY FaultsAssumption DEF Init
  <2>. QED  BY <2>1, <2>2 DEF Init, TypeOK
<1>3. JobsOK
  <2>. SUFFICES ASSUME NEW p \in Procs PROVE JobFits(p, "idle", NoJob, {})
    BY DEF JobsOK, Init
  <2>. QED  BY DEF JobFits, RunnersOwn, Named, Repairing
<1>4. ShippedIsMarked /\ TurnOK  BY <1>1 DEF Init, ShippedIsMarked, TurnOK
<1>. QED  BY <1>2, <1>3, <1>4 DEF IInv

-----------------------------------------------------------------------------
(* ship().                                                                 *)

LEMMA ShipKeeps ==
  ASSUME IInv, NEW p \in Procs, Ship(p)
  PROVE  IInv'
<1>. USE DEF Goto
<1>0. /\ TypeOK /\ JobsOK /\ JobFits(p, pc[p], job[p], marked)
      /\ Runner \in Procs
  BY DEF IInv, JobsOK, Procs
<1>1. CASE WriteIntent(p)
  <2>1. job[p].sub \in Subs  BY <1>0, <1>1 DEF WriteIntent, JobFits, Named
  <2>2. JobFits(p, "marker", job[p], marked') /\ "marker" \in Labels
    BY <1>0, <1>1 DEF WriteIntent, JobFits, RunnersOwn, Named, Repairing, Labels
  <2>3. JobsOK' /\ pc' \in [Procs -> Labels]
    BY <1>0, <1>1, <2>2, Went DEF WriteIntent, TypeOK
  <2>. QED  BY <1>0, <1>1, <2>1, <2>3, Quiet DEF WriteIntent, TypeOK
<1>2. CASE CommitMarker(p)
  <2>1. job[p].sub \in Subs  BY <1>0, <1>2 DEF CommitMarker, JobFits, Named
  <2>2. JobFits(p, "status", job[p], marked') /\ "status" \in Labels
    BY <1>0, <1>2 DEF CommitMarker, JobFits, RunnersOwn, Named, Repairing, Labels
  <2>3. JobsOK' /\ pc' \in [Procs -> Labels]
    BY <1>0, <1>2, <2>2, Went DEF CommitMarker, TypeOK
  <2>. QED  BY <1>0, <1>2, <2>1, <2>3, Quiet DEF CommitMarker, TypeOK
<1>3. CASE WriteStatus(p)
  <2>1. job[p].sub \in marked /\ job[p].sub \in Subs
    BY <1>0, <1>3 DEF WriteStatus, JobFits, Named
  <2>2. CASE status[job[p].sub] = "blocked"
    <3>1. JobsOK' /\ pc' \in [Procs -> Labels]
      BY <1>3, <2>2, Returned DEF WriteStatus, Named
    <3>. QED  BY <1>0, <1>3, <2>2, <3>1, Quiet DEF WriteStatus, Return, TypeOK
  <2>3. CASE status[job[p].sub] # "blocked"
    <3>1. JobFits(p, "clear", job[p], marked') /\ "clear" \in Labels
      BY <1>0, <1>3, <2>1 DEF WriteStatus, JobFits, RunnersOwn, Named, Repairing, Labels
    <3>2. JobsOK' /\ pc' \in [Procs -> Labels]
      BY <1>0, <1>3, <2>3, <3>1, Went DEF WriteStatus, TypeOK
    <3>3. status' = [status EXCEPT ![job[p].sub] = "shipped"]
      BY <1>3, <2>3 DEF WriteStatus
    <3>4. ShippedIsMarked'
      BY <1>3, <2>1, <3>3 DEF IInv, TypeOK, ShippedIsMarked, WriteStatus
    <3>5. TurnOK'  BY <1>0, <1>3, <2>3 DEF IInv, TypeOK, TurnOK, WriteStatus
    <3>. QED  BY <1>0, <1>3, <2>1, <3>2, <3>3, <3>4, <3>5, Kept DEF WriteStatus, TypeOK
  <2>. QED  BY <2>2, <2>3
<1>4. CASE ClearIntent(p)
  <2>1. JobsOK' /\ pc' \in [Procs -> Labels]
    BY <1>4, Returned DEF ClearIntent, Named
  <2>. QED  BY <1>0, <1>4, <2>1, Quiet DEF ClearIntent, Return, TypeOK
<1>. QED  BY <1>1, <1>2, <1>3, <1>4 DEF Ship

LEMMA ShipFromKeeps ==
  ASSUME IInv, NEW p \in Procs, NEW s \in Subs, NEW back \in Homes(p),
         ShipFrom(p, s, back), pc[p] # "idle" \/ p # Runner
  PROVE  IInv'
<1>1. JobFits(p, "intent", [sub |-> s, back |-> back], marked') /\ "intent" \in Labels
  BY DEF JobFits, RunnersOwn, Named, Repairing, Labels
<1>2. JobsOK' /\ pc' \in [Procs -> Labels]
  BY <1>1, Moved DEF ShipFrom, Goto, IInv, TypeOK
<1>. QED  BY <1>2, Quiet DEF ShipFrom, Goto, IInv, TypeOK, Procs

-----------------------------------------------------------------------------
(* repair().                                                               *)

\* A step into the first label of repair(), whatever becomes of the turn.
LEMMA RepairFromFits ==
  ASSUME IInv, NEW p \in Procs, NEW only \in BOOLEAN, NEW back \in Homes(p),
         RepairFrom(p, only, back)
  PROVE  JobsOK' /\ pc' \in [Procs -> Labels]
<1>. DEFINE j == [sub |-> NoSub, only |-> only, back |-> back, found |-> {}]
<1>1. back \in Labels  BY HomesAreFree
<1>2. j \in RepairJob(marked')  BY <1>1 DEF RepairJob
<1>3. j.back \in Homes(p)  OBVIOUS
<1>4. job' = [job EXCEPT ![p] = j] /\ pc' = [pc EXCEPT ![p] = "retire"] /\ marked' = marked
  BY DEF RepairFrom, Goto
<1>. HIDE DEF j
<1>5. JobFits(p, "retire", j, marked') /\ "retire" \in Labels
  BY <1>2, <1>3 DEF JobFits, RunnersOwn, Named, Repairing, Labels
<1>. QED  BY <1>4, <1>5, Moved DEF IInv, TypeOK

LEMMA RepairKeeps ==
  ASSUME IInv, NEW p \in Procs, Repair(p)
  PROVE  IInv'
<1>. USE DEF Goto
<1>0. /\ TypeOK /\ JobsOK /\ JobFits(p, pc[p], job[p], marked)
      /\ Runner \in Procs
  BY DEF IInv, JobsOK, Procs
<1>1. CASE Retire(p)
  <2>1. \A l \in {"unlink", "detect"} : JobFits(p, l, job[p], marked') /\ l \in Labels
    BY <1>0, <1>1 DEF Retire, JobFits, RunnersOwn, Named, Repairing, Labels
  <2>2. JobsOK' /\ pc' \in [Procs -> Labels]
    BY <1>0, <1>1, <2>1, Went DEF Retire, TypeOK
  <2>. QED  BY <1>0, <1>1, <2>2, Quiet DEF Retire, TypeOK
<1>2. CASE Unlink(p)
  <2>1. JobFits(p, "detect", job[p], marked') /\ "detect" \in Labels
    BY <1>0, <1>2 DEF Unlink, JobFits, RunnersOwn, Named, Repairing, Labels
  <2>2. JobsOK' /\ pc' \in [Procs -> Labels]
    BY <1>0, <1>2, <2>1, Went DEF Unlink, TypeOK
  <2>. QED  BY <1>0, <1>2, <2>2, Quiet DEF Unlink, TypeOK
<1>3. CASE Detect(p)
  <2>. DEFINE found == IF job[p].only THEN Diverged \cap {intent} ELSE Diverged
              j == [job[p] EXCEPT !.found = found]
  <2>1. found \subseteq marked  BY DEF Diverged
  <2>2. CASE Return(p)
    <3>1. JobsOK' /\ pc' \in [Procs -> Labels]
      BY <1>3, <2>2, Returned DEF Detect, Repairing
    <3>. QED  BY <1>0, <1>3, <2>2, <3>1, Quiet DEF Detect, Return, TypeOK
  <2>3. CASE job' = [job EXCEPT ![p].found = found] /\ Goto(p, "converge")
    <3>1. job[p] \in RepairJob(marked) /\ job[p].back \in Homes(p)
      BY <1>0, <1>3 DEF Detect, JobFits, Named, Repairing
    <3>2. j \in RepairJob(marked') /\ j.back \in Homes(p)
      BY <1>3, <2>1, <3>1 DEF Detect, RepairJob
    <3>3. job' = [job EXCEPT ![p] = j]  BY <2>3
    <3>. HIDE DEF j
    <3>4. JobFits(p, "converge", j, marked') /\ "converge" \in Labels
      BY <3>2 DEF JobFits, RunnersOwn, Named, Repairing, Labels
    <3>5. marked' = marked  BY <1>3 DEF Detect
    <3>6. JobsOK' /\ pc' \in [Procs -> Labels]
      BY <1>0, <2>3, <3>3, <3>4, <3>5, Moved DEF TypeOK
    <3>. QED  BY <1>0, <1>3, <2>3, <3>6, Quiet DEF Detect, TypeOK
  <2>. QED  BY <1>3, <2>2, <2>3 DEF Detect
<1>4. CASE Converge(p)
  <2>1. job[p] \in RepairJob(marked) /\ job[p].back \in Homes(p)
    BY <1>0, <1>4 DEF Converge, JobFits, Named, Repairing
  <2>2. PICK s \in job[p].found : Converge(p)!2!(s)  BY <1>4 DEF Converge
  <2>. DEFINE rest == job[p].found \ {s}
  <2>3. s \in marked /\ rest \subseteq marked  BY <2>1 DEF RepairJob
  <2>4. CASE Return(p) /\ UNCHANGED status
    <3>1. JobsOK' /\ pc' \in [Procs -> Labels]
      BY <1>4, <2>4, Returned DEF Converge, Repairing
    <3>. QED  BY <1>0, <1>4, <2>4, <3>1, Quiet DEF Converge, Return, TypeOK
  <2>5. CASE UNCHANGED <<pc, status>> /\ job' = [job EXCEPT ![p].found = rest]
    <3>. DEFINE j == [job[p] EXCEPT !.found = rest]
    <3>1. j \in RepairJob(marked') /\ j.back \in Homes(p)
      BY <1>4, <2>1, <2>3 DEF Converge, RepairJob
    <3>2. job' = [job EXCEPT ![p] = j]  BY <2>5
    <3>. HIDE DEF j
    <3>3. JobFits(p, "converge", j, marked') /\ "converge" \in Labels
      BY <3>1 DEF JobFits, RunnersOwn, Named, Repairing, Labels
    <3>4. marked' = marked /\ pc' = [pc EXCEPT ![p] = "converge"]
      BY <1>0, <1>4, <2>5 DEF Converge, TypeOK
    <3>5. JobsOK' /\ pc' \in [Procs -> Labels]
      BY <1>0, <3>2, <3>3, <3>4, Moved DEF TypeOK
    <3>. QED  BY <1>0, <1>4, <2>5, <3>5, Quiet DEF Converge, TypeOK
  <2>6. CASE /\ status' = [status EXCEPT ![s] = "shipped"]
             /\ job' = [job EXCEPT ![p].found = rest, ![p].sub = s]
             /\ Goto(p, "forget")
    <3>. DEFINE j == [job[p] EXCEPT !.found = rest, !.sub = s]
    <3>1. s \in Subs  BY <1>0, <2>3 DEF TypeOK
    <3>2. j \in RepairJob(marked') /\ j.back \in Homes(p)
      BY <1>4, <2>1, <2>3, <3>1 DEF Converge, RepairJob
    <3>3. job' = [job EXCEPT ![p] = j]  BY <1>0, <2>6 DEF JobsOK
    <3>. HIDE DEF j
    <3>4. JobFits(p, "forget", j, marked') /\ "forget" \in Labels
      BY <3>2 DEF JobFits, RunnersOwn, Named, Repairing, Labels
    <3>5. marked' = marked  BY <1>4 DEF Converge
    <3>6. JobsOK' /\ pc' \in [Procs -> Labels]
      BY <1>0, <2>6, <3>3, <3>4, <3>5, Moved DEF TypeOK
    <3>7. ShippedIsMarked'
      BY <1>4, <2>3, <2>6, <3>1 DEF IInv, TypeOK, ShippedIsMarked, Converge
    <3>8. TurnOK'  BY <1>0, <1>4, <2>6 DEF IInv, TypeOK, TurnOK, Converge
    <3>. QED  BY <1>0, <1>4, <2>6, <3>1, <3>6, <3>7, <3>8, Kept DEF Converge, TypeOK
  <2>. QED  BY <2>2, <2>4, <2>5, <2>6
<1>5. CASE Forget(p)
  <2>1. CASE Return(p)
    <3>1. JobsOK' /\ pc' \in [Procs -> Labels]
      BY <1>5, <2>1, Returned DEF Forget, Repairing
    <3>. QED  BY <1>0, <1>5, <2>1, <3>1, Quiet DEF Forget, Return, TypeOK
  <2>2. CASE Goto(p, "converge") /\ UNCHANGED job
    <3>1. JobFits(p, "converge", job[p], marked') /\ "converge" \in Labels
      BY <1>0, <1>5 DEF Forget, JobFits, RunnersOwn, Named, Repairing, Labels
    <3>2. JobsOK' /\ pc' \in [Procs -> Labels]
      BY <1>0, <1>5, <2>2, <3>1, Went DEF Forget, TypeOK
    <3>. QED  BY <1>0, <1>5, <2>2, <3>2, Quiet DEF Forget, TypeOK
  <2>. QED  BY <1>5, <2>1, <2>2 DEF Forget
<1>. QED  BY <1>1, <1>2, <1>3, <1>4, <1>5 DEF Repair

-----------------------------------------------------------------------------
(* The runner's iteration.                                                 *)

\* The runner moves on and looks at less than before, or at everything.
LEMMA TurnGoesOn ==
  ASSUME IInv, turn \in [target : Subs, left : SUBSET Subs, measured : BOOLEAN],
         \/ \E s \in turn.left : turn' = [turn EXCEPT !.left = @ \ {s}]
         \/ turn' = [turn EXCEPT !.left = Subs]
         \/ \E m \in BOOLEAN : turn' = [turn EXCEPT !.measured = m]
  PROVE  TurnOK'
<1>1. turn' \in [target : Subs, left : SUBSET Subs, measured : BOOLEAN]  OBVIOUS
<1>2. turn' # NoTurn
  <2>1. turn'.left \in SUBSET Subs /\ DOMAIN turn' = {"target", "left", "measured"}
    BY <1>1
  <2>2. DOMAIN NoTurn = {"target"}  BY DEF NoTurn
  <2>. QED  BY <2>1, <2>2
<1>. QED  BY <1>1, <1>2 DEF TurnOK

LEMMA BusyHasTurn ==
  ASSUME IInv, pc[Runner] # "idle"
  PROVE  turn \in [target : Subs, left : SUBSET Subs, measured : BOOLEAN]
BY DEF IInv, TurnOK

\* The runner only moves to another label of its iteration.
LEMMA RunnerGoes ==
  ASSUME IInv, NEW l \in {"idle", "turn", "one-ship", "integrity"},
         Goto(Runner, l), UNCHANGED <<status, marked, reverts, intent, job, forged,
                                      undone, faults>>, TurnOK'
  PROVE  IInv'
<1>1. Runner \in Procs  BY DEF Procs
<1>2. JobFits(Runner, l, job[Runner], marked') /\ l \in Labels
  BY DEF JobFits, RunnersOwn, Named, Repairing, Labels
<1>3. JobsOK' /\ pc' \in [Procs -> Labels]
  BY <1>1, <1>2, Went DEF Goto, IInv, TypeOK
<1>4. ShippedIsMarked'  BY DEF IInv, ShippedIsMarked
<1>. QED  BY <1>3, <1>4, Kept DEF IInv, TypeOK

\* The runner looks at one more sub-plan and leaves it alone.
LEMMA TurnKeeps ==
  ASSUME IInv, UNCHANGED <<status, marked, reverts, intent, pc, job, forged, undone, faults>>,
         TurnOK'
  PROVE  IInv'
<1>1. JobsOK' /\ pc' \in [Procs -> Labels]  BY Stayed DEF IInv, TypeOK
<1>2. ShippedIsMarked'  BY DEF IInv, ShippedIsMarked
<1>. QED  BY <1>1, <1>2, Kept DEF IInv, TypeOK

LEMMA RevertKeeps ==
  ASSUME IInv, NEW s \in Subs, NEW site, NEW back \in Homes(Runner),
         RevertFrom(s, site, back), TurnOK'
  PROVE  IInv'
<1>1. Runner \in Procs  BY DEF Procs
<1>2. JobFits(Runner, "row", [sub |-> s, site |-> site, back |-> back], marked')
      /\ "row" \in Labels
  BY DEF JobFits, RunnersOwn, Named, Repairing, Labels
<1>3. JobsOK' /\ pc' \in [Procs -> Labels]
  BY <1>1, <1>2, Moved DEF RevertFrom, Goto, IInv, TypeOK
<1>4. ShippedIsMarked'  BY DEF IInv, TypeOK, ShippedIsMarked, RevertFrom
<1>5. undone' \subseteq Subs  BY DEF IInv, TypeOK, RevertFrom
<1>6. forged' \subseteq Subs  BY DEF IInv, TypeOK, RevertFrom
<1>. QED  BY <1>3, <1>4, <1>5, <1>6, Kept DEF RevertFrom, IInv, TypeOK

LEMMA RecordKeeps ==
  ASSUME IInv, RecordRevert
  PROVE  IInv'
<1>0. Runner \in Procs /\ JobFits(Runner, "row", job[Runner], marked)
  BY DEF RecordRevert, IInv, JobsOK, Procs
<1>1. job[Runner].sub \in Subs  BY <1>0 DEF JobFits, Named
<1>2. /\ reverts' \subseteq [slug : Subs, commit : BOOLEAN]
      /\ \A row \in reverts' : row.commit => row.slug \in marked'
  <2>. DEFINE new == [slug |-> job[Runner].sub, commit |-> job[Runner].sub \in marked]
  <2>1. new \in [slug : Subs, commit : BOOLEAN] /\ (new.commit => new.slug \in marked)
    <3>1. (job[Runner].sub \in marked) \in BOOLEAN  OBVIOUS
    <3>2. new.slug = job[Runner].sub /\ new.commit = (job[Runner].sub \in marked)  BY Zenon
    <3>3. new.commit => new.slug \in marked  BY <3>2, Zenon
    <3>. QED  BY <1>1, <3>1, <3>3, Zenon
  <2>2. reverts' = reverts \cup {new} \/ reverts' = reverts  BY Zenon DEF RecordRevert
  <2>3. marked' = marked  BY DEF RecordRevert
  <2>. HIDE DEF new
  <2>. QED  BY <2>1, <2>2, <2>3 DEF IInv, TypeOK
<1>3. faults' \in 0 .. MaxFaults
  BY FaultsAssumption DEF RecordRevert, IInv, TypeOK
<1>4. CASE Goto(Runner, "invalidate") /\ UNCHANGED job
  <2>1. JobFits(Runner, "invalidate", job[Runner], marked') /\ "invalidate" \in Labels
    BY <1>0 DEF RecordRevert, JobFits, RunnersOwn, Named, Repairing, Labels
  <2>2. JobsOK' /\ pc' \in [Procs -> Labels]
    BY <1>0, <1>4, <2>1, Went DEF RecordRevert, Goto, IInv, TypeOK
  <2>. QED  BY <1>2, <1>3, <2>2, Quiet DEF RecordRevert, IInv, TypeOK
<1>5. CASE Return(Runner)
  <2>1. JobsOK' /\ pc' \in [Procs -> Labels]
    BY <1>0, <1>5, Returned DEF RecordRevert, Named
  <2>. QED  BY <1>2, <1>3, <2>1, Quiet DEF RecordRevert, IInv, TypeOK
<1>. QED  BY <1>4, <1>5 DEF RecordRevert

LEMMA InvalidateKeeps ==
  ASSUME IInv, InvalidateIntent
  PROVE  IInv'
<1>1. JobsOK' /\ pc' \in [Procs -> Labels]
  BY Returned DEF InvalidateIntent, Named, Procs
<1>. QED  BY <1>1, Quiet DEF InvalidateIntent, IInv, TypeOK

LEMMA IterationKeeps ==
  ASSUME IInv, WorkerEnds \/ DriverShips \/ WorkerRepairs \/ RevertForeign
               \/ ConvergeShip \/ EnforceIntegrity \/ EndIteration
  PROVE  IInv'
<1>0. /\ Runner \in Procs /\ turn \in [target : Subs, left : SUBSET Subs, measured : BOOLEAN]
      /\ pc[Runner] # "idle"
      /\ Homes(Runner) = {"turn", "one-ship", "integrity"}
  BY BusyHasTurn DEF WorkerEnds, DriverShips, WorkerRepairs, RevertForeign, ConvergeShip,
     EnforceIntegrity, EndIteration, Procs, Homes
<1>1. CASE WorkerEnds
  <2>1. TurnOK'  BY <1>0, <1>1, TurnGoesOn DEF WorkerEnds
  <2>. QED  BY <1>1, <2>1, RunnerGoes DEF WorkerEnds
<1>2. CASE DriverShips
  BY <1>0, <1>2, ShipFromKeeps DEF DriverShips
<1>3. CASE WorkerRepairs
  <2>1. JobsOK' /\ pc' \in [Procs -> Labels]
    BY <1>0, <1>3, RepairFromFits DEF WorkerRepairs
  <2>. QED  BY <1>0, <1>3, <2>1, Quiet DEF WorkerRepairs, RepairFrom, IInv, TypeOK
<1>4. CASE RevertForeign
  <2>1. PICK s \in turn.left :
          /\ turn' = [turn EXCEPT !.left = @ \ {s}]
          /\ \/ RevertFrom(s, "one-ship", "one-ship")
             \/ UNCHANGED <<status, marked, reverts, intent, pc, job, forged, undone, faults>>
    BY <1>4 DEF RevertForeign
  <2>2. s \in Subs /\ TurnOK'  BY <1>0, <2>1, TurnGoesOn
  <2>. QED  BY <1>0, <2>1, <2>2, RevertKeeps, TurnKeeps
<1>5. CASE ConvergeShip
  <2>1. TurnOK'  BY <1>0, <1>5, TurnGoesOn DEF ConvergeShip
  <2>2. CASE turn.measured
    <3>1. RepairFrom(Runner, TRUE, "integrity")  BY <1>5, <2>2 DEF ConvergeShip
    <3>2. JobsOK' /\ pc' \in [Procs -> Labels]  BY <1>0, <3>1, RepairFromFits
    <3>3. ShippedIsMarked'  BY <3>1 DEF RepairFrom, IInv, ShippedIsMarked
    <3>. QED  BY <2>1, <3>1, <3>2, <3>3, Kept DEF RepairFrom, IInv, TypeOK
  <2>3. CASE ~turn.measured
    BY <1>5, <2>1, <2>3, RunnerGoes DEF ConvergeShip
  <2>. QED  BY <2>2, <2>3
<1>6. CASE EnforceIntegrity
  <2>1. PICK s \in turn.left :
          /\ turn' = [turn EXCEPT !.left = @ \ {s}]
          /\ \/ \E site \in {"integrity", "inconclusive"} : RevertFrom(s, site, "integrity")
             \/ UNCHANGED <<status, marked, reverts, intent, pc, job, forged, undone, faults>>
    BY <1>6 DEF EnforceIntegrity
  <2>2. s \in Subs /\ TurnOK'  BY <1>0, <2>1, TurnGoesOn
  <2>. QED  BY <1>0, <2>1, <2>2, RevertKeeps, TurnKeeps
<1>7. CASE EndIteration
  <2>1. TurnOK'
    BY <1>0, <1>7 DEF EndIteration, Goto, TurnOK, IInv, TypeOK
  <2>. QED  BY <1>7, <2>1, RunnerGoes DEF EndIteration
<1>. QED  BY <1>1, <1>2, <1>3, <1>4, <1>5, <1>6, <1>7

LEMMA DispatchKeeps ==
  ASSUME IInv, NEW s \in Subs, Dispatch(s)
  PROVE  IInv'
<1>1. turn' \in [target : Subs, left : SUBSET Subs, measured : BOOLEAN]
  BY DEF Dispatch
<1>2. turn' # NoTurn
  <2>1. DOMAIN turn' = {"target", "left", "measured"}  BY DEF Dispatch
  <2>2. DOMAIN NoTurn = {"target"}  BY DEF NoTurn
  <2>. QED  BY <2>1, <2>2
<1>. QED  BY <1>1, <1>2, RunnerGoes DEF Dispatch, TurnOK

-----------------------------------------------------------------------------
(* Everything else.                                                        *)

LEMMA OthersKeep ==
  ASSUME IInv, NEW s \in Subs, WorkerForges(s) \/ Hold(s)
  PROVE  IInv'
<1>1. JobsOK' /\ pc' \in [Procs -> Labels]
  BY Stayed DEF WorkerForges, Hold, IInv, TypeOK
<1>2. TurnOK'  BY DEF WorkerForges, Hold, IInv, TurnOK
<1>3. ShippedIsMarked'
  BY DEF WorkerForges, Hold, IInv, TypeOK, ShippedIsMarked
<1>4. /\ status' \in [Subs -> {"in-progress", "shipped", "blocked"}]
      /\ forged' \subseteq Subs
  BY DEF WorkerForges, Hold, IInv, TypeOK
<1>. QED  BY <1>1, <1>2, <1>3, <1>4, Kept DEF WorkerForges, Hold, IInv, TypeOK

LEMMA CrashKeeps ==
  ASSUME IInv, NEW p \in Procs, Crash(p)
  PROVE  IInv'
<1>1. JobFits(p, "idle", NoJob, marked') /\ "idle" \in Labels
  BY DEF JobFits, RunnersOwn, Named, Repairing, Labels
<1>2. JobsOK' /\ pc' \in [Procs -> Labels]
  BY <1>1, Moved DEF Crash, Goto, IInv, TypeOK
<1>3. TurnOK'  BY DEF Crash, Goto, IInv, TypeOK, TurnOK, Procs
<1>4. ShippedIsMarked'  BY DEF Crash, IInv, ShippedIsMarked
<1>5. faults' \in 0 .. MaxFaults  BY FaultsAssumption DEF Crash, IInv, TypeOK
<1>. QED  BY <1>2, <1>3, <1>4, <1>5, Kept DEF Crash, IInv, TypeOK

LEMMA SessionKeeps ==
  ASSUME IInv, NEW p \in Sessions,
         SessionRepairs(p) \/ \E s \in Subs : SessionShips(p, s)
  PROVE  IInv'
<1>0. p \in Procs /\ p # Runner /\ "idle" \in Homes(p)
  BY NamesAssumption DEF Procs, Homes
<1>1. CASE SessionRepairs(p)
  <2>1. PICK only \in BOOLEAN : RepairFrom(p, only, "idle")  BY <1>1 DEF SessionRepairs
  <2>2. JobsOK' /\ pc' \in [Procs -> Labels]  BY <1>0, <2>1, RepairFromFits
  <2>3. turn' = turn  BY <1>1 DEF SessionRepairs
  <2>. QED  BY <1>0, <2>1, <2>2, <2>3, Quiet DEF RepairFrom, Goto, IInv, TypeOK, Procs
<1>2. CASE \E s \in Subs : SessionShips(p, s)
  BY <1>0, <1>2, ShipFromKeeps DEF SessionShips
<1>. QED  BY <1>1, <1>2

\* No step of any process breaks the invariant.
LEMMA StepKeeps == IInv /\ [Next]_vars => IInv'
<1>. SUFFICES ASSUME IInv, [Next]_vars PROVE IInv'  OBVIOUS
<1>1. CASE UNCHANGED vars
  <2>1. JobsOK' /\ pc' \in [Procs -> Labels]  BY <1>1, Stayed DEF vars, IInv, TypeOK
  <2>2. TurnOK' /\ ShippedIsMarked'  BY <1>1 DEF vars, IInv, TurnOK, ShippedIsMarked
  <2>. QED  BY <1>1, <2>1, <2>2, Kept DEF vars, IInv, TypeOK
<1>2. CASE Work
  BY <1>2, ShipKeeps, RepairKeeps, RecordKeeps, InvalidateKeeps, IterationKeeps DEF Work
<1>3. CASE \E s \in Subs : Dispatch(s) \/ WorkerForges(s) \/ Hold(s)
  BY <1>3, DispatchKeeps, OthersKeep
<1>4. CASE WorkerRepairs
  BY <1>4, IterationKeeps
<1>5. CASE \E p \in Sessions : SessionRepairs(p) \/ \E s \in Subs : SessionShips(p, s)
  BY <1>5, SessionKeeps
<1>6. CASE \E p \in Procs : Crash(p)
  BY <1>6, CrashKeeps
<1>. QED  BY <1>1, <1>2, <1>3, <1>4, <1>5, <1>6 DEF Next

THEOREM Inductive == Spec => []IInv
BY InitKeeps, StepKeeps, PTL DEF Spec

\* Every process is at a line of a procedure, and a revert row that names a
\* commit names one that exists, for any number of sub-plans and sessions.
THEOREM TypeCorrect == Spec => []TypeOK
<1>1. IInv => TypeOK  BY DEF IInv
<1>. QED  BY <1>1, Inductive, PTL

\* Whoever dies between the two writes, and however ships, repairs and reverts
\* interleave: a plan that says shipped has its marker commit, unless a worker
\* wrote the status by hand.
THEOREM NoShipWithoutEvidence == Spec => []ShippedIsMarked
<1>1. IInv => ShippedIsMarked  BY DEF IInv
<1>. QED  BY <1>1, Inductive, PTL

-----------------------------------------------------------------------------
(* Reverts stand.                                                          *)

HasRow(s) == \E row \in reverts : row.slug = s

\* Until a fault, what was deliberately reverted has its row in the ledger, or
\* the runner is about to write it.
RevertsRecorded ==
  faults = 0 => \A s \in undone : HasRow(s) \/ (pc[Runner] = "row" /\ job[Runner].sub = s)

\* A step that undoes nothing, and does not touch a runner that owes a row.
OwesAsBefore ==
  /\ undone' \subseteq undone /\ reverts \subseteq reverts' /\ faults' = faults
  /\ pc[Runner] = "row" => pc'[Runner] = "row" /\ job'[Runner] = job[Runner]

LEMMA OwesKeeps ==
  ASSUME RevertsRecorded, OwesAsBefore
  PROVE  RevertsRecorded'
BY DEF RevertsRecorded, OwesAsBefore, HasRow

\* One process moves, and it is not a runner that owes a row.
LEMMA OtherMoves ==
  ASSUME IInv, NEW p \in Procs, pc[p] # "row", NEW l, NEW j,
         pc' = [pc EXCEPT ![p] = l], job' = [job EXCEPT ![p] = j] \/ job' = job
  PROVE  pc[Runner] = "row" => pc'[Runner] = "row" /\ job'[Runner] = job[Runner]
BY DEF IInv, TypeOK, JobsOK, Procs

LEMMA ShipOwes ==
  ASSUME IInv, NEW p \in Procs, Ship(p)
  PROVE  OwesAsBefore
<1>1. CASE WriteIntent(p)
  BY <1>1, OtherMoves DEF WriteIntent, Goto, OwesAsBefore
<1>2. CASE CommitMarker(p)
  BY <1>2, OtherMoves DEF CommitMarker, Goto, OwesAsBefore
<1>3. CASE WriteStatus(p)
  BY <1>3, OtherMoves DEF WriteStatus, Goto, Return, OwesAsBefore
<1>4. CASE ClearIntent(p)
  BY <1>4, OtherMoves DEF ClearIntent, Return, OwesAsBefore
<1>. QED  BY <1>1, <1>2, <1>3, <1>4 DEF Ship

LEMMA RepairOwes ==
  ASSUME IInv, NEW p \in Procs, Repair(p)
  PROVE  OwesAsBefore
<1>0. pc[p] \in Repairing /\ UNCHANGED <<undone, reverts, faults>>
  BY DEF Repair, Retire, Unlink, Detect, Converge, Forget, Repairing
<1>1. \A q \in Procs : q # p => pc'[q] = pc[q] /\ job'[q] = job[q]
  BY DEF Repair, Retire, Unlink, Detect, Converge, Forget, Goto, Return, IInv, TypeOK, JobsOK
<1>. QED  BY <1>0, <1>1 DEF OwesAsBefore, Procs, Repairing

LEMMA MovesOwe ==
  ASSUME IInv, \/ InvalidateIntent \/ DriverShips \/ WorkerEnds \/ ConvergeShip \/ EndIteration
               \/ WorkerRepairs
               \/ \E s \in Subs : Dispatch(s) \/ WorkerForges(s) \/ Hold(s)
               \/ \E p \in Sessions : SessionRepairs(p) \/ \E s \in Subs : SessionShips(p, s)
  PROVE  OwesAsBefore
<1>0. /\ Runner \in Procs /\ \A p \in Sessions : p # Runner /\ p \in Procs
      /\ DOMAIN pc = Procs /\ DOMAIN job = Procs
  BY NamesAssumption DEF Procs, IInv, TypeOK, JobsOK
<1>1. UNCHANGED <<undone, reverts, faults>>
  BY DEF InvalidateIntent, DriverShips, ShipFrom, WorkerEnds, ConvergeShip, RepairFrom, EndIteration,
     WorkerRepairs, Dispatch, WorkerForges, Hold, SessionRepairs, SessionShips
<1>2. CASE \E p \in Sessions : SessionRepairs(p) \/ \E s \in Subs : SessionShips(p, s)
  BY <1>0, <1>1, <1>2 DEF SessionRepairs, RepairFrom, SessionShips, ShipFrom, Goto, OwesAsBefore
<1>3. CASE \E s \in Subs : Hold(s)
  BY <1>1, <1>3 DEF Hold, OwesAsBefore
<1>4. CASE pc[Runner] # "row"
  BY <1>1, <1>4 DEF OwesAsBefore
<1>5. CASE \/ InvalidateIntent \/ DriverShips \/ WorkerEnds \/ ConvergeShip \/ EndIteration
           \/ WorkerRepairs \/ \E s \in Subs : Dispatch(s) \/ WorkerForges(s)
  BY <1>4, <1>5 DEF InvalidateIntent, DriverShips, WorkerEnds, ConvergeShip, EndIteration,
     WorkerRepairs, Dispatch, WorkerForges
<1>. QED  BY <1>2, <1>3, <1>5

\* A revert owes its row from now on, and the pass that finds none leaves all as it was.
LEMMA RevertOwes ==
  ASSUME IInv, RevertsRecorded, RevertForeign \/ EnforceIntegrity
  PROVE  RevertsRecorded'
<1>1. CASE UNCHANGED <<status, marked, reverts, intent, pc, job, forged, undone, faults>>
  BY <1>1, OwesKeeps DEF OwesAsBefore
<1>2. ASSUME NEW s, NEW site, NEW back, RevertFrom(s, site, back)
      PROVE  RevertsRecorded'
  <2>1. pc'[Runner] = "row" /\ job'[Runner].sub = s
    BY <1>2 DEF RevertFrom, Goto, IInv, TypeOK, JobsOK, Procs
  <2>2. undone' \subseteq undone \cup {s} /\ UNCHANGED <<reverts, faults>>
    BY <1>2 DEF RevertFrom
  <2>3. pc[Runner] # "row"
    BY DEF RevertForeign, EnforceIntegrity
  <2>. QED  BY <2>1, <2>2, <2>3 DEF RevertsRecorded, HasRow
<1>. QED  BY <1>1, <1>2 DEF RevertForeign, EnforceIntegrity

LEMMA RecordPays ==
  ASSUME IInv, RevertsRecorded, RecordRevert
  PROVE  RevertsRecorded'
<1>0. faults \in Nat /\ undone' = undone /\ pc[Runner] = "row"
  BY FaultsAssumption DEF RecordRevert, IInv, TypeOK
<1>1. CASE faults' = faults + 1
  BY <1>0, <1>1 DEF RevertsRecorded
<1>2. CASE reverts' = reverts \cup {[slug |-> job[Runner].sub, commit |-> job[Runner].sub \in marked]}
           /\ faults' = faults
  <2>. DEFINE new == [slug |-> job[Runner].sub, commit |-> job[Runner].sub \in marked]
  <2>1. new.slug = job[Runner].sub  BY Zenon
  <2>2. reverts' = reverts \cup {new}  BY <1>2
  <2>. HIDE DEF new
  <2>. QED  BY <1>0, <1>2, <2>1, <2>2 DEF RevertsRecorded, HasRow
<1>. QED  BY <1>1, <1>2, Zenon DEF RecordRevert

LEMMA RecordedStep == IInv /\ RevertsRecorded /\ [Next]_vars => RevertsRecorded'
<1>. SUFFICES ASSUME IInv, RevertsRecorded, [Next]_vars PROVE RevertsRecorded'  OBVIOUS
<1>1. CASE UNCHANGED vars
  BY <1>1 DEF vars, RevertsRecorded, HasRow
<1>2. CASE \E p \in Procs : Ship(p) \/ Repair(p)
  BY <1>2, ShipOwes, RepairOwes, OwesKeeps
<1>3. CASE RecordRevert
  BY <1>3, RecordPays
<1>4. CASE RevertForeign \/ EnforceIntegrity
  BY <1>4, RevertOwes
<1>5. CASE \E p \in Procs : Crash(p)
  <2>1. faults' # 0  BY <1>5, FaultsAssumption DEF Crash, IInv, TypeOK
  <2>. QED  BY <2>1 DEF RevertsRecorded
<1>6. CASE \/ InvalidateIntent \/ DriverShips \/ WorkerEnds \/ ConvergeShip \/ EndIteration
           \/ WorkerRepairs
           \/ \E s \in Subs : Dispatch(s) \/ WorkerForges(s) \/ Hold(s)
           \/ \E p \in Sessions : SessionRepairs(p) \/ \E s \in Subs : SessionShips(p, s)
  BY <1>6, MovesOwe, OwesKeeps
<1>. QED  BY <1>1, <1>2, <1>3, <1>4, <1>5, <1>6 DEF Next, Work

\* What makes a plan say shipped, if neither its own ship nor a worker's hand nor
\* a session does it: a convergence of the runner that read no row of it.
LEMMA ReshippedBy ==
  ASSUME IInv, Next, NEW s \in Subs, Reships(s)
  PROVE  pc[Runner] = "converge" /\ ~Unreadable(s) /\ ~IsReverted(s)
<1>0. status[s] # "shipped" /\ status'[s] = "shipped" /\ DOMAIN status = Subs
  BY DEF Reships, IInv, TypeOK
<1>1. ASSUME NEW p \in Procs, WriteStatus(p) PROVE FALSE
  <2>1. job[p].sub # s /\ status' \in {status, [status EXCEPT ![job[p].sub] = "shipped"]}
    BY <1>1 DEF WriteStatus, Reships, Shipping
  <2>. QED  BY <1>0, <2>1
<1>2. ASSUME NEW p \in Procs, Converge(p)
      PROVE  pc[Runner] = "converge" /\ ~Unreadable(s) /\ ~IsReverted(s)
  <2>1. p = Runner /\ pc[Runner] = "converge"
    BY <1>2 DEF Converge, Reships, Procs
  <2>2. PICK x \in job[p].found : Converge(p)!2!(x)
    BY <1>2 DEF Converge
  <2>3. x = s /\ ~Unreadable(x) /\ ~IsReverted(x)
    BY <1>0, <2>2
  <2>. QED  BY <2>1, <2>3
<1>3. ASSUME NEW x, NEW site, NEW back, RevertFrom(x, site, back) PROVE FALSE
  BY <1>0, <1>3 DEF RevertFrom
<1>4. ASSUME NEW x \in Subs, WorkerForges(x) PROVE FALSE
  BY <1>0, <1>4 DEF WorkerForges, Reships
<1>5. ASSUME NEW x \in Subs, Hold(x) PROVE FALSE
  BY <1>0, <1>5 DEF Hold
<1>6. \/ UNCHANGED status
      \/ \E p \in Procs : WriteStatus(p) \/ Converge(p)
      \/ \E x, site, back : RevertFrom(x, site, back)
      \/ \E x \in Subs : WorkerForges(x) \/ Hold(x)
  BY DEF Next, Work, Ship, WriteIntent, CommitMarker, ClearIntent, Repair, Retire, Unlink, Detect, Forget,
     RecordRevert, InvalidateIntent, DriverShips, ShipFrom, WorkerEnds, RevertForeign, ConvergeShip,
     RepairFrom, EnforceIntegrity, EndIteration, Dispatch, WorkerRepairs, SessionRepairs, SessionShips, Crash
<1>. QED  BY <1>0, <1>1, <1>2, <1>3, <1>4, <1>5, <1>6

\* Until a process dies or a revert row is lost, a convergence never out-votes a
\* deliberate revert (_is_reverted of ship_transition.py, revert_notice.py).
THEOREM RevertsStand == Spec => UncutRevertStands
<1>. DEFINE Stands == faults = 0 => \A s \in undone : ~Reships(s)
<1>1. IInv /\ RevertsRecorded /\ [Next]_vars => [Stands]_vars
  <2>. SUFFICES ASSUME IInv, RevertsRecorded, Next, faults = 0, NEW s \in undone, Reships(s)
                PROVE  FALSE
    OBVIOUS
  <2>1. s \in Subs /\ pc[Runner] = "converge" /\ ~Unreadable(s) /\ ~IsReverted(s)
    BY ReshippedBy DEF IInv, TypeOK
  <2>2. PICK row \in reverts : row.slug = s
    BY <2>1 DEF RevertsRecorded, HasRow
  <2>3. row = [slug |-> s, commit |-> TRUE] \/ row = [slug |-> s, commit |-> FALSE]
    BY <2>2 DEF IInv, TypeOK
  <2>. QED  BY <2>1, <2>2, <2>3 DEF Unreadable, IsReverted
<1>2. Init => RevertsRecorded
  BY DEF Init, RevertsRecorded
<1>3. Spec => []RevertsRecorded
  BY <1>2, RecordedStep, Inductive, PTL DEF Spec
<1>. HIDE DEF Stands
<1>4. Spec => [][Stands]_vars
  BY <1>1, <1>3, Inductive, PTL DEF Spec
<1>. QED  BY <1>4 DEF UncutRevertStands, Stands
=============================================================================

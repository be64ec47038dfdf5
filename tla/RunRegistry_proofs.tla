------------------------- MODULE RunRegistry_proofs -------------------------
(***************************************************************************)
(* Proofs about RunRegistry for any number of launches, direct starts,     *)
(* deaths, reused pids and stops.                                          *)
(*                                                                         *)
(* The rows, the lock and the stop are written by different commands, so   *)
(* what relates them is the life of the process: it only moves forward,    *)
(* a row says "running" only of a process that was bound, the content of   *)
(* run.lock is its holder's as long as it is held, and what stop.sh listed *)
(* was bound already when it was listed.                                   *)
(***************************************************************************)
EXTENDS RunRegistry, TLAPS

\* A process that has been bound, or is past it.
Started == {"bound", "work", "closing", "ended", "exiting", "finished", "dead"}

LockNamesHolder == \A r \in Runs : Locked(r) => meta = r

RowsFollow ==
  \A r \in Runs : /\ row[r].state = "running" => phase[r] \in Started
                  /\ row[r].worker => row[r].state = "running"
                  /\ Attached(r) => row[r].state = "running"

\* Only a launcher that is done has a process.
LaunchersDone == \A l \in Launches : phase[l] # "none" => launch[l].pc = "done"

Archived(r) == request.state = "consumed" /\ request.by = r /\ request.run = launch[r].from

SuccessorArchives ==
  /\ \A r \in Runs : child[r] # "none" => phase[r] \in Started \ {"bound"}
  /\ \A r \in Launches : Upgrading(r) /\ (phase[r] = "work" \/ child[r] # "none") => Archived(r)

ReusedAreDead ==
  /\ \A r \in reused : phase[r] = "dead"
  /\ stop.pc = "send" /\ stop.at \in reused => stop.at \in raced

StopListsStarted ==
  /\ stop.pc # "idle" => \A r \in stop.ids : phase[r] \in Started
  /\ stop.pc = "report" => \A r \in stop.ids : phase[r] = "dead"

RInv ==
  /\ TypeOK /\ LockNamesHolder /\ RowsFollow /\ LaunchersDone
  /\ SuccessorArchives /\ ReusedAreDead /\ StopListsStarted /\ StrangersSpared

-----------------------------------------------------------------------------
(* Types.                                                                  *)

SomeRun == Runs \cup {NoRun}

RowSet == [state : {"none", "launching", "running"}, expired : BOOLEAN, worker : BOOLEAN]

Phases == {"none", "spawned", "locked", "claimed", "bound", "work",
           "closing", "ended", "exiting", "finished", "dead"}

Groups == {"none", "live", "group", "gone"}

ExitStates == {"none", "running", "ended", "interrupted", "stopped", "ilk-stop",
               "upgrade-drained", "upgrade_request_invalid"}

SentinelSet == [state : ExitStates, run : SomeRun]

RequestSet == [state : {"none", "open", "consumed"}, run : SomeRun,
               by : SomeRun, drained : BOOLEAN]

LaunchPcs == {"idle", "free", "selected", "cleared", "reserved", "done", "refused"}

LaunchSet == [pc : LaunchPcs, from : SomeRun]

StopSet == [pc : {"idle", "check", "send", "report"}, ids : SUBSET Runs,
            todo : SUBSET Runs, sig : {"TERM", "KILL"}, at : SomeRun]

\* TypeOK, variable by variable.
Typed ==
  /\ row \in [Runs -> RowSet] /\ phase \in [Runs -> Phases] /\ child \in [Runs -> Groups]
  /\ meta \in SomeRun /\ pidfile \in SomeRun
  /\ sentinel \in SentinelSet /\ request \in RequestSet
  /\ launch \in [Launches -> LaunchSet] /\ stop \in StopSet
  /\ reused \subseteq Runs /\ termed \subseteq Runs /\ hit \subseteq Runs /\ raced \subseteq Runs

LEMMA TypedIsTypeOK == (TypeOK <=> Typed) /\ (TypeOK' <=> Typed')
  BY DEF TypeOK, Typed, RowSet, Phases, Groups, SomeRun, SentinelSet, ExitStates,
         RequestSet, LaunchSet, LaunchPcs, StopSet

\* The records the commands write are rows, sentinels, requests and so on.
LEMMA RowsWritten ==
  /\ NoRow \in RowSet
  /\ [NoRow EXCEPT !.state = "launching"] \in RowSet
  /\ [NoRow EXCEPT !.state = "running"] \in RowSet
  /\ \A w \in RowSet : /\ [w EXCEPT !.expired = TRUE] \in RowSet
                       /\ [w EXCEPT !.worker = TRUE] \in RowSet
                       /\ [w EXCEPT !.worker = FALSE] \in RowSet
  BY DEF RowSet, NoRow

LEMMA LaunchesWritten ==
  /\ \A pc \in LaunchPcs, f \in SomeRun : [pc |-> pc, from |-> f] \in LaunchSet
  /\ \A x \in LaunchSet : x.from \in SomeRun
  BY DEF LaunchSet

LEMMA SentinelsWritten ==
  /\ \A s \in ExitStates, r \in SomeRun : [state |-> s, run |-> r] \in SentinelSet
  /\ \A x \in SentinelSet : x.run \in SomeRun /\ [x EXCEPT !.state = "ilk-stop"] \in SentinelSet
  BY DEF SentinelSet, ExitStates

LEMMA RequestsWritten ==
  \A x \in RequestSet, r \in SomeRun :
    /\ [x EXCEPT !.state = "consumed", !.by = r] \in RequestSet
    /\ [x EXCEPT !.state = "open", !.run = r] \in RequestSet
    /\ \A b \in BOOLEAN : [x EXCEPT !.drained = b] \in RequestSet
    /\ x.drained \in BOOLEAN
  BY DEF RequestSet

LEMMA StopsWritten ==
  \A x \in StopSet :
    /\ [x EXCEPT !.pc = "idle", !.ids = {}, !.todo = {}, !.at = NoRun] \in StopSet
    /\ [x EXCEPT !.pc = "report"] \in StopSet
    /\ [x EXCEPT !.sig = "KILL", !.todo = x.ids] \in StopSet
    /\ \A r \in Runs : /\ [x EXCEPT !.pc = "send", !.at = r] \in StopSet
                       /\ [x EXCEPT !.todo = x.todo \ {r}] \in StopSet
                       /\ [x EXCEPT !.pc = "check", !.todo = x.todo \ {r}, !.at = NoRun] \in StopSet
    /\ \A ids \in SUBSET Runs :
         [pc |-> "check", ids |-> ids, todo |-> ids, sig |-> "TERM", at |-> NoRun] \in StopSet
  BY DEF StopSet, SomeRun

LEMMA TypeStep ==
  ASSUME TypeOK, [Next]_vars
  PROVE  TypeOK'
<1> SUFFICES Typed'
  BY TypedIsTypeOK
<1>0. /\ Typed /\ Launches \subseteq Runs /\ Directs \subseteq Runs
      /\ Runs \subseteq SomeRun /\ NoRun \in SomeRun
  BY TypedIsTypeOK DEF Runs, SomeRun
<1> USE DEF Typed, disk, world, Launching, Refuse, Enter, SetChild, Reserve, StopIdle,
            StopGives
<1>1. ASSUME NEW l \in Launches, LaunchStatus(l) PROVE Typed'
  BY <1>1, <1>0, LaunchesWritten DEF LaunchStatus, LaunchPcs
<1>2. ASSUME NEW l \in Launches, LaunchSelect(l) PROVE Typed'
  BY <1>2, <1>0, LaunchesWritten, SentinelsWritten DEF LaunchSelect, LaunchPcs
<1>3. ASSUME NEW l \in Launches, LaunchRecheck(l) PROVE Typed'
  BY <1>3, <1>0, LaunchesWritten DEF LaunchRecheck, LaunchPcs
<1>4. ASSUME NEW l \in Launches, LaunchReserve(l) PROVE Typed'
  BY <1>4, <1>0, LaunchesWritten, RowsWritten DEF LaunchReserve, LaunchPcs
<1>5. ASSUME NEW l \in Launches, LaunchSpawn(l) PROVE Typed'
  BY <1>5, <1>0, LaunchesWritten DEF LaunchSpawn, LaunchPcs, Phases
<1>6. ASSUME NEW l \in Launches, LauncherDies(l) PROVE Typed'
  BY <1>6, <1>0, LaunchesWritten DEF LauncherDies, LaunchPcs
<1>7. ASSUME NEW r \in Runs, StartDirect(r) PROVE Typed'
  BY <1>7, <1>0 DEF StartDirect, Phases
<1>8. ASSUME NEW r \in Runs, TakeLock(r) PROVE Typed'
  BY <1>8, <1>0 DEF TakeLock, Phases
<1>9. ASSUME NEW r \in Runs, Claim(r) PROVE Typed'
  BY <1>9, <1>0, SentinelsWritten DEF Claim, ExitStates, Phases
<1>10. ASSUME NEW r \in Runs, AttachDirect(r) PROVE Typed'
  BY <1>10, <1>0, RowsWritten DEF AttachDirect, Phases
<1>11. ASSUME NEW r \in Runs, Bind(r) PROVE Typed'
  BY <1>11, <1>0, RowsWritten DEF Bind, Phases
<1>12. ASSUME NEW r \in Runs, Consume(r) PROVE Typed'
  <2>1. "upgrade_request_invalid" \in ExitStates /\ r \in SomeRun
    BY <1>0 DEF ExitStates
  <2>2. /\ request' \in {request, [request EXCEPT !.state = "consumed", !.by = r]}
        /\ sentinel' \in {sentinel, [state |-> "upgrade_request_invalid", run |-> r]}
    BY <1>12 DEF Consume
  <2>3. [request EXCEPT !.state = "consumed", !.by = r] \in RequestSet
    BY <1>0, <2>1, RequestsWritten
  <2>4. [state |-> "upgrade_request_invalid", run |-> r] \in SentinelSet
    BY <2>1, SentinelsWritten
  <2>5. sentinel' \in SentinelSet /\ request' \in RequestSet
    BY <1>0, <2>2, <2>3, <2>4
  <2> QED BY <1>12, <1>0, <2>5 DEF Consume, Phases
<1>13. ASSUME NEW r \in Runs, StartWork(r) PROVE Typed'
  BY <1>13, <1>0 DEF StartWork, Phases
<1>14. ASSUME NEW r \in Runs, SpawnWorker(r) PROVE Typed'
  BY <1>14, <1>0 DEF SpawnWorker, Groups
<1>15. ASSUME NEW r \in Runs, RegisterChild(r) PROVE Typed'
  BY <1>15, <1>0, RowsWritten DEF RegisterChild
<1>16. ASSUME NEW r \in Runs, WorkerEnds(r) PROVE Typed'
  BY <1>16, <1>0 DEF WorkerEnds, Groups
<1>17. ASSUME NEW r \in Runs, RetireChild(r) PROVE Typed'
  BY <1>17, <1>0, RowsWritten DEF RetireChild
<1>18. ASSUME NEW r \in Runs, CleanupChildren(r) PROVE Typed'
  BY <1>18, <1>0 DEF CleanupChildren, Groups
<1>19. ASSUME NEW r \in Runs, OwnerRequests(r) PROVE Typed'
  BY <1>19, <1>0, RequestsWritten DEF OwnerRequests
<1>20. ASSUME NEW r \in Runs, EndRun(r) PROVE Typed'
  <2>1. PICK t \in StopReasons(r) :
          /\ sentinel' = [state |-> t, run |-> r]
          /\ request' = [request EXCEPT !.drained = request.drained \/ t = "upgrade-drained"]
    BY <1>20 DEF EndRun
  <2>2. t \in ExitStates /\ (request.drained \/ t = "upgrade-drained") \in BOOLEAN
    BY <1>0, RequestsWritten DEF StopReasons, ExitStates
  <2>3. sentinel' \in SentinelSet /\ request' \in RequestSet
    BY <1>0, <2>1, <2>2, SentinelsWritten, RequestsWritten
  <2> QED BY <1>20, <1>0, <2>3 DEF EndRun, Phases
<1>e. ASSUME NEW r \in Runs, RemovePidFile(r) PROVE Typed'
  BY <1>e, <1>0 DEF RemovePidFile, Phases, SomeRun
<1>21. ASSUME NEW r \in Runs, Terminated(r) PROVE Typed'
  BY <1>21, <1>0 DEF Terminated, Groups, Phases
<1>22. ASSUME NEW r \in Runs, Finish(r) PROVE Typed'
  BY <1>22, <1>0, RowsWritten DEF Finish, Phases
<1>23. ASSUME NEW r \in Runs, Finalize(r) PROVE Typed'
  BY <1>23, <1>0, SentinelsWritten DEF Finalize, ExitStates, ExitState, Phases
<1>24. ASSUME NEW r \in Runs, Expire(r) PROVE Typed'
  BY <1>24, <1>0, RowsWritten DEF Expire
<1>25. ASSUME NEW r \in Runs, Die(r) PROVE Typed'
  BY <1>25, <1>0 DEF Die, Phases
<1>26. ASSUME NEW r \in Runs, Reuse(r) PROVE Typed'
  BY <1>26, <1>0 DEF Reuse
<1>27. ASSUME NEW r \in Runs, StopCheck(r) PROVE Typed'
  <2>1. /\ child' \in [Runs -> Groups]
        /\ UNCHANGED <<row, phase, meta, pidfile, sentinel, request, launch,
                       reused, termed, hit, raced>>
    BY <1>27, <1>0 DEF StopCheck, Groups
  <2>2. \/ stop' = [stop EXCEPT !.pc = "send", !.at = r]
        \/ stop' = [stop EXCEPT !.todo = stop.todo \ {r}]
        \/ stop' = [stop EXCEPT !.pc = "idle", !.ids = {}, !.todo = {}, !.at = NoRun]
    BY <1>27 DEF StopCheck
  <2>3. stop' \in StopSet
    BY <1>0, <2>2, StopsWritten
  <2> QED BY <1>0, <2>1, <2>3
<1>28. ASSUME NEW r \in Runs, StopSend(r) PROVE Typed'
  BY <1>28, <1>0, StopsWritten DEF StopSend, Phases
<1>29. CASE StopStatus
  BY <1>29, <1>0, StopsWritten DEF StopStatus
<1>30. CASE StopWait
  BY <1>30, <1>0, StopsWritten DEF StopWait
<1>31. CASE StopReport
  BY <1>31, <1>0, StopsWritten, SentinelsWritten DEF StopReport, ExitStates
<1>32. CASE UNCHANGED vars
  BY <1>32, <1>0 DEF vars
<1> QED BY <1>e, <1>1, <1>2, <1>3, <1>4, <1>5, <1>6, <1>7, <1>8, <1>9, <1>10, <1>11, <1>12,
           <1>13, <1>14, <1>15, <1>16, <1>17, <1>18, <1>19, <1>20, <1>21, <1>22, <1>23,
           <1>24, <1>25, <1>26, <1>27, <1>28, <1>29, <1>30, <1>31, <1>32
       DEF Next, Launcher, Runner, Environment, Stopper

-----------------------------------------------------------------------------
(* The invariant, part by part.                                            *)

Begun == {"bound", "work", "closing", "ended", "exiting", "finished"}

\* The life of a process, one step at a time.
Moves(r) ==
  \/ phase'[r] = phase[r]
  \/ phase[r] = "none" /\ phase'[r] = "spawned"
  \/ phase[r] = "spawned" /\ phase'[r] \in {"locked", "dead"}
  \/ phase[r] = "locked" /\ phase'[r] \in {"claimed", "dead"}
  \/ phase[r] = "claimed" /\ phase'[r] \in {"bound", "exiting", "dead"}
  \/ phase[r] \in {"bound", "work"} /\ phase'[r] \in {"work", "closing", "ended"}
  \/ phase[r] = "closing" /\ phase'[r] = "ended"
  \/ phase[r] \in Begun /\ phase'[r] \in {"exiting", "finished", "dead"}

\* Only a launcher's spawn and a direct start make a process.
LEMMA Life ==
  ASSUME TypeOK, LaunchersDone, [Next]_vars
  PROVE  \A q \in Runs : Moves(q)
<1> DEFINE Live == \A q \in Runs : Moves(q)
<1> SUFFICES Live
  OBVIOUS
<1>0. /\ phase \in [Runs -> Phases] /\ Launches \subseteq Runs
      /\ \A l \in Launches : phase[l] # "none" => launch[l].pc = "done"
  BY TypedIsTypeOK DEF Typed, Runs, LaunchersDone
<1> USE DEF Moves, Phases, Begun, Started
<1>1. ASSUME NEW l \in Launches,
             LaunchStatus(l) \/ LaunchSelect(l) \/ LaunchRecheck(l) \/ LaunchReserve(l) \/ LauncherDies(l)
      PROVE  Live
  BY <1>1, <1>0 DEF LaunchStatus, LaunchSelect, LaunchRecheck, LaunchReserve, LauncherDies, Enter, Refuse, StopGives, Alive
<1>2. ASSUME NEW l \in Launches, LaunchSpawn(l) PROVE Live
  BY <1>2, <1>0 DEF LaunchSpawn, Enter, Refuse, StopGives, Alive
<1>3. ASSUME NEW r \in Runs, StartDirect(r) PROVE Live
  BY <1>3, <1>0 DEF StartDirect, Enter, Refuse, StopGives, Alive
<1>4. ASSUME NEW r \in Runs, TakeLock(r) PROVE Live
  BY <1>4, <1>0 DEF TakeLock, Enter, Refuse, StopGives, Alive
<1>5. ASSUME NEW r \in Runs, Claim(r) PROVE Live
  BY <1>5, <1>0 DEF Claim, Enter, Refuse, StopGives, Alive
<1>6. ASSUME NEW r \in Runs, AttachDirect(r) PROVE Live
  BY <1>6, <1>0 DEF AttachDirect, Enter, Refuse, StopGives, Alive
<1>7. ASSUME NEW r \in Runs, Bind(r) PROVE Live
  BY <1>7, <1>0 DEF Bind, Enter, Refuse, StopGives, Alive
<1>8. ASSUME NEW r \in Runs, Consume(r) PROVE Live
  BY <1>8, <1>0 DEF Consume, Enter, Refuse, StopGives, Alive
<1>9. ASSUME NEW r \in Runs, StartWork(r) PROVE Live
  BY <1>9, <1>0 DEF StartWork, Enter, Refuse, StopGives, Alive
<1>10. ASSUME NEW r \in Runs, EndRun(r) PROVE Live
  BY <1>10, <1>0 DEF EndRun, Enter, Refuse, StopGives, Alive
<1>e. ASSUME NEW r \in Runs, RemovePidFile(r) PROVE Live
  BY <1>e, <1>0 DEF RemovePidFile, Enter, Refuse, StopGives, Alive
<1>11. ASSUME NEW r \in Runs, Terminated(r) PROVE Live
  BY <1>11, <1>0 DEF Terminated, Enter, Refuse, StopGives, Alive
<1>12. ASSUME NEW r \in Runs, Finish(r) PROVE Live
  BY <1>12, <1>0 DEF Finish, Enter, Refuse, StopGives, Alive
<1>13. ASSUME NEW r \in Runs, Finalize(r) PROVE Live
  BY <1>13, <1>0 DEF Finalize, Enter, Refuse, StopGives, Alive
<1>14. ASSUME NEW r \in Runs, Die(r) PROVE Live
  BY <1>14, <1>0 DEF Die, Enter, Refuse, StopGives, Alive
<1>15. ASSUME NEW r \in Runs, StopSend(r) PROVE Live
  BY <1>15, <1>0 DEF StopSend, Enter, Refuse, StopGives, Alive
<1>16. ASSUME NEW r \in Runs,
             Expire(r) \/ Reuse(r) \/ SpawnWorker(r) \/ RegisterChild(r) \/ WorkerEnds(r) \/ RetireChild(r) \/ CleanupChildren(r) \/ OwnerRequests(r) \/ StopCheck(r)
      PROVE  Live
  BY <1>16, <1>0 DEF Expire, Reuse, SpawnWorker, RegisterChild, WorkerEnds, RetireChild, CleanupChildren, OwnerRequests, StopCheck, Enter, Refuse, StopGives, Alive
<1>17. CASE StopStatus \/ StopWait \/ StopReport
  BY <1>17, <1>0 DEF StopStatus, StopWait, StopReport, Enter, Refuse, StopGives, Alive
<1>18. CASE UNCHANGED vars
  BY <1>18, <1>0 DEF vars, Enter, Refuse, StopGives, Alive
<1> QED BY <1>e, <1>1, <1>2, <1>3, <1>4, <1>5, <1>6, <1>7, <1>8, <1>9, <1>10, <1>11, <1>12,
           <1>13, <1>14, <1>15, <1>16, <1>17, <1>18
       DEF Next, Launcher, Runner, Environment, Stopper

\* The lock is taken only when it is free, and its taker signs it.
LEMMA LockStep ==
  ASSUME TypeOK, LaunchersDone, LockNamesHolder, [Next]_vars
  PROVE  LockNamesHolder'
<1> DEFINE Waits == UNCHANGED meta /\ \A q \in Runs : phase'[q] = "locked" => phase[q] = "locked"
<1>0. phase \in [Runs -> Phases]
  BY TypedIsTypeOK DEF Typed
<1>a. CASE Waits
  <2>1. \A q \in Runs : Locked(q)' => Locked(q)
    BY <1>a, Life DEF Moves, Locked, Alive, Begun, Started
  <2> QED BY <1>a, <2>1 DEF LockNamesHolder
<1>b. ASSUME NEW r \in Runs, TakeLock(r) PROVE LockNamesHolder'
  <2>1. CASE LockFree
    <3>1. meta' = r /\ \A q \in Runs \ {r} : phase'[q] = phase[q]
      BY <1>0, <1>b, <2>1 DEF TakeLock, Enter
    <3> QED BY <2>1, <3>1 DEF LockNamesHolder, LockFree, Locked, Alive
  <2>2. CASE ~LockFree
    <3>1. Waits
      BY <1>0, <1>b, <2>2 DEF TakeLock, Enter
    <3> QED BY <1>a, <3>1
  <2> QED BY <2>1, <2>2
<1>c. Launches \subseteq Runs
  BY DEF Runs
<1>1. ASSUME NEW l \in Launches,
             LaunchStatus(l) \/ LaunchSelect(l) \/ LaunchRecheck(l) \/ LaunchReserve(l) \/ LauncherDies(l)
      PROVE  Waits
  BY <1>1, <1>0, <1>c DEF LaunchStatus, LaunchSelect, LaunchRecheck, LaunchReserve, LauncherDies, Enter, Refuse, StopGives, disk
<1>2. ASSUME NEW l \in Launches, LaunchSpawn(l) PROVE Waits
  BY <1>2, <1>0, <1>c DEF LaunchSpawn, Enter, Refuse, StopGives, disk
<1>3. ASSUME NEW r \in Runs, StartDirect(r) PROVE Waits
  BY <1>3, <1>0, <1>c DEF StartDirect, Enter, Refuse, StopGives, disk
<1>4. ASSUME NEW r \in Runs, Claim(r) PROVE Waits
  BY <1>4, <1>0, <1>c DEF Claim, Enter, Refuse, StopGives, disk
<1>5. ASSUME NEW r \in Runs, AttachDirect(r) PROVE Waits
  BY <1>5, <1>0, <1>c DEF AttachDirect, Enter, Refuse, StopGives, disk
<1>6. ASSUME NEW r \in Runs, Bind(r) PROVE Waits
  BY <1>6, <1>0, <1>c DEF Bind, Enter, Refuse, StopGives, disk
<1>7. ASSUME NEW r \in Runs, Consume(r) PROVE Waits
  BY <1>7, <1>0, <1>c DEF Consume, Enter, Refuse, StopGives, disk
<1>8. ASSUME NEW r \in Runs, StartWork(r) PROVE Waits
  BY <1>8, <1>0, <1>c DEF StartWork, Enter, Refuse, StopGives, disk
<1>9. ASSUME NEW r \in Runs, EndRun(r) PROVE Waits
  BY <1>9, <1>0, <1>c DEF EndRun, Enter, Refuse, StopGives, disk
<1>e. ASSUME NEW r \in Runs, RemovePidFile(r) PROVE Waits
  BY <1>e, <1>0, <1>c DEF RemovePidFile, Enter, Refuse, StopGives, disk
<1>10. ASSUME NEW r \in Runs, Terminated(r) PROVE Waits
  BY <1>10, <1>0, <1>c DEF Terminated, Enter, Refuse, StopGives, disk
<1>11. ASSUME NEW r \in Runs, Finish(r) PROVE Waits
  BY <1>11, <1>0, <1>c DEF Finish, Enter, Refuse, StopGives, disk
<1>12. ASSUME NEW r \in Runs, Finalize(r) PROVE Waits
  BY <1>12, <1>0, <1>c DEF Finalize, Enter, Refuse, StopGives, disk
<1>13. ASSUME NEW r \in Runs, Die(r) PROVE Waits
  BY <1>13, <1>0, <1>c DEF Die, Enter, Refuse, StopGives, disk
<1>14. ASSUME NEW r \in Runs, StopSend(r) PROVE Waits
  BY <1>14, <1>0, <1>c DEF StopSend, Enter, Refuse, StopGives, disk
<1>15. ASSUME NEW r \in Runs,
             Expire(r) \/ Reuse(r) \/ SpawnWorker(r) \/ RegisterChild(r) \/ WorkerEnds(r) \/ RetireChild(r) \/ CleanupChildren(r) \/ OwnerRequests(r) \/ StopCheck(r)
      PROVE  Waits
  BY <1>15, <1>0, <1>c DEF Expire, Reuse, SpawnWorker, RegisterChild, WorkerEnds, RetireChild, CleanupChildren, OwnerRequests, StopCheck, Enter, Refuse, StopGives, disk
<1>16. ASSUME StopStatus \/ StopWait \/ StopReport PROVE Waits
  BY <1>16, <1>0, <1>c DEF StopStatus, StopWait, StopReport, Enter, Refuse, StopGives, disk
<1>17. ASSUME UNCHANGED vars PROVE Waits
  BY <1>17, <1>0, <1>c DEF vars, Enter, Refuse, StopGives, disk
<1> QED BY <1>e, <1>a, <1>b, <1>1, <1>2, <1>3, <1>4, <1>5, <1>6, <1>7, <1>8, <1>9, <1>10, <1>11, <1>12,
           <1>13, <1>14, <1>15, <1>16, <1>17
       DEF Next, Launcher, Runner, Environment, Stopper

LEMMA LaunchersStep ==
  ASSUME TypeOK, LaunchersDone, [Next]_vars
  PROVE  LaunchersDone'
<1> DEFINE Waits == UNCHANGED launch /\ \A q \in Launches : phase[q] = "none" => phase'[q] = "none"
<1>0. /\ phase \in [Runs -> Phases] /\ launch \in [Launches -> LaunchSet]
      /\ Launches \subseteq Runs /\ Launches \cap Directs = {}
      /\ \A l \in Launches : phase[l] # "none" => launch[l].pc = "done"
  BY TypedIsTypeOK, RunsAssumption DEF Typed, LaunchersDone, Runs
<1>a. CASE Waits
  BY <1>a DEF LaunchersDone
<1>1. ASSUME NEW l \in Launches,
             LaunchStatus(l) \/ LaunchSelect(l) \/ LaunchRecheck(l) \/
             LaunchReserve(l) \/ LauncherDies(l)
      PROVE  LaunchersDone'
  BY <1>1, <1>0 DEF LaunchStatus, LaunchSelect, LaunchRecheck, LaunchReserve,
                    LauncherDies, LaunchersDone, Launching, Refuse, Enter
<1>2. ASSUME NEW l \in Launches, LaunchSpawn(l) PROVE LaunchersDone'
  BY <1>2, <1>0 DEF LaunchSpawn, LaunchersDone, Launching, Refuse, Enter
<1>3. ASSUME NEW r \in Runs, StartDirect(r) PROVE Waits
  BY <1>3, <1>0 DEF StartDirect, Enter, StopGives
<1>4. ASSUME NEW r \in Runs, TakeLock(r) PROVE Waits
  BY <1>4, <1>0 DEF TakeLock, Enter, StopGives
<1>5. ASSUME NEW r \in Runs, Claim(r) PROVE Waits
  BY <1>5, <1>0 DEF Claim, Enter, StopGives
<1>6. ASSUME NEW r \in Runs, AttachDirect(r) PROVE Waits
  BY <1>6, <1>0 DEF AttachDirect, Enter, StopGives
<1>7. ASSUME NEW r \in Runs, Bind(r) PROVE Waits
  BY <1>7, <1>0 DEF Bind, Enter, StopGives
<1>8. ASSUME NEW r \in Runs, Consume(r) PROVE Waits
  BY <1>8, <1>0 DEF Consume, Enter, StopGives
<1>9. ASSUME NEW r \in Runs, StartWork(r) PROVE Waits
  BY <1>9, <1>0 DEF StartWork, Enter, StopGives
<1>10. ASSUME NEW r \in Runs, EndRun(r) PROVE Waits
  BY <1>10, <1>0 DEF EndRun, Enter, StopGives
<1>e. ASSUME NEW r \in Runs, RemovePidFile(r) PROVE Waits
  BY <1>e, <1>0 DEF RemovePidFile, Enter, StopGives
<1>11. ASSUME NEW r \in Runs, Terminated(r) PROVE Waits
  BY <1>11, <1>0 DEF Terminated, Enter, StopGives
<1>12. ASSUME NEW r \in Runs, Finish(r) PROVE Waits
  BY <1>12, <1>0 DEF Finish, Enter, StopGives
<1>13. ASSUME NEW r \in Runs, Finalize(r) PROVE Waits
  BY <1>13, <1>0 DEF Finalize, Enter, StopGives
<1>14. ASSUME NEW r \in Runs, Die(r) PROVE Waits
  BY <1>14, <1>0 DEF Die, Enter, Alive
<1>15. ASSUME NEW r \in Runs, StopSend(r) PROVE Waits
  BY <1>15, <1>0 DEF StopSend, Enter, StopGives, Alive
<1>16. ASSUME NEW r \in Runs,
             Expire(r) \/ Reuse(r) \/ SpawnWorker(r) \/ RegisterChild(r) \/
             WorkerEnds(r) \/ RetireChild(r) \/ CleanupChildren(r) \/
             OwnerRequests(r) \/ StopCheck(r)
      PROVE  Waits
  BY <1>16, <1>0 DEF Expire, Reuse, SpawnWorker, RegisterChild, WorkerEnds, RetireChild,
                     CleanupChildren, OwnerRequests, StopCheck, Enter, StopGives
<1>17. ASSUME StopStatus \/ StopWait \/ StopReport PROVE Waits
  BY <1>17, <1>0 DEF StopStatus, StopWait, StopReport, Enter, StopGives
<1>18. ASSUME UNCHANGED vars PROVE Waits
  BY <1>18 DEF vars
<1> QED BY <1>e, <1>a, <1>1, <1>2, <1>3, <1>4, <1>5, <1>6, <1>7, <1>8, <1>9, <1>10, <1>11,
           <1>12, <1>13, <1>14, <1>15, <1>16, <1>17, <1>18
       DEF Next, Launcher, Runner, Environment, Stopper

\* A row says running from the bind on, and a bound runner's until it ends.
LEMMA RowsStep ==
  ASSUME TypeOK, LaunchersDone, RowsFollow, [Next]_vars
  PROVE  RowsFollow'
<1> DEFINE Waits == UNCHANGED row /\ \A q \in Runs : phase'[q] = "bound" => phase[q] = "bound"
<1>0. /\ phase \in [Runs -> Phases] /\ row \in [Runs -> RowSet] /\ Launches \subseteq Runs
      /\ \A q \in Runs : Moves(q)
  BY TypedIsTypeOK, Life DEF Typed, Runs
<1>a. CASE Waits
  BY <1>0, <1>a DEF RowsFollow, Moves, Attached, Begun, Started
<1>1. ASSUME NEW l \in Launches, LaunchReserve(l) PROVE RowsFollow'
  BY <1>1, <1>0 DEF LaunchReserve, RowsFollow, Attached, Started, RowSet, NoRow, Reserve,
                    Reservable, Bindable, Finishable, Enter, Refuse, disk
<1>2. ASSUME NEW r \in Runs, AttachDirect(r) PROVE RowsFollow'
  BY <1>2, <1>0 DEF AttachDirect, RowsFollow, Attached, Started, RowSet, NoRow, Reserve,
                    Reservable, Bindable, Finishable, Enter, Refuse, disk
<1>3. ASSUME NEW r \in Runs, Bind(r) PROVE RowsFollow'
  BY <1>3, <1>0 DEF Bind, RowsFollow, Attached, Started, RowSet, NoRow, Reserve,
                    Reservable, Bindable, Finishable, Enter, Refuse, disk
<1>4. ASSUME NEW r \in Runs, RegisterChild(r) PROVE RowsFollow'
  BY <1>4, <1>0 DEF RegisterChild, RowsFollow, Attached, Started, RowSet, NoRow, Reserve,
                    Reservable, Bindable, Finishable, Enter, Refuse, disk
<1>5. ASSUME NEW r \in Runs, RetireChild(r) PROVE RowsFollow'
  BY <1>5, <1>0 DEF RetireChild, RowsFollow, Attached, Started, RowSet, NoRow, Reserve,
                    Reservable, Bindable, Finishable, Enter, Refuse, disk
<1>6. ASSUME NEW r \in Runs, Finish(r) PROVE RowsFollow'
  BY <1>6, <1>0 DEF Finish, RowsFollow, Attached, Started, RowSet, NoRow, Reserve,
                    Reservable, Bindable, Finishable, Enter, Refuse, disk
<1>7. ASSUME NEW r \in Runs, Expire(r) PROVE RowsFollow'
  BY <1>7, <1>0 DEF Expire, RowsFollow, Attached, Started, RowSet, NoRow, Reserve,
                    Reservable, Bindable, Finishable, Enter, Refuse, disk
<1>8. ASSUME NEW l \in Launches,
             LaunchStatus(l) \/ LaunchSelect(l) \/ LaunchRecheck(l) \/ LauncherDies(l)
      PROVE  Waits
  BY <1>8, <1>0 DEF LaunchStatus, LaunchSelect, LaunchRecheck, LauncherDies, Enter,
                    StopGives, Refuse, disk
<1>9. ASSUME NEW l \in Launches, LaunchSpawn(l) PROVE Waits
  BY <1>9, <1>0 DEF LaunchSpawn, Enter, StopGives, Refuse, disk
<1>10. ASSUME NEW r \in Runs, StartDirect(r) PROVE Waits
  BY <1>10, <1>0 DEF StartDirect, Enter, StopGives, Refuse, disk
<1>11. ASSUME NEW r \in Runs, TakeLock(r) PROVE Waits
  BY <1>11, <1>0 DEF TakeLock, Enter, StopGives, Refuse, disk
<1>12. ASSUME NEW r \in Runs, Claim(r) PROVE Waits
  BY <1>12, <1>0 DEF Claim, Enter, StopGives, Refuse, disk
<1>13. ASSUME NEW r \in Runs, Consume(r) PROVE Waits
  BY <1>13, <1>0 DEF Consume, Enter, StopGives, Refuse, disk
<1>14. ASSUME NEW r \in Runs, StartWork(r) PROVE Waits
  BY <1>14, <1>0 DEF StartWork, Enter, StopGives, Refuse, disk
<1>15. ASSUME NEW r \in Runs, EndRun(r) PROVE Waits
  BY <1>15, <1>0 DEF EndRun, Enter, StopGives, Refuse, disk
<1>e. ASSUME NEW r \in Runs, RemovePidFile(r) PROVE Waits
  BY <1>e, <1>0 DEF RemovePidFile, Enter, StopGives, Refuse, disk
<1>16. ASSUME NEW r \in Runs, Terminated(r) PROVE Waits
  BY <1>16, <1>0 DEF Terminated, Enter, StopGives, Refuse, disk
<1>17. ASSUME NEW r \in Runs, Finalize(r) PROVE Waits
  BY <1>17, <1>0 DEF Finalize, Enter, StopGives, Refuse, disk
<1>18. ASSUME NEW r \in Runs, Die(r) PROVE Waits
  BY <1>18, <1>0 DEF Die, Enter, StopGives, Refuse, disk
<1>19. ASSUME NEW r \in Runs, StopSend(r) PROVE Waits
  BY <1>19, <1>0 DEF StopSend, Enter, StopGives, Refuse, disk
<1>20. ASSUME NEW r \in Runs,
             Reuse(r) \/ SpawnWorker(r) \/ WorkerEnds(r) \/ CleanupChildren(r) \/
             OwnerRequests(r) \/ StopCheck(r)
      PROVE  Waits
  BY <1>20, <1>0 DEF Reuse, SpawnWorker, WorkerEnds, CleanupChildren, OwnerRequests,
                     StopCheck, Enter, StopGives, Refuse, disk
<1>21. ASSUME StopStatus \/ StopWait \/ StopReport PROVE Waits
  BY <1>21, <1>0 DEF StopStatus, StopWait, StopReport, Enter, StopGives, Refuse, disk
<1>22. ASSUME UNCHANGED vars PROVE Waits
  BY <1>22 DEF vars
<1> QED BY <1>e, <1>a, <1>1, <1>2, <1>3, <1>4, <1>5, <1>6, <1>7, <1>8, <1>9, <1>10, <1>11,
           <1>12, <1>13, <1>14, <1>15, <1>16, <1>17, <1>18, <1>19, <1>20, <1>21, <1>22
       DEF Next, Launcher, Runner, Environment, Stopper

\* The request is archived once, by the run that then works.
LEMMA SuccessorStep ==
  ASSUME TypeOK, LaunchersDone, SuccessorArchives, [Next]_vars
  PROVE  SuccessorArchives'
<1> DEFINE Waits ==
      /\ \A q \in Runs : child'[q] # "none" => child[q] # "none"
      /\ \A q \in Launches : phase'[q] = "work" => phase[q] = "work"
      /\ \A q \in Launches : phase[q] # "none" => launch'[q] = launch[q]
      /\ request.state = "consumed" =>
           request'.state = "consumed" /\ request'.by = request.by /\ request'.run = request.run
<1>0. /\ phase \in [Runs -> Phases] /\ child \in [Runs -> Groups] /\ request \in RequestSet
      /\ launch \in [Launches -> LaunchSet] /\ Launches \subseteq Runs
      /\ \A q \in Runs : Moves(q)
      /\ \A l \in Launches : phase[l] # "none" => launch[l].pc = "done"
  BY TypedIsTypeOK, Life DEF Typed, Runs, LaunchersDone
<1>a. CASE Waits
  <2>1. ASSUME NEW q \in Runs, child'[q] # "none" PROVE phase'[q] \in Started \ {"bound"}
    BY <1>0, <1>a, <2>1 DEF SuccessorArchives, Moves, Begun, Started
  <2>2. ASSUME NEW q \in Launches, Upgrading(q)', phase'[q] = "work" \/ child'[q] # "none"
        PROVE  Archived(q)'
    <3>1. phase[q] = "work" \/ child[q] # "none"
      BY <1>0, <1>a, <2>2
    <3>2. launch'[q] = launch[q]
      BY <1>0, <1>a, <3>1 DEF SuccessorArchives, Started
    <3>3. Archived(q)
      BY <2>2, <3>1, <3>2 DEF SuccessorArchives, Upgrading
    <3> QED BY <1>a, <3>2, <3>3 DEF Archived
  <2> QED BY <2>1, <2>2 DEF SuccessorArchives
<1>1. ASSUME NEW r \in Runs, Consume(r) PROVE SuccessorArchives'
  <2>1. UNCHANGED <<child, launch>> /\ Upgrading(r) /\ phase[r] = "bound"
    BY <1>1 DEF Consume, world
  <2>2. CASE Consumable(r)
    <3>1. /\ request' = [request EXCEPT !.state = "consumed", !.by = r]
          /\ phase' = [phase EXCEPT ![r] = "work"] /\ request.state = "open"
          /\ request.run = launch[r].from
      BY <1>1, <2>2 DEF Consume, Consumable, Enter
    <3>2. request'.state = "consumed" /\ request'.by = r /\ request'.run = launch[r].from
      BY <1>0, <3>1 DEF RequestSet
    <3>3. \A q \in Launches : Upgrading(q) => ~ (phase[q] = "work" \/ child[q] # "none")
      BY <3>1 DEF SuccessorArchives, Archived
    <3>4. child[r] = "none"
      BY <2>1 DEF SuccessorArchives, Upgrading
    <3>5. \A q \in Launches \ {r} : Upgrading(q)' => ~ (phase'[q] = "work" \/ child'[q] # "none")
      BY <1>0, <2>1, <3>1, <3>3 DEF Upgrading
    <3>6. Archived(r)'
      BY <2>1, <3>2 DEF Archived
    <3>7. \A q \in Runs : child'[q] # "none" => phase'[q] \in Started \ {"bound"}
      BY <1>0, <2>1, <3>1 DEF SuccessorArchives, Started
    <3> QED BY <3>5, <3>6, <3>7 DEF SuccessorArchives
  <2>3. CASE ~Consumable(r)
    <3>1. UNCHANGED request /\ phase' = [phase EXCEPT ![r] = "ended"]
      BY <1>1, <2>3 DEF Consume, Enter
    <3>2. Waits
      BY <1>0, <2>1, <3>1
    <3> QED BY <1>a, <3>2
  <2> QED BY <2>2, <2>3
<1>2. ASSUME NEW r \in Runs, StartWork(r) PROVE SuccessorArchives'
  BY <1>2, <1>0 DEF StartWork, SuccessorArchives, Archived, Upgrading, Enter, Started,
                    disk, world
<1>3. ASSUME NEW r \in Runs, SpawnWorker(r) PROVE SuccessorArchives'
  BY <1>3, <1>0 DEF SpawnWorker, SuccessorArchives, Archived, Upgrading, SetChild,
                    Started, disk
<1>4. ASSUME NEW l \in Launches,
             LaunchStatus(l) \/ LaunchSelect(l) \/ LaunchRecheck(l)
      PROVE  Waits
  BY <1>4, <1>0 DEF LaunchStatus, LaunchSelect, LaunchRecheck, Launching, Refuse, disk,
                    world
<1>5. ASSUME NEW l \in Launches, LaunchReserve(l) \/ LauncherDies(l) PROVE Waits
  BY <1>5, <1>0 DEF LaunchReserve, LauncherDies, Launching, Refuse, disk, world
<1>6. ASSUME NEW l \in Launches, LaunchSpawn(l) PROVE Waits
  BY <1>6, <1>0 DEF LaunchSpawn, Launching, disk, world
<1>7. ASSUME NEW r \in Runs, StartDirect(r) PROVE Waits
  BY <1>7, <1>0 DEF StartDirect, RequestSet, Enter, SetChild, StopGives, disk, world
<1>8. ASSUME NEW r \in Runs, TakeLock(r) PROVE Waits
  BY <1>8, <1>0 DEF TakeLock, RequestSet, Enter, SetChild, StopGives, disk, world
<1>9. ASSUME NEW r \in Runs, Claim(r) PROVE Waits
  BY <1>9, <1>0 DEF Claim, RequestSet, Enter, SetChild, StopGives, disk, world
<1>10. ASSUME NEW r \in Runs, AttachDirect(r) PROVE Waits
  BY <1>10, <1>0 DEF AttachDirect, RequestSet, Enter, SetChild, StopGives, disk, world
<1>11. ASSUME NEW r \in Runs, Bind(r) PROVE Waits
  BY <1>11, <1>0 DEF Bind, RequestSet, Enter, SetChild, StopGives, disk, world
<1>12. ASSUME NEW r \in Runs, WorkerEnds(r) PROVE Waits
  BY <1>12, <1>0 DEF WorkerEnds, RequestSet, Enter, SetChild, StopGives, disk, world
<1>13. ASSUME NEW r \in Runs, CleanupChildren(r) PROVE Waits
  BY <1>13, <1>0 DEF CleanupChildren, RequestSet, Enter, SetChild, StopGives, disk, world
<1>14. ASSUME NEW r \in Runs, OwnerRequests(r) PROVE Waits
  BY <1>14, <1>0 DEF OwnerRequests, RequestSet, Enter, SetChild, StopGives, disk, world
<1>15. ASSUME NEW r \in Runs, EndRun(r) PROVE Waits
  BY <1>15, <1>0 DEF EndRun, RequestSet, Enter, SetChild, StopGives, disk, world
<1>e. ASSUME NEW r \in Runs, RemovePidFile(r) PROVE Waits
  BY <1>e, <1>0 DEF RemovePidFile, RequestSet, Enter, SetChild, StopGives, disk, world
<1>16. ASSUME NEW r \in Runs, Terminated(r) PROVE Waits
  BY <1>16, <1>0 DEF Terminated, RequestSet, Enter, SetChild, StopGives, disk, world
<1>17. ASSUME NEW r \in Runs, Finish(r) PROVE Waits
  BY <1>17, <1>0 DEF Finish, RequestSet, Enter, SetChild, StopGives, disk, world
<1>18. ASSUME NEW r \in Runs, Finalize(r) PROVE Waits
  BY <1>18, <1>0 DEF Finalize, RequestSet, Enter, SetChild, StopGives, disk, world
<1>19. ASSUME NEW r \in Runs, Die(r) PROVE Waits
  BY <1>19, <1>0 DEF Die, RequestSet, Enter, SetChild, StopGives, disk, world
<1>20. ASSUME NEW r \in Runs, StopCheck(r) PROVE Waits
  BY <1>20, <1>0 DEF StopCheck, RequestSet, Enter, SetChild, StopGives, disk, world
<1>21. ASSUME NEW r \in Runs, StopSend(r) PROVE Waits
  BY <1>21, <1>0 DEF StopSend, RequestSet, Enter, SetChild, StopGives, disk, world
<1>22. ASSUME NEW r \in Runs,
             Expire(r) \/ Reuse(r) \/ RegisterChild(r) \/ RetireChild(r)
      PROVE  Waits
  BY <1>22, <1>0 DEF Expire, Reuse, RegisterChild, RetireChild, disk, world
<1>23. ASSUME StopStatus \/ StopWait \/ StopReport PROVE Waits
  BY <1>23, <1>0 DEF StopStatus, StopWait, StopReport, disk, world
<1>24. ASSUME UNCHANGED vars PROVE Waits
  BY <1>24 DEF vars
<1> QED BY <1>e, <1>a, <1>1, <1>2, <1>3, <1>4, <1>5, <1>6, <1>7, <1>8, <1>9, <1>10, <1>11,
           <1>12, <1>13, <1>14, <1>15, <1>16, <1>17, <1>18, <1>19, <1>20, <1>21, <1>22,
           <1>23, <1>24
       DEF Next, Launcher, Runner, Environment, Stopper

\* A pid checked alive is reused, if at all, between the check and the signal.
LEMMA ReusedStep ==
  ASSUME TypeOK, LaunchersDone, ReusedAreDead, StrangersSpared, [Next]_vars
  PROVE  ReusedAreDead' /\ StrangersSpared'
<1> DEFINE Kept == ReusedAreDead' /\ StrangersSpared'
           Waits == UNCHANGED <<reused, raced, hit, stop>>
<1>0. /\ phase \in [Runs -> Phases] /\ row \in [Runs -> RowSet] /\ stop \in StopSet
      /\ reused \subseteq Runs
      /\ \A q \in Runs : Moves(q)
  BY TypedIsTypeOK, Life DEF Typed
<1>a. CASE Waits
  BY <1>0, <1>a DEF ReusedAreDead, StrangersSpared, Moves, Begun
<1>1. ASSUME NEW r \in Runs, Reuse(r) PROVE Kept
  BY <1>1, <1>0 DEF Reuse, ReusedAreDead, StrangersSpared, StopSet, Moves, Begun
<1>2. ASSUME NEW r \in Runs, StopCheck(r) PROVE Kept
  <2>1. UNCHANGED <<phase, reused, raced, hit>>
    BY <1>2 DEF StopCheck, StopGives, SetChild, world
  <2>2. CASE stop'.pc # "send"
    BY <2>1, <2>2 DEF ReusedAreDead, StrangersSpared
  <2>3. CASE stop'.pc = "send"
    <3>1. stop'.at = r /\ Liveness(r) = "running"
      BY <1>0, <1>2, <2>3 DEF StopCheck, StopGives, StopIdle, StopSet
    <3>2. r \notin reused
      BY <1>0, <3>1 DEF Liveness, Alive, ReusedAreDead, RowSet
    <3> QED BY <2>1, <3>1, <3>2 DEF ReusedAreDead, StrangersSpared
  <2> QED BY <2>2, <2>3
<1>3. ASSUME NEW r \in Runs, StopSend(r) PROVE Kept
  BY <1>3, <1>0 DEF StopSend, ReusedAreDead, StrangersSpared, StopSet, Moves, Begun,
                    StopGives, StopIdle, Enter, world
<1>4. ASSUME StopStatus \/ StopWait \/ StopReport PROVE Kept
  <2>1. UNCHANGED <<phase, reused, raced, hit>>
    BY <1>4 DEF StopStatus, StopWait, StopReport, world
  <2>2. CASE StopStatus
    BY <2>1, <2>2 DEF StopStatus, ReusedAreDead, StrangersSpared
  <2>3. CASE StopWait \/ StopReport
    <3>1. stop'.pc # "send"
      BY <1>0, <2>3 DEF StopWait, StopReport, StopIdle, StopSet
    <3> QED BY <2>1, <3>1 DEF ReusedAreDead, StrangersSpared
  <2> QED BY <1>4, <2>2, <2>3 DEF ReusedAreDead, StrangersSpared
<1>5. ASSUME NEW l \in Launches,
             LaunchStatus(l) \/ LaunchSelect(l) \/ LaunchRecheck(l) \/
             LaunchReserve(l) \/ LauncherDies(l) \/ LaunchSpawn(l)
      PROVE  Waits
  BY <1>5 DEF LaunchStatus, LaunchSelect, LaunchRecheck, LaunchReserve, LauncherDies,
              LaunchSpawn, Refuse, world
<1>6. ASSUME NEW r \in Runs,
             StartDirect(r) \/ TakeLock(r) \/ Claim(r) \/ AttachDirect(r) \/ Bind(r) \/
             Consume(r) \/ StartWork(r) \/ SpawnWorker(r)
      PROVE  Waits
  BY <1>6 DEF StartDirect, TakeLock, Claim, AttachDirect, Bind, Consume, StartWork,
              SpawnWorker, SetChild, disk, world
<1>7. ASSUME NEW r \in Runs,
             RegisterChild(r) \/ WorkerEnds(r) \/ RetireChild(r) \/
             CleanupChildren(r) \/ OwnerRequests(r) \/ EndRun(r) \/ RemovePidFile(r) \/ Terminated(r) \/
             Finish(r) \/ Finalize(r) \/ Expire(r) \/ Die(r)
      PROVE  Waits
  BY <1>7 DEF RegisterChild, WorkerEnds, RetireChild, CleanupChildren, OwnerRequests,
              EndRun, RemovePidFile, Terminated, Finish, Finalize, Expire, Die, SetChild, disk, world
<1>8. ASSUME UNCHANGED vars PROVE Waits
  BY <1>8 DEF vars
<1> QED BY <1>a, <1>1, <1>2, <1>3, <1>4, <1>5, <1>6, <1>7, <1>8
       DEF Next, Launcher, Runner, Environment, Stopper

\* What stop.sh lists was bound, and free means that nobody who was bound lives.
LEMMA StopStep ==
  ASSUME TypeOK, LaunchersDone, RowsFollow, StopListsStarted, [Next]_vars
  PROVE  StopListsStarted'
<1> DEFINE Waits == UNCHANGED stop
<1>0. /\ phase \in [Runs -> Phases] /\ row \in [Runs -> RowSet] /\ stop \in StopSet
      /\ \A q \in Runs : Moves(q)
  BY TypedIsTypeOK, Life DEF Typed
<1>b. \A q \in Runs : /\ phase[q] \in Started => phase'[q] \in Started
                      /\ phase[q] = "dead" => phase'[q] = "dead"
  BY <1>0 DEF Moves, Started, Begun
<1>c. stop.ids \subseteq Runs
  BY <1>0 DEF StopSet
<1>a. CASE Waits
  BY <1>a, <1>b, <1>c DEF StopListsStarted
<1>1. ASSUME StopStatus PROVE StopListsStarted'
  BY <1>1, <1>0, <1>b DEF StopStatus, StopListsStarted, RowsFollow, Verified, Liveness,
                          RowSet
<1>2. ASSUME NEW r \in Runs, StopCheck(r) PROVE StopListsStarted'
  BY <1>2, <1>0, <1>b, <1>c DEF StopCheck, StopListsStarted, StopSet, StopGives, StopIdle
<1>3. ASSUME NEW r \in Runs, StopSend(r) PROVE StopListsStarted'
  BY <1>3, <1>0, <1>b, <1>c DEF StopSend, StopListsStarted, StopSet, StopGives, StopIdle
<1>4. ASSUME StopWait PROVE StopListsStarted'
  BY <1>4, <1>0, <1>b, <1>c DEF StopWait, StopListsStarted, StopSet, StopIdle, Busy,
                                LockFree, Locked, Alive, Started
<1>5. ASSUME StopReport PROVE StopListsStarted'
  BY <1>5, <1>0 DEF StopReport, StopListsStarted, StopSet, StopIdle
<1>6. ASSUME NEW l \in Launches,
             LaunchStatus(l) \/ LaunchSelect(l) \/ LaunchRecheck(l) \/
             LaunchReserve(l) \/ LauncherDies(l) \/ LaunchSpawn(l)
      PROVE  Waits
  BY <1>6 DEF LaunchStatus, LaunchSelect, LaunchRecheck, LaunchReserve, LauncherDies,
              LaunchSpawn, Refuse
<1>7. ASSUME NEW r \in Runs,
             StartDirect(r) \/ TakeLock(r) \/ Claim(r) \/ AttachDirect(r) \/ Bind(r) \/
             Consume(r) \/ StartWork(r) \/ SpawnWorker(r) \/ RegisterChild(r) \/
             WorkerEnds(r) \/ RetireChild(r) \/ CleanupChildren(r) \/
             OwnerRequests(r) \/ EndRun(r) \/ RemovePidFile(r) \/ Terminated(r) \/ Finish(r) \/
             Finalize(r) \/ Expire(r) \/ Die(r) \/ Reuse(r)
      PROVE  Waits
  BY <1>7 DEF StartDirect, TakeLock, Claim, AttachDirect, Bind, Consume, StartWork,
              SpawnWorker, RegisterChild, WorkerEnds, RetireChild, CleanupChildren,
              OwnerRequests, EndRun, RemovePidFile, Terminated, Finish, Finalize, Expire, Die, Reuse
<1>8. ASSUME UNCHANGED vars PROVE Waits
  BY <1>8 DEF vars
<1> QED BY <1>a, <1>1, <1>2, <1>3, <1>4, <1>5, <1>6, <1>7, <1>8
       DEF Next, Launcher, Runner, Environment, Stopper

-----------------------------------------------------------------------------
(* The theorems.                                                           *)

THEOREM RegistryInductive == Spec => []RInv
<1>1. Init => RInv
  <2> SUFFICES ASSUME Init PROVE RInv
    OBVIOUS
  <2> USE DEF Init, NoRow
  <2>1. TypeOK
    BY DEF TypeOK
  <2>2. LockNamesHolder /\ RowsFollow /\ LaunchersDone
    BY DEF LockNamesHolder, Locked, Alive, RowsFollow, Attached, LaunchersDone, Runs
  <2>3. SuccessorArchives
    BY DEF SuccessorArchives, Runs
  <2>4. ReusedAreDead /\ StopListsStarted /\ StrangersSpared
    BY DEF ReusedAreDead, StopListsStarted, StrangersSpared
  <2> QED BY <2>1, <2>2, <2>3, <2>4 DEF RInv
<1>2. RInv /\ [Next]_vars => RInv'
  BY TypeStep, LockStep, LaunchersStep, RowsStep, SuccessorStep, ReusedStep, StopStep DEF RInv
<1> QED BY <1>1, <1>2, PTL DEF Spec

\* The records on disk keep their shape, whichever command writes them.
THEOREM RegistryTypeCorrect == Spec => []TypeOK
<1>1. RInv => TypeOK
  BY DEF RInv
<1> QED BY <1>1, RegistryInductive, PTL

\* At most one runner is past its attach; it holds the kernel lock, and rows,
\* lock and process agree on it, late binds of expired reservations included.
THEOREM OneRunnerAtATime == Spec => []OneRunner
<1>1. RInv => OneRunner
  <2> SUFFICES ASSUME RInv, NEW r \in Runs, Attached(r)
               PROVE  /\ row[r].state = "running" /\ meta = r
                      /\ \A q \in Runs \ {r} : ~Locked(q) /\ Liveness(q) # "running"
    BY DEF OneRunner
  <2>1. row[r].state = "running" /\ Locked(r)
    BY DEF RInv, RowsFollow, Attached, Locked, Alive
  <2>2. meta = r /\ \A q \in Runs \ {r} : ~Locked(q)
    BY <2>1 DEF RInv, LockNamesHolder
  <2>3. ASSUME NEW q \in Runs \ {r} PROVE Liveness(q) # "running"
    <3>1. row[q].state = "running" => ~Alive(q)
      BY <2>2 DEF RInv, RowsFollow, Locked, Alive, Started
    <3>2. row[q].state \in {"none", "launching", "running"}
      BY DEF RInv, TypeOK
    <3> QED BY <3>1, <3>2 DEF Liveness
  <2> QED BY <2>1, <2>2, <2>3
<1> QED BY <1>1, RegistryInductive, PTL

\* stop.sh signals a stranger only when the pid was reused under its hands.
THEOREM StrangersAreSpared == Spec => []StrangersSpared
<1>1. RInv => StrangersSpared
  BY DEF RInv
<1> QED BY <1>1, RegistryInductive, PTL

\* Of all runs launched from one drain only the one that archived the request
\* works.
THEOREM OneSuccessorWorks == Spec => []OneSuccessor
<1>1. RInv => OneSuccessor
  BY DEF RInv, SuccessorArchives, Archived, OneSuccessor
<1> QED BY <1>1, RegistryInductive, PTL

\* The only commands that touch the worker of a row.
LEMMA RecordsKept ==
  ASSUME TypeOK, RowsFollow, [Next]_vars
  PROVE  \A q \in Runs : WorkerSeen(q) /\ child'[q] \in {"live", "group"} => row'[q].worker
<1> DEFINE Kept == \A q \in Runs : WorkerSeen(q) /\ child'[q] \in {"live", "group"} => row'[q].worker
<1> SUFFICES Kept
  OBVIOUS
<1>0. /\ row \in [Runs -> RowSet] /\ Launches \subseteq Runs
      /\ \A q \in Runs : WorkerSeen(q) => row[q].worker /\ row[q].state = "running"
  BY TypedIsTypeOK DEF Typed, Runs, WorkerSeen, RowsFollow
<1>a. ASSUME UNCHANGED row PROVE Kept
  BY <1>0, <1>a
<1>1. ASSUME NEW l \in Launches, LaunchReserve(l) PROVE Kept
  BY <1>1, <1>0 DEF LaunchReserve, RowSet, Refuse, Reserve, Reservable, disk
<1>2. ASSUME NEW r \in Runs, AttachDirect(r) PROVE Kept
  BY <1>2, <1>0 DEF AttachDirect, RowSet, Reserve
<1>3. ASSUME NEW r \in Runs, Bind(r) PROVE Kept
  BY <1>3, <1>0 DEF Bind, RowSet, Bindable
<1>4. ASSUME NEW r \in Runs, RegisterChild(r) PROVE Kept
  BY <1>4, <1>0 DEF RegisterChild, RowSet
<1>5. ASSUME NEW r \in Runs, RetireChild(r) PROVE Kept
  BY <1>5, <1>0 DEF RetireChild, RowSet, world
<1>6. ASSUME NEW r \in Runs, Finish(r) PROVE Kept
  BY <1>6, <1>0 DEF Finish, RowSet, Finishable
<1>7. ASSUME NEW r \in Runs, Expire(r) PROVE Kept
  BY <1>7, <1>0 DEF Expire, RowSet
<1>8. ASSUME NEW l \in Launches,
             LaunchStatus(l) \/ LaunchSelect(l) \/ LaunchRecheck(l) \/
             LaunchSpawn(l) \/ LauncherDies(l)
      PROVE  UNCHANGED row
  BY <1>8 DEF LaunchStatus, LaunchSelect, LaunchRecheck, LaunchSpawn, LauncherDies,
              Refuse, disk
<1>9. ASSUME NEW r \in Runs,
             StartDirect(r) \/ TakeLock(r) \/ Claim(r) \/ Consume(r) \/ StartWork(r) \/
             SpawnWorker(r) \/ WorkerEnds(r) \/ CleanupChildren(r) \/
             OwnerRequests(r) \/ EndRun(r) \/ RemovePidFile(r) \/ Terminated(r) \/ Finalize(r) \/ Die(r) \/
             Reuse(r) \/ StopCheck(r) \/ StopSend(r)
      PROVE  UNCHANGED row
  BY <1>9 DEF StartDirect, TakeLock, Claim, Consume, StartWork, SpawnWorker, WorkerEnds,
              CleanupChildren, OwnerRequests, EndRun, RemovePidFile, Terminated, Finalize, Die, Reuse,
              StopCheck, StopSend, StopGives, disk
<1>10. ASSUME StopStatus \/ StopWait \/ StopReport PROVE UNCHANGED row
  BY <1>10 DEF StopStatus, StopWait, StopReport, disk
<1>11. ASSUME UNCHANGED vars PROVE UNCHANGED row
  BY <1>11 DEF vars
<1> QED BY <1>a, <1>1, <1>2, <1>3, <1>4, <1>5, <1>6, <1>7, <1>8, <1>9, <1>10, <1>11
       DEF Next, Launcher, Runner, Environment, Stopper

\* A registered worker group leaves its row only when nothing is left of it.
THEOREM RecordsOutliveWorkers == Spec => RecordOutlivesWorker
<1> DEFINE Kept == \A r \in Runs : WorkerSeen(r) /\ child'[r] \in {"live", "group"} => row'[r].worker
<1>1. RInv /\ [Next]_vars => [Kept]_vars
  BY RecordsKept DEF RInv
<1> HIDE DEF Kept
<1>2. Spec => [][Kept]_vars
  BY <1>1, RegistryInductive, PTL DEF Spec
<1> QED BY <1>2 DEF RecordOutlivesWorker, Kept

\* Only the report ends a stop that is about to report.
LEMMA OnlyReports ==
  ASSUME [Next]_vars, stop.pc = "report", stop'.pc = "idle"
  PROVE  StopReport
<1> DEFINE Waits == UNCHANGED stop
<1>a. ASSUME Waits PROVE FALSE
  BY <1>a
<1>1. ASSUME StopStatus \/ StopWait PROVE FALSE
  BY <1>1 DEF StopStatus, StopWait
<1>2. ASSUME NEW r \in Runs, StopCheck(r) \/ StopSend(r) PROVE FALSE
  BY <1>2 DEF StopCheck, StopSend
<1>3. ASSUME NEW l \in Launches,
             LaunchStatus(l) \/ LaunchSelect(l) \/ LaunchRecheck(l) \/
             LaunchReserve(l) \/ LaunchSpawn(l) \/ LauncherDies(l)
      PROVE  Waits
  BY <1>3 DEF LaunchStatus, LaunchSelect, LaunchRecheck, LaunchReserve, LaunchSpawn,
              LauncherDies, Refuse
<1>4. ASSUME NEW r \in Runs,
             StartDirect(r) \/ TakeLock(r) \/ Claim(r) \/ AttachDirect(r) \/ Bind(r) \/
             Consume(r) \/ StartWork(r) \/ SpawnWorker(r) \/ RegisterChild(r) \/
             WorkerEnds(r) \/ RetireChild(r) \/ CleanupChildren(r) \/
             OwnerRequests(r) \/ EndRun(r) \/ RemovePidFile(r) \/ Terminated(r) \/ Finish(r) \/
             Finalize(r) \/ Expire(r) \/ Die(r) \/ Reuse(r)
      PROVE  Waits
  BY <1>4 DEF StartDirect, TakeLock, Claim, AttachDirect, Bind, Consume, StartWork,
              SpawnWorker, RegisterChild, WorkerEnds, RetireChild, CleanupChildren,
              OwnerRequests, EndRun, RemovePidFile, Terminated, Finish, Finalize, Expire, Die, Reuse
<1>5. ASSUME UNCHANGED vars PROVE Waits
  BY <1>5 DEF vars
<1> QED BY <1>a, <1>1, <1>2, <1>3, <1>4, <1>5
       DEF Next, Launcher, Runner, Environment, Stopper

\* stop.sh calls a run stopped, or forgets its pid, only when it is dead.
THEOREM StopsTellTheTruth == Spec => StopsAreTrue
<1> DEFINE Truth == stop.pc = "report" /\ stop'.pc = "idle" =>
                      /\ sentinel' # sentinel => phase[sentinel.run] = "dead"
                      /\ pidfile' # pidfile => phase[pidfile] = "dead"
<1>1. RInv /\ [Next]_vars => [Truth]_vars
  BY OnlyReports DEF RInv, StopListsStarted, StopReport
<1> HIDE DEF Truth
<1>2. Spec => [][Truth]_vars
  BY <1>1, RegistryInductive, PTL DEF Spec
<1> QED BY <1>2 DEF StopsAreTrue, Truth
=============================================================================

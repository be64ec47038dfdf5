---------------------------- MODULE RunRegistry ----------------------------
(***************************************************************************)
(* One project's runs: who may run, who is known to run, and who is told.  *)
(*                                                                         *)
(* Three records on disk answer for a live runner, written by different    *)
(* commands: its row under runs/ (skills/ilk-loop/scripts/run_registry.py),*)
(* the kernel lock on run.lock with the holder's identity as its content   *)
(* (ilk_run_lock.py), and the sentinel last-exit.json with running.pid     *)
(* (run_ilk_loop_claude.sh).  launch.sh reads them before it reserves a    *)
(* row and spawns a runner, stop.sh before it signals one, and             *)
(* upgrade_drain.py before new code replaces the code of a drained run.    *)
(*                                                                         *)
(* A run's process is named by the run: identity is pid, process group and *)
(* start time together, so a reused pid never equals it.  A run has at     *)
(* most one worker group.  Each python command that takes .registry.lock   *)
(* is one step; what a command read before the lock is a step of its own.  *)
(***************************************************************************)
EXTENDS Naturals, FiniteSets

CONSTANTS Launches,  \* runs started by launch.sh
          Directs,   \* runs started by calling the runner itself
          NoRun,
          Budgets,   \* bounds of a run: sudden deaths of runners and launchers,
                     \* pids the kernel gives to a stranger, calls of stop.sh
          MaxWorkers \* worker groups spawned

Runs == Launches \cup Directs

ASSUME RunsAssumption == NoRun \notin Runs /\ Launches \cap Directs = {}
ASSUME BoundsAssumption == MaxWorkers \in Nat /\ Budgets \subseteq [kills : Nat, reuse : Nat, stops : Nat]

VARIABLES row,      \* runs/<run>.json: its state, expiry, and worker group
          phase,    \* the runner process
          child,    \* its worker group: leader alive, only members, or gone
          meta,     \* the identity written in run.lock by its last holder
          sentinel, \* last-exit.json
          pidfile,  \* running.pid
          request,  \* upgrade-drain-request.json: whose run it drains, whether that
                    \* run has drained, and which run archived it
          launch,   \* where each launch.sh is, and the upgrade it selected
          stop,     \* where stop.sh is, and what it listed
          reused,   \* dead runners whose pid a stranger has now
          termed,   \* runners with a TERM to handle
          hit, raced, \* strangers signalled; pids reused between check and signal
          kills, stops

disk == <<row, meta, sentinel, pidfile, request>>
world == <<child, reused, termed, hit, raced, kills, stops>>
vars == <<row, phase, child, meta, sentinel, pidfile, request, launch, stop,
          reused, termed, hit, raced, kills, stops>>

\* A run stays within one of the budgets.
Within(k, u, s) ==
  \E b \in Budgets : k <= b.kills /\ Cardinality(u) <= b.reuse /\ s <= b.stops

NoRow == [state |-> "none", expired |-> FALSE, worker |-> FALSE]

Init ==
  /\ row = [r \in Runs |-> NoRow]
  /\ phase = [r \in Runs |-> "none"]
  /\ child = [r \in Runs |-> "none"]
  /\ meta = NoRun /\ pidfile = NoRun
  /\ sentinel = [state |-> "none", run |-> NoRun]
  /\ request = [state |-> "none", run |-> NoRun, by |-> NoRun, drained |-> FALSE]
  /\ launch = [l \in Launches |-> [pc |-> "idle", from |-> NoRun]]
  /\ stop = [pc |-> "idle", ids |-> {}, todo |-> {}, sig |-> "TERM", at |-> NoRun]
  /\ reused = {} /\ termed = {} /\ hit = {} /\ raced = {}
  /\ kills = 0 /\ stops = 0

-----------------------------------------------------------------------------
(* What a reader of the registry sees.                                     *)

Alive(r) == phase[r] \notin {"none", "dead"}

\* Mutated form: the descriptor is closed when the runner is exec'd.
LockedUntilExec(r) == phase[r] = "locked"

\* The kernel lock goes with the process.
Locked(r) == Alive(r) /\ phase[r] # "spawned"
LockFree == \A r \in Runs : ~Locked(r)

\* Mutated form: the pid alone identifies the process.
LivenessByPid(r) ==
  CASE row[r].state = "none" -> "absent"
    [] row[r].state = "launching" -> IF row[r].expired THEN "expired" ELSE "launching"
    [] row[r].state = "running" -> IF Alive(r) \/ r \in reused THEN "running" ELSE "dead"

\* liveness(): the reservation's expiry, or the process with this identity.
Liveness(r) ==
  CASE row[r].state = "none" -> "absent"
    [] row[r].state = "launching" -> IF row[r].expired THEN "expired" ELSE "launching"
    [] row[r].state = "running" ->
         IF Alive(r) THEN "running" ELSE IF r \in reused THEN "reused" ELSE "dead"

\* A worker group counts as live when its leader is verified, and as
\* unverified when only other members of the group are left.
WorkerSeen(r) == row[r].worker /\ child[r] \in {"live", "group"}

Active(r) == Liveness(r) \in {"launching", "running"} \/ WorkerSeen(r)

\* Mutated form: only the registry answers.
BusyByRows == \E r \in Runs : Active(r)

\* project_status(): rows, then the lock, then the legacy pid.
Busy == \/ \E r \in Runs : Active(r)
        \/ ~LockFree
        \/ pidfile # NoRun /\ (Alive(pidfile) \/ pidfile \in reused)

-----------------------------------------------------------------------------
(* launch.sh                                                               *)

Launching(l, pc, from) == launch' = [launch EXCEPT ![l] = [pc |-> pc, from |-> from]]

Refuse(l) == Launching(l, "refused", NoRun) /\ UNCHANGED <<disk, world, phase, stop>>

LaunchStatus(l) ==
  /\ launch[l].pc = "idle"
  /\ IF Busy THEN Refuse(l)
     ELSE Launching(l, "free", NoRun) /\ UNCHANGED <<disk, world, phase, stop>>

\* activation(): a drained run's successor starts from the prepared code.
Drained == sentinel.state = "upgrade-drained"
Activates == /\ Drained
             /\ ~Busy /\ ~Alive(sentinel.run) /\ sentinel.run \notin reused
             /\ request.state = "open" /\ request.run = sentinel.run

LaunchSelect(l) ==
  /\ launch[l].pc = "free"
  /\ IF sentinel.state = "upgrade_request_invalid" \/ (Drained /\ ~Activates)
       THEN Refuse(l)
       ELSE /\ Launching(l, "selected", IF Drained THEN sentinel.run ELSE NoRun)
            /\ UNCHANGED <<disk, world, phase, stop>>

\* The reserve command asks for the status once more, without the lock.
LaunchRecheck(l) ==
  /\ launch[l].pc = "selected"
  /\ IF Busy THEN Refuse(l)
     ELSE /\ Launching(l, "cleared", launch[l].from)
          /\ UNCHANGED <<disk, world, phase, stop>>

Reservable(r) == /\ row[r].state = "none"
                 /\ \A q \in Runs : Liveness(q) \notin {"launching", "running"}

Reserve(r) == row' = [row EXCEPT ![r] = [NoRow EXCEPT !.state = "launching"]]

LaunchReserve(l) ==
  /\ launch[l].pc = "cleared"
  /\ IF Reservable(l)
       THEN /\ Reserve(l) /\ Launching(l, "reserved", launch[l].from)
            /\ UNCHANGED <<meta, sentinel, pidfile, request, world, phase, stop>>
       ELSE Refuse(l)

LaunchSpawn(l) ==
  /\ launch[l].pc = "reserved"
  /\ phase' = [phase EXCEPT ![l] = "spawned"]
  /\ Launching(l, "done", launch[l].from)
  /\ UNCHANGED <<disk, world, stop>>

LauncherDies(l) ==
  /\ launch[l].pc = "reserved" /\ Within(kills + 1, reused, stops)
  /\ Launching(l, "refused", NoRun)
  /\ kills' = kills + 1
  /\ UNCHANGED <<disk, phase, stop, child, reused, termed, hit, raced, stops>>

StartDirect(r) ==
  /\ r \in Directs /\ phase[r] = "none"
  /\ phase' = [phase EXCEPT ![r] = "spawned"]
  /\ UNCHANGED <<disk, world, launch, stop>>

\* The launch TTL passes while the runner is still on its way.
Expire(r) ==
  /\ row[r].state = "launching" /\ ~row[r].expired
  /\ row' = [row EXCEPT ![r].expired = TRUE]
  /\ UNCHANGED <<meta, sentinel, pidfile, request, world, phase, launch, stop>>

-----------------------------------------------------------------------------
(* The runner's start.                                                     *)

Upgrading(r) == r \in Launches /\ launch[r].from # NoRun

Enter(r, p) == phase' = [phase EXCEPT ![r] = p]

\* One process gets the lock and writes its identity in it; another leaves
\* without a trace.
TakeLock(r) ==
  /\ phase[r] = "spawned"
  /\ IF LockFree THEN Enter(r, "locked") /\ meta' = r
                 ELSE Enter(r, "dead") /\ UNCHANGED meta
  /\ UNCHANGED <<row, sentinel, pidfile, request, world, launch, stop>>

Claim(r) ==
  /\ phase[r] = "locked"
  /\ Enter(r, "claimed")
  /\ pidfile' = r
  /\ sentinel' = [state |-> "running", run |-> r]
  /\ UNCHANGED <<row, meta, request, world, launch, stop>>

\* attach() of a run nobody reserved: it reserves its row itself.
AttachDirect(r) ==
  /\ phase[r] = "claimed" /\ r \notin termed /\ row[r].state = "none"
  /\ IF meta = r /\ Reservable(r)
       THEN Reserve(r) /\ UNCHANGED phase
       ELSE Enter(r, "exiting") /\ UNCHANGED row
  /\ UNCHANGED <<meta, sentinel, pidfile, request, world, launch, stop>>

\* bind_running(): an expired reservation still binds the lock's owner.
Bindable(r) == row[r].state = "launching" /\ (row[r].expired => meta = r)

Bind(r) ==
  /\ phase[r] = "claimed" /\ r \notin termed /\ row[r].state # "none"
  /\ IF Bindable(r)
       THEN /\ row' = [row EXCEPT ![r] = [NoRow EXCEPT !.state = "running"]]
            /\ Enter(r, "bound")
       ELSE Enter(r, "exiting") /\ UNCHANGED row
  /\ UNCHANGED <<meta, sentinel, pidfile, request, world, launch, stop>>

\* Mutated form: an archived request is consumed again.
ConsumableAgain(r) == request.run = launch[r].from

\* consume(): the request is archived under the drained run's name.
Consumable(r) == request.state = "open" /\ request.run = launch[r].from

Consume(r) ==
  /\ phase[r] = "bound" /\ r \notin termed /\ Upgrading(r)
  /\ IF Consumable(r)
       THEN /\ request' = [request EXCEPT !.state = "consumed", !.by = r]
            /\ Enter(r, "work") /\ UNCHANGED sentinel
       ELSE /\ sentinel' = [state |-> "upgrade_request_invalid", run |-> r]
            /\ Enter(r, "ended") /\ UNCHANGED request
  /\ UNCHANGED <<row, meta, pidfile, world, launch, stop>>

StartWork(r) ==
  /\ phase[r] = "bound" /\ r \notin termed /\ ~Upgrading(r)
  /\ Enter(r, "work")
  /\ UNCHANGED <<disk, world, launch, stop>>

-----------------------------------------------------------------------------
(* Work: a worker group, the owner's request for an upgrade, and the end.  *)

SetChild(r, c) == /\ child' = [child EXCEPT ![r] = c]
                  /\ UNCHANGED <<reused, termed, hit, raced, kills, stops>>

SpawnWorker(r) ==
  /\ phase[r] = "work" /\ r \notin termed /\ child[r] = "none"
  /\ Cardinality({q \in Runs : child[q] # "none"}) < MaxWorkers
  /\ SetChild(r, "live")
  /\ UNCHANGED <<disk, phase, launch, stop>>

RegisterChild(r) ==
  /\ phase[r] = "work" /\ child[r] = "live" /\ ~row[r].worker
  /\ row[r].state = "running"
  /\ row' = [row EXCEPT ![r].worker = TRUE]
  /\ UNCHANGED <<meta, sentinel, pidfile, request, world, phase, launch, stop>>

WorkerEnds(r) ==
  /\ child[r] \in {"live", "group"}
  /\ \E c \in {"group", "gone"} : c # child[r] /\ SetChild(r, c)
  /\ UNCHANGED <<disk, phase, launch, stop>>

\* retire_child(): only a group with no process left is taken off the row.
RetireChild(r) ==
  /\ phase[r] = "work" /\ row[r].worker /\ child[r] = "gone"
  /\ row' = [row EXCEPT ![r].worker = FALSE]
  /\ UNCHANGED <<meta, sentinel, pidfile, request, world, phase, launch, stop>>

\* The observer of a vanished owner closes the groups it can verify.
CleanupChildren(r) ==
  /\ row[r].state = "running" /\ row[r].worker /\ ~Alive(r) /\ r \notin reused
  /\ child[r] = "live"
  /\ SetChild(r, "gone")
  /\ UNCHANGED <<disk, phase, launch, stop>>

OwnerRequests(r) ==
  /\ phase[r] = "work" /\ request.state = "none"
  /\ request' = [request EXCEPT !.state = "open", !.run = r]
  /\ UNCHANGED <<row, meta, sentinel, pidfile, world, phase, launch, stop>>

\* An open request ends the run at its next closed step: boundary().
StopReasons(r) ==
  {"ended"} \cup (IF request.state # "open" THEN {}
                  ELSE IF request.run = r THEN {"upgrade-drained"}
                  ELSE {"upgrade_request_invalid"})

EndRun(r) ==
  /\ phase[r] = "work" /\ r \notin termed /\ child[r] # "live"
  /\ \E s \in StopReasons(r) :
       /\ sentinel' = [state |-> s, run |-> r]
       /\ request' = [request EXCEPT !.drained = @ \/ s = "upgrade-drained"]
  /\ Enter(r, "closing")
  /\ UNCHANGED <<row, meta, pidfile, world, launch, stop>>

\* The launcher's running.pid goes after the sentinel tells how the run ended.
RemovePidFile(r) ==
  /\ phase[r] = "closing" /\ r \notin termed
  /\ pidfile' = NoRun
  /\ Enter(r, "ended")
  /\ UNCHANGED <<row, meta, sentinel, request, world, launch, stop>>

\* Mutated form: the row goes whatever the worker does.
FinishableAlways(r) == row[r].state = "running"

\* finish() refuses while the recorded group has a process left.
Finishable(r) == row[r].state = "running" /\ ~WorkerSeen(r)

Finish(r) ==
  /\ phase[r] \in {"ended", "exiting"}
  /\ row' = IF Finishable(r) THEN [row EXCEPT ![r] = NoRow] ELSE row
  /\ Enter(r, "finished")
  /\ UNCHANGED <<meta, sentinel, pidfile, request, world, launch, stop>>

\* Mutated form: an exit state no reader knows.
ExitStateError(r) == IF r \in termed THEN "stopped" ELSE "error"

\* finalize_sentinel(): a sentinel that still says running says why no more.
\* A run that archived the request has forgotten that it was an upgrade.
ExitState(r) == CASE Upgrading(r) /\ request.by # r -> "upgrade_request_invalid"
                  [] r \in termed -> "stopped"
                  [] OTHER -> "interrupted"

Finalize(r) ==
  /\ phase[r] = "finished"
  /\ sentinel' = IF sentinel.state = "running" THEN [state |-> ExitState(r), run |-> r]
                                               ELSE sentinel
  /\ Enter(r, "dead")
  /\ UNCHANGED <<row, meta, pidfile, request, world, launch, stop>>

\* The TERM trap: kill the descendants, then leave by the same door.
Terminated(r) ==
  /\ r \in termed /\ phase[r] \in {"claimed", "bound", "work", "closing"}
  /\ \E c \in {child[r]} \cup (IF child[r] = "live" THEN {"group", "gone"} ELSE {}) :
        SetChild(r, c)
  /\ Enter(r, "exiting")
  /\ UNCHANGED <<disk, launch, stop>>

Die(r) ==
  /\ Alive(r) /\ Within(kills + 1, reused, stops)
  /\ kills' = kills + 1
  /\ Enter(r, "dead")
  /\ UNCHANGED <<disk, launch, stop, child, reused, termed, hit, raced, stops>>

\* The kernel gives the pid of a dead runner to a stranger.
Reuse(r) ==
  /\ phase[r] = "dead" /\ r \notin reused /\ Within(kills, reused \cup {r}, stops)
  /\ reused' = reused \cup {r}
  /\ raced' = IF stop.pc = "send" /\ stop.at = r THEN raced \cup {r} ELSE raced
  /\ UNCHANGED <<disk, phase, launch, stop, child, termed, hit, kills, stops>>

-----------------------------------------------------------------------------
(* stop.sh                                                                 *)

StopIdle == [stop EXCEPT !.pc = "idle", !.ids = {}, !.todo = {}, !.at = NoRun]

StopGives == stop' = StopIdle /\ UNCHANGED <<disk, world, phase, launch>>

\* A busy row is a live owner or worker of the recorded identity.
Verified(r) == Liveness(r) = "running" \/ (row[r].worker /\ child[r] = "live")

\* Every busy row has a verified owner or worker, or nothing is signalled.
StopStatus ==
  /\ stop.pc = "idle" /\ Within(kills, reused, stops + 1)
  /\ LET ids == {r \in Runs : Active(r)}
     IN  /\ ids # {}
         /\ \A r \in ids : Verified(r)
         /\ stop' = [pc |-> "check", ids |-> ids, todo |-> ids, sig |-> "TERM", at |-> NoRun]
  /\ stops' = stops + 1
  /\ UNCHANGED <<disk, phase, launch, child, reused, termed, hit, raced, kills>>

\* signal_run(): the row is read and verified, the workers are signalled ...
StopCheck(r) ==
  /\ stop.pc = "check" /\ r \in stop.todo
  /\ IF ~Verified(r) \/ (row[r].worker /\ child[r] = "group") THEN StopGives
     ELSE /\ \E c \in IF row[r].worker /\ child[r] = "live"
                        THEN {"gone"} \cup (IF stop.sig = "TERM" THEN {"live", "group"} ELSE {})
                        ELSE {child[r]} :
                SetChild(r, c)
          /\ stop' = IF Liveness(r) = "running"
                       THEN [stop EXCEPT !.pc = "send", !.at = r]
                       ELSE [stop EXCEPT !.todo = @ \ {r}]
          /\ UNCHANGED <<disk, phase, launch>>

\* ... and the group of the runner last.
StopSend(r) ==
  /\ stop.pc = "send" /\ stop.at = r
  /\ \/ /\ Alive(r)
        /\ IF stop.sig = "TERM"
             THEN termed' = termed \cup {r} /\ UNCHANGED phase
             ELSE Enter(r, "dead") /\ UNCHANGED termed
        /\ stop' = [stop EXCEPT !.pc = "check", !.todo = @ \ {r}, !.at = NoRun]
        /\ UNCHANGED <<disk, launch, child, reused, hit, raced, kills, stops>>
     \/ /\ ~Alive(r) /\ r \in reused
        /\ hit' = hit \cup {r}
        /\ stop' = [stop EXCEPT !.pc = "check", !.todo = @ \ {r}, !.at = NoRun]
        /\ UNCHANGED <<disk, phase, launch, child, reused, termed, raced, kills, stops>>
     \/ ~Alive(r) /\ r \notin reused /\ StopGives

\* Free: report.  Busy after the wait: KILL.  Busy after the KILL: give up.
StopWait ==
  /\ stop.pc = "check" /\ stop.todo = {}
  /\ \/ ~Busy /\ stop' = [stop EXCEPT !.pc = "report"]
     \/ Busy /\ stop.sig = "TERM" /\ stop' = [stop EXCEPT !.sig = "KILL", !.todo = stop.ids]
     \/ Busy /\ stop.sig = "KILL" /\ stop' = StopIdle
  /\ UNCHANGED <<disk, world, phase, launch>>

StopReport ==
  /\ stop.pc = "report"
  /\ sentinel' = IF sentinel.state = "running" /\ sentinel.run \in stop.ids
                   THEN [sentinel EXCEPT !.state = "ilk-stop"] ELSE sentinel
  /\ pidfile' = IF pidfile \in stop.ids THEN NoRun ELSE pidfile
  /\ stop' = StopIdle
  /\ UNCHANGED <<row, meta, request, world, phase, launch>>

-----------------------------------------------------------------------------
Launcher(l) == \/ LaunchStatus(l) \/ LaunchSelect(l) \/ LaunchRecheck(l)
               \/ LaunchReserve(l) \/ LaunchSpawn(l) \/ LauncherDies(l)

Runner(r) == \/ StartDirect(r) \/ TakeLock(r) \/ Claim(r)
             \/ AttachDirect(r) \/ Bind(r) \/ Consume(r) \/ StartWork(r)
             \/ SpawnWorker(r) \/ RegisterChild(r) \/ WorkerEnds(r) \/ RetireChild(r)
             \/ CleanupChildren(r) \/ OwnerRequests(r)
             \/ EndRun(r) \/ RemovePidFile(r) \/ Terminated(r) \/ Finish(r) \/ Finalize(r)

Environment(r) == Expire(r) \/ Die(r) \/ Reuse(r)

Stopper == \/ StopStatus \/ StopWait \/ StopReport
           \/ \E r \in Runs : StopCheck(r) \/ StopSend(r)

Next == \/ \E l \in Launches : Launcher(l)
        \/ \E r \in Runs : Runner(r) \/ Environment(r)
        \/ Stopper

Spec == Init /\ [][Next]_vars

-----------------------------------------------------------------------------
(* Properties.                                                             *)

TypeOK ==
  /\ row \in [Runs -> [state : {"none", "launching", "running"},
                       expired : BOOLEAN, worker : BOOLEAN]]
  /\ phase \in [Runs -> {"none", "spawned", "locked", "claimed", "bound", "work",
                         "closing", "ended", "exiting", "finished", "dead"}]
  /\ child \in [Runs -> {"none", "live", "group", "gone"}]
  /\ {meta, pidfile} \subseteq Runs \cup {NoRun}
  /\ sentinel \in [state : {"none", "running", "ended", "interrupted", "stopped", "ilk-stop",
                            "upgrade-drained", "upgrade_request_invalid"},
                   run : Runs \cup {NoRun}]
  /\ request \in [state : {"none", "open", "consumed"}, run : Runs \cup {NoRun},
                  by : Runs \cup {NoRun}, drained : BOOLEAN]
  /\ launch \in [Launches -> [pc : {"idle", "free", "selected", "cleared", "reserved",
                                    "done", "refused"}, from : Runs \cup {NoRun}]]
  /\ stop \in [pc : {"idle", "check", "send", "report"}, ids : SUBSET Runs,
               todo : SUBSET Runs, sig : {"TERM", "KILL"}, at : Runs \cup {NoRun}]
  /\ {reused, termed, hit, raced} \subseteq SUBSET Runs

Attached(r) == phase[r] \in {"bound", "work", "closing", "ended"}

\* At most one runner is past its attach, it holds the lock, and its own row
\* says so: run_registry.py decides by rows whose reservations expire and are
\* bound late, ilk_run_lock.py by the kernel.
OneRunner ==
  \A r \in Runs : Attached(r) =>
    /\ row[r].state = "running" /\ meta = r
    /\ \A q \in Runs \ {r} : ~Locked(q) /\ Liveness(q) # "running"

\* The record outlives the worker: whichever command rewrites or removes a
\* row, a registered group leaves it only when no process of it is left, so
\* that a new launch finds the worker of a vanished runner (run_registry.py).
RecordOutlivesWorker ==
  [][\A r \in Runs : WorkerSeen(r) /\ child'[r] \in {"live", "group"} => row'[r].worker]_vars

\* A stop tells the truth: stop.sh calls a run stopped, or forgets its pid,
\* only when that run's process is dead, whatever was launched meanwhile.
StopsAreTrue ==
  [][stop.pc = "report" /\ stop'.pc = "idle" =>
       /\ sentinel' # sentinel => phase[sentinel.run] = "dead"
       /\ pidfile' # pidfile => phase[pidfile] = "dead"]_vars

\* A stranger with a reused pid is signalled only when the pid was reused
\* between signal_run's identity check and its signal.
StrangersSpared == hit \subseteq raced

\* A drained run has one successor: of all runs launched from its drain, late
\* and expired ones included, only the one that archived the request works.
OneSuccessor ==
  \A r \in Launches : Upgrading(r) /\ (phase[r] = "work" \/ child[r] # "none") =>
    request.by = r /\ request.run = launch[r].from
=============================================================================

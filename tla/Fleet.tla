------------------------------- MODULE Fleet -------------------------------
(***************************************************************************)
(* One project under the scheduler, its watchdog and the runs they launch. *)
(*                                                                         *)
(* skills/ilk-watchdog/scripts/scheduler.sh polls: it scans the queue,     *)
(* screens the project by the last run's sentinel and postmortem, counts   *)
(* launches without progress in a file, promotes a master and launches.    *)
(* watchdog.sh supervises: it classifies the run that ended, relaunches    *)
(* or promotes.  They share the plans, last-exit.json, the postmortems and *)
(* the operator's acknowledgement, and no lock.                            *)
(*                                                                         *)
(* Time is abstract: a cooldown, backoff, grace or blacklist ends in an    *)
(* action of its own, and whether a run ended within a minute is a choice. *)
(***************************************************************************)
EXTENDS MasterQueue, Sequences

CONSTANTS Threshold,   \* NO_PROGRESS_THRESHOLD
          MaxRestarts, \* max_restarts_cap
          Scenarios    \* what may happen besides, see Budget

\* Masters with work, commands and repairs of people, steps the runs advance,
\* acknowledgements, deaths of runs and of the scheduler: the bounds of a run.
Budget == [masters : Nat, commands : 0 .. MaxCommands, steps : Nat, acks : Nat, deaths : Nat]

ASSUME FleetAssumption ==
  /\ Threshold \in Nat \ {0}
  /\ MaxRestarts \in Nat /\ Scenarios \subseteq Budget
  /\ Promoters = {"scheduler", "watchdog"}

VARIABLES steps,      \* current_step of the sub-plans, summed
          run,        \* the run the registry knows
          exit,       \* last-exit.json, the sentinel
          superseded, \* last-launch.json names a later run than the sentinel
          postmortem, \* of the sentinel's run: none that counts, due, or written
          counter,    \* no-progress.json and blacklist-cleared.json
          sched,      \* the scheduler's pass
          memory,     \* what it remembers between passes
          wd,         \* the watchdog
          barren,     \* runs it launched since anything spoke for another
          left        \* of the scenario's steps, acks and deaths

fleetVars == <<steps, run, exit, superseded, postmortem, counter, sched, memory, wd, barren, left>>
vars == <<queueVars, fleetVars>>

Successes == {"shipped"}
Failures  == {"blocked", "retry", "red", "stopped"}

NoRun      == [at |-> "none", by |-> "nobody", master |-> NoMaster]
Forgotten  == [rapid |-> 0, backoff |-> "none", cool |-> FALSE, dispatched |-> FALSE]
Asleep     == [at |-> "asleep", black |-> FALSE, active |-> FALSE, next |-> <<>>]
OffDuty    == [at |-> "off", restarts |-> 0, label |-> "none", stale |-> FALSE, won |-> FALSE]

Busy      == run.at # "none"
Signature == <<status, work, steps>>
Ended     == exit.state \in Successes \cup Failures

Init ==
  /\ \E s \in Scenarios :
       /\ QueueInit(s.masters) /\ commands = s.commands
       /\ left = [steps |-> s.steps, acks |-> s.acks, deaths |-> s.deaths]
  /\ steps = 0 /\ run = NoRun
  /\ exit = [state |-> "none", quick |-> FALSE]
  /\ superseded = FALSE /\ postmortem = "none"
  /\ counter = [count |-> 0, seen |-> <<>>, ack |-> "none"]
  /\ sched = Asleep /\ memory = Forgotten /\ wd = OffDuty
  /\ barren = 0

-----------------------------------------------------------------------------
(* The scheduler's pass *)

Runnable(s) == {m \in Masters : work[m] = "runnable" /\ s[m] \in {"active", "queued"}}

Blacklisted == exit.state = "red" /\ postmortem = "written"
Awaited     == exit.state \in Failures /\ postmortem = "due"

\* The scan, which leaves a held project alone; its pass begins now, and later
\* acknowledgements are of this pass.
Wake ==
  /\ sched.at = "asleep"
  /\ status' = IF Held THEN status ELSE Reconciled
  /\ IF Held \/ Runnable(Reconciled) = {} THEN sched' = Asleep
     ELSE sched' = [sched EXCEPT !.at = "screen", !.black = Blacklisted,
                      !.active = \E m \in Runnable(Reconciled) : Reconciled[m] = "active"]
  /\ counter' = [counter EXCEPT !.ack = IF @ = "during" THEN "before" ELSE @]
  /\ UNCHANGED <<hold, work, pick, order, commands, steps, run, exit, superseded, postmortem, memory, wd, barren, left>>

\* Mutated form: an elapsed backoff leaves the count where it was.
NeverDecayed == memory.rapid

Decayed == IF memory.backoff = "over" THEN 0 ELSE memory.rapid

Rapid      == Ended /\ exit.quick
RapidCount == IF ~memory.dispatched \/ exit.state = "none" THEN Decayed
              ELSE IF Rapid THEN Min({Decayed + 1, 2}) ELSE 0

Screened == ~Awaited /\ ~sched.black /\ memory.backoff # "armed"

\* Awaited postmortem, blacklist, backoff, rapid terminals, cooldown, busy.
Screen ==
  /\ sched.at = "screen"
  /\ memory' = IF Screened
               THEN [memory EXCEPT !.rapid = RapidCount, !.backoff = IF RapidCount >= 2 THEN "armed" ELSE @]
               ELSE memory
  /\ sched' = IF Screened /\ RapidCount < 2 /\ ~memory.cool /\ ~Busy
              THEN [sched EXCEPT !.at = "read"] ELSE Asleep
  /\ UNCHANGED <<queueVars, steps, run, exit, superseded, postmortem, counter, wd, barren, left>>

Progressed == counter.seen = <<>> \/ Signature # counter.seen

\* Mutated form: the launch that reaches the bound is still made.
LateVerdict(count) ==
  IF Progressed \/ exit.state \in Successes THEN [count |-> 0, go |-> TRUE]
  ELSE IF count > Threshold THEN [count |-> count, go |-> FALSE]
  ELSE [count |-> count + 1, go |-> count + 1 <= Threshold]

Verdict(count) ==
  IF Progressed \/ exit.state \in Successes THEN [count |-> 0, go |-> TRUE]
  ELSE IF count >= Threshold THEN [count |-> count, go |-> FALSE]
  ELSE [count |-> count + 1, go |-> count + 1 < Threshold]

\* The counter, the signature, the acknowledgement and the sentinel are read.
ReadBound ==
  /\ sched.at = "read"
  /\ LET v == IF counter.ack # "none" THEN [count |-> 0, go |-> TRUE] ELSE Verdict(counter.count)
     IN sched' = [sched EXCEPT !.at = "write",
                    !.next = <<v.count, Signature, v.go, counter.ack # "none" \/ Progressed \/ exit.state \in Successes>>]
  /\ UNCHANGED <<queueVars, steps, run, exit, superseded, postmortem, counter, memory, wd, barren, left>>

\* The counter is dated at the pass's start: what was acknowledged since stands.
StillFresh == IF counter.ack = "during" THEN "during" ELSE "none"

WriteBound ==
  /\ sched.at = "write"
  /\ counter' = [count |-> sched.next[1], seen |-> sched.next[2], ack |-> StillFresh]
  /\ barren' = IF sched.next[4] THEN 0 ELSE barren
  /\ sched' = IF ~sched.next[3] THEN Asleep
              ELSE [sched EXCEPT !.at = IF sched.active THEN "launch" ELSE "decide", !.next = <<>>]
  /\ UNCHANGED <<queueVars, steps, run, exit, superseded, postmortem, memory, wd, left>>

SchedulerPromotes ==
  \/ /\ sched.at = "decide" /\ Decide("scheduler")
     /\ sched' = [sched EXCEPT !.at = "promote"]
     /\ UNCHANGED <<steps, run, exit, superseded, postmortem, counter, memory, wd, barren, left>>
  \/ /\ sched.at = "promote" /\ (Demote("scheduler") \/ Promote("scheduler"))
     /\ UNCHANGED fleetVars
  \/ /\ sched.at = "promote" /\ pick["scheduler"] = NoPick
     /\ sched' = [sched EXCEPT !.at = "launch"]
     /\ UNCHANGED <<queueVars, steps, run, exit, superseded, postmortem, counter, memory, wd, barren, left>>

\* watchdog.sh --detach, unless one is there.
Attached == IF wd.at # "off" THEN wd ELSE [OffDuty EXCEPT !.at = "watching", !.stale = Ended]

Started(who) == [at |-> "launching", by |-> who, master |-> NoMaster]

Dispatch ==
  /\ sched.at = "launch" /\ ~Busy
  /\ run' = Started("scheduler") /\ superseded' = TRUE
  /\ memory' = [memory EXCEPT !.cool = TRUE, !.dispatched = TRUE]
  /\ exit' = [exit EXCEPT !.quick = FALSE]
  /\ wd' = Attached /\ sched' = Asleep
  /\ UNCHANGED <<queueVars, steps, postmortem, counter, barren, left>>

\* The registry refuses, or launch.sh fails inside its window, or reports it.
DispatchFails ==
  /\ sched.at = "launch" /\ sched' = Asleep
  /\ \/ /\ memory' = [memory EXCEPT !.cool = TRUE, !.dispatched = TRUE]
        /\ exit' = [exit EXCEPT !.quick = FALSE]
        /\ wd' = Attached
     \/ memory' = [memory EXCEPT !.backoff = "armed"] /\ UNCHANGED <<exit, wd>>
  /\ UNCHANGED <<queueVars, steps, run, superseded, postmortem, counter, barren, left>>

Pass == Wake \/ Screen \/ ReadBound \/ WriteBound \/ SchedulerPromotes \/ DispatchFails

-----------------------------------------------------------------------------
(* The run *)

\* The running sentinel of a run that got so far.
Begin ==
  /\ run.at = "launching"
  /\ run' = [run EXCEPT !.at = "started", !.by = "nobody"]
  /\ exit' = [state |-> "running", quick |-> FALSE]
  /\ superseded' = FALSE /\ postmortem' = "none"
  /\ barren' = IF run.by = "scheduler" THEN barren + 1 ELSE barren
  /\ UNCHANGED <<queueVars, steps, counter, sched, memory, wd, left>>

\* The terminal sentinel.
EndAs(state, quick) ==
  /\ run' = NoRun
  /\ exit' = [exit EXCEPT !.state = state, !.quick = quick]
  /\ postmortem' = IF state \in Failures THEN "due" ELSE "none"
  /\ wd' = [wd EXCEPT !.stale = FALSE]
  /\ barren' = IF state \in Successes THEN 0 ELSE barren
  /\ UNCHANGED <<status, hold, pick, order, commands, superseded, counter, sched, memory, left>>

Selected ==
  IF ActiveOnes # {} THEN ActiveOnes
  ELSE IF \E m \in Masters : status[m] = "queued" THEN {m \in Masters : status[m] = "queued"}
  ELSE Masters

Outcome(m) == IF Held \/ work[m] = "stuck" \/ status[m] = "blocked" THEN "blocked"
              ELSE IF work[m] = "done" THEN "shipped" ELSE "runnable"

Preflight ==
  /\ run.at = "started"
  /\ \E m \in Selected :
       IF Outcome(m) = "runnable"
       THEN /\ run' = [run EXCEPT !.at = "working", !.master = m]
            /\ UNCHANGED <<queueVars, steps, exit, superseded, postmortem, counter, sched, memory, wd, barren, left>>
       ELSE EndAs(Outcome(m), TRUE) /\ UNCHANGED <<work, steps>>

AdvanceStep ==
  /\ run.at = "working" /\ left.steps > 0
  /\ left' = [left EXCEPT !.steps = @ - 1]
  /\ steps' = steps + 1 /\ barren' = 0
  /\ UNCHANGED <<queueVars, run, exit, superseded, postmortem, counter, sched, memory, wd>>

\* The master is shipped, or its last runnable sub-plan is quarantined.
Finish ==
  /\ run.at = "working"
  /\ \E quick \in BOOLEAN, w \in {"done", "stuck"} :
       /\ work' = [work EXCEPT ![run.master] = IF @ = "done" THEN @ ELSE w]
       /\ EndAs(IF w = "done" THEN "shipped" ELSE "blocked", quick)
  /\ UNCHANGED steps

\* Without shipping: a transient stop, a red gate, or the operator's stop.
GiveOut ==
  /\ run.at = "working"
  /\ \E quick \in BOOLEAN, state \in {"retry", "red", "stopped"} : EndAs(state, quick)
  /\ UNCHANGED <<work, steps>>

\* Nothing is written: before its sentinel, or leaving a running one.
RunDies ==
  /\ Busy /\ left.deaths > 0
  /\ run' = NoRun /\ left' = [left EXCEPT !.deaths = @ - 1]
  /\ UNCHANGED <<queueVars, steps, exit, superseded, postmortem, counter, sched, memory, wd, barren>>

RunSteps == Begin \/ Preflight \/ Finish \/ GiveOut

-----------------------------------------------------------------------------
(* The watchdog *)

Leaves == wd' = OffDuty

Dead == exit.state = "running" /\ ~Busy

\* A superseded sentinel is waited out, and so is an old one under a live run.
Waits ==
  \/ exit.state \in {"none", "running"} /\ Busy
  \/ exit.state \in Failures /\ superseded
  \/ wd.stale /\ Ended /\ Busy
  \/ wd.stale /\ exit.state \in Successes /\ superseded

\* Nothing to supervise: no sentinel and no run, an old success and no run, or
\* a success with work pending.
WatchdogGivesUp ==
  /\ wd.at = "watching" /\ ~Waits
  /\ \/ exit.state = "none"
     \/ exit.state \in Successes /\ (wd.stale \/ Unfinished # {})
  /\ Leaves
  /\ UNCHANGED <<queueVars, steps, run, exit, superseded, postmortem, counter, sched, memory, barren, left>>

\* A clean ship: the next master, unless the project is held.
WatchdogDecides ==
  /\ wd.at = "watching" /\ exit.state \in Successes /\ ~wd.stale /\ Unfinished = {}
  /\ Decide("watchdog")
  /\ wd' = IF Held THEN OffDuty
           ELSE [wd EXCEPT !.at = "promoting", !.won = pick'["watchdog"].promote # NoMaster]
  /\ UNCHANGED <<steps, run, exit, superseded, postmortem, counter, sched, memory, barren, left>>

WatchdogPromotes ==
  \/ /\ wd.at = "promoting" /\ (Demote("watchdog") \/ Promote("watchdog"))
     /\ UNCHANGED fleetVars
  \/ /\ wd.at = "promoting" /\ pick["watchdog"] = NoPick
     /\ wd' = IF wd.won THEN [wd EXCEPT !.at = "relaunch", !.restarts = 0, !.label = "none", !.won = FALSE]
              ELSE OffDuty
     /\ UNCHANGED <<queueVars, steps, run, exit, superseded, postmortem, counter, sched, memory, barren, left>>

Restart(label) ==
  LET n == IF wd.label = label THEN wd.restarts + 1 ELSE 1
  IN IF n > MaxRestarts THEN OffDuty
     ELSE [wd EXCEPT !.at = "relaunch", !.restarts = n, !.label = label]

\* collect.py writes the postmortem, or fails to; its class says what to do, and
\* only a red one blacklists.
Collect ==
  /\ wd.at = "watching" /\ ~Waits
  /\ exit.state \in Failures \/ Dead
  /\ \/ postmortem' = IF exit.state = "red" THEN "written" ELSE "none"
     \/ UNCHANGED postmortem
  /\ wd' = CASE exit.state \in {"blocked", "red"} -> OffDuty
             [] OTHER -> Restart(exit.state)
  /\ UNCHANGED <<queueVars, steps, run, exit, superseded, counter, sched, memory, barren, left>>

\* relaunch_guard, then the launch.
Relaunch ==
  /\ wd.at = "relaunch"
  /\ \/ Busy /\ wd' = [wd EXCEPT !.at = "watching"] /\ UNCHANGED <<run, superseded>>
     \/ /\ ~Busy /\ exit.state # "stopped" /\ ~Held
        /\ run' = Started("watchdog") /\ superseded' = TRUE
        /\ wd' = [wd EXCEPT !.at = "watching"]
     \/ ~Busy /\ Leaves /\ UNCHANGED <<run, superseded>>
  /\ UNCHANGED <<queueVars, steps, exit, postmortem, counter, sched, memory, barren, left>>

Watch == WatchdogGivesUp \/ WatchdogDecides \/ WatchdogPromotes \/ Collect \/ Relaunch

-----------------------------------------------------------------------------
(* Time, people and deaths *)

CoolDown ==
  /\ memory.cool /\ memory' = [memory EXCEPT !.cool = FALSE]
  /\ UNCHANGED <<queueVars, steps, run, exit, superseded, postmortem, counter, sched, wd, barren, left>>

BackoffEnds ==
  /\ memory.backoff = "armed" /\ memory' = [memory EXCEPT !.backoff = "over"]
  /\ UNCHANGED <<queueVars, steps, run, exit, superseded, postmortem, counter, sched, wd, barren, left>>

\* The grace of a due postmortem, or the hour of a written one.
PostmortemAges ==
  /\ postmortem \in {"due", "written"}
  /\ postmortem' = "none"
  /\ UNCHANGED <<queueVars, steps, run, exit, superseded, counter, sched, memory, wd, barren, left>>

Time == CoolDown \/ BackoffEnds \/ PostmortemAges

Acknowledge ==
  /\ left.acks > 0 /\ left' = [left EXCEPT !.acks = @ - 1]
  /\ counter' = [counter EXCEPT !.ack = IF sched.at \in {"screen", "read", "write"} THEN "during" ELSE "before"]
  /\ postmortem' = IF postmortem = "written" THEN "none" ELSE postmortem
  /\ UNCHANGED <<queueVars, steps, run, exit, superseded, sched, memory, wd, barren>>

\* The operator or a tool changes the queue.
People ==
  \/ (\E c \in Commands, m \in Masters : KeepAtOnce(c, m)) /\ UNCHANGED fleetVars
  \/ (\E m \in Masters : Repair(m)) /\ UNCHANGED fleetVars

SchedulerDies ==
  /\ sched.at # "down" /\ left.deaths > 0 /\ left' = [left EXCEPT !.deaths = @ - 1]
  /\ sched' = [Asleep EXCEPT !.at = "down"] /\ memory' = Forgotten
  /\ pick' = [pick EXCEPT !["scheduler"] = NoPick]
  /\ UNCHANGED <<status, hold, work, order, commands, steps, run, exit, superseded, postmortem, counter, wd, barren>>

SchedulerRestarts ==
  /\ sched.at = "down" /\ sched' = Asleep
  /\ UNCHANGED <<queueVars, steps, run, exit, superseded, postmortem, counter, memory, wd, barren, left>>

Next ==
  \/ Pass \/ Dispatch \/ RunSteps \/ AdvanceStep \/ RunDies
  \/ Watch \/ Time \/ Acknowledge \/ People \/ SchedulerDies \/ SchedulerRestarts

Spec == Init /\ [][Next]_vars

\* The scheduler and the watchdog are loops that do not stop by themselves, time
\* passes, a run ends, and a launch does not fail for ever.  A person or a
\* promotion by the watchdog is owed to nobody.
FairSpec ==
  /\ Spec
  /\ WF_vars(Pass \/ SchedulerRestarts) /\ SF_vars(Dispatch)
  /\ WF_vars(RunSteps) /\ WF_vars(Watch) /\ WF_vars(Time)

-----------------------------------------------------------------------------
(* Properties *)

\* The queue and the fleet stay in their types, and at most one process of a
\* kind is where it can be: a pick of the scheduler's belongs to its pass.
TypeOK ==
  /\ QueueTypeOK
  /\ exit \in [state : {"none", "running"} \cup Successes \cup Failures, quick : BOOLEAN]
  /\ counter.count \in 0 .. Threshold
  /\ memory.rapid \in 0 .. 2
  /\ pick["scheduler"] # NoPick => sched.at = "promote"
  /\ pick["watchdog"] # NoPick => wd.at = "promoting"

\* However the scheduler, its restarts and the watchdog interleave, it starts at
\* most Threshold runs in a row that neither move the plans, end cleanly nor are
\* vouched for by an operator, although the verdict is taken, recorded and acted
\* on in three steps and the watchdog's own runs come between.
BoundedBarren == barren <= Threshold

\* A project with work that no run holds, that nobody parked.
Dispatchable == ~Held /\ Runnable(status) # {} /\ ~Busy

\* Launches without progress reached the bound, and nobody spoke for them.
Bounded ==
  /\ counter.count >= Threshold /\ counter.ack = "none"
  /\ ~Progressed /\ exit.state \notin Successes

\* Such a project is launched again, by whichever process, unless the bound on
\* launches without progress stopped it: a backoff, a cooldown, a postmortem, a
\* restart of the scheduler or an acknowledgement given in the middle of a pass
\* never wedges it.
DispatchResumes == Dispatchable /\ ~Bounded ~> ~Dispatchable \/ Bounded
=============================================================================

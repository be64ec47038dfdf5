----------------------------- MODULE PlanState -----------------------------
(***************************************************************************)
(* Compare-and-set of plan frontmatter with a durable transition journal:  *)
(* skills/ilk-loop/scripts/plan_state.py and the programs that call it.    *)
(*                                                                         *)
(* Every client first reads the plans directory without a lock and decides *)
(* what it wants (the Ask actions).  It then takes the directory's flock,  *)
(* checks each guard plan, checks the target, appends an intent, replaces  *)
(* the file and appends the completion.  A client can die between any two  *)
(* of these steps: the kernel then releases its lock and the journal keeps *)
(* what was appended.  resolve_context freezes the owned states and the    *)
(* journal length of one iteration under the same lock.                    *)
(***************************************************************************)
EXTENDS PlanJournal

CONSTANTS Subs,       \* the sub-plans of the dispatched master
          Master,     \* the dispatched master
          Foreign,    \* masters of the same plans directory that are not frozen
          Drivers,    \* processes that act as driver
          Humans,     \* processes an operator starts
          Nobody,     \* the owner of a free lock
          Steps,      \* authored steps of every sub-plan
          Threshold,  \* quarantine strikes before a block
          MaxFails, MaxEdits, MaxAsks, MaxCrashes  \* bounds of a run

Frozen == Subs \cup {Master}
Paths  == Frozen \cup Foreign
Procs  == Drivers \cup Humans

ASSUME PathsAssumption ==
  Master \notin Subs /\ Foreign \cap Frozen = {}

ASSUME ProcsAssumption ==
  Drivers \cap Humans = {} /\ Nobody \notin Procs

ASSUME BoundsAssumption ==
  /\ Steps \in Nat \ {0} /\ Threshold \in Nat \ {0}
  /\ MaxFails \in Nat /\ MaxEdits \in Nat /\ MaxAsks \in Nat /\ MaxCrashes \in Nat

VARIABLES files,    \* the bytes of each plan file
          log,      \* state-transitions.jsonl
          holder,   \* who owns .state-transitions.lock
          pc,       \* where each client is
          req,      \* the request a client carries out
          todo,     \* the guards, or snapshots, it has still to look at
          mine,     \* the position of its intent in the journal
          resets,   \* sub-plans whose strikes an unpark has still to reset
          ctx,      \* the frozen iteration context of each driver
          took,     \* what each driver's runner snapshot before the worker's turn
          asks, crashes  \* counters for the bounds

vars == <<files, log, holder, pc, req, todo, mine, resets, ctx, took, asks, crashes>>

NoReq    == [op |-> "none"]
NoCtx    == [cursor |-> -1]
NoDigest == [contract |-> -1]
Untaken  == [taken |-> FALSE]
Nothing  == <<>>

Contents == [status : Statuses, current_step : Nat, hold : Holds,
             auto_block_fails : Nat, contract : Nat, notes : Nat]

\* A plan as it is queued: nothing done, nothing held.
Fresh(status) == [status |-> status, current_step |-> 0, hold |-> "none",
                  auto_block_fails |-> 0, contract |-> 0, notes |-> 0]

Queued == [x \in Paths |-> Fresh(IF x \in Subs THEN "pending" ELSE "active")]

Init ==
  /\ files = Queued
  /\ log = <<>>
  /\ holder = Nobody
  /\ pc = [p \in Procs |-> "idle"]
  /\ req = [p \in Procs |-> NoReq]
  /\ todo = [p \in Procs |-> {}]
  /\ mine = [p \in Procs |-> 0]
  /\ resets = [p \in Procs |-> {}]
  /\ ctx = [d \in Drivers |-> NoCtx]
  /\ took = [d \in Drivers |-> [x \in Frozen |-> Untaken]]
  /\ asks = 0 /\ crashes = 0

-----------------------------------------------------------------------------
(* What the callers ask for, decided on bytes they read without the lock.  *)

Transition(actor, path, from, to) ==
  [op |-> "transition", actor |-> actor, path |-> path, from |-> from,
   to |-> to, guards |-> Nothing, digest |-> NoDigest, note |-> 0,
   release |-> FALSE]

Ask(p, r) ==
  /\ pc[p] = "idle" /\ resets[p] = {}
  /\ asks < MaxAsks
  /\ req' = [req EXCEPT ![p] = r]
  /\ pc' = [pc EXCEPT ![p] = "asked"]
  /\ asks' = asks + 1
  /\ UNCHANGED <<files, log, holder, todo, mine, resets, ctx, took, crashes>>

Dispatched(d) == ctx[d] # NoCtx

Advanceable(c) == ~Held(c) /\ c.status # "shipped"

\* The driver's acceptance: validate, then advance the dispatched step under
\* the frozen state of the master.
AskAdvance(d, s) ==
  /\ Dispatched(d)
  /\ LET step == ctx[d].snap[s].current_step IN
     /\ step < Steps
     /\ files[s].current_step = step
     /\ Advanceable(files[s]) /\ Advanceable(files[Master])
     /\ files[s].contract = ctx[d].contract[s]
     /\ Ask(d, [Transition("driver", s,
                  [current_step |-> step, status |-> files[s].status],
                  [current_step |-> step + 1, status |-> "in-progress"])
                EXCEPT !.guards = [m \in {Master} |-> ctx[d].snap[m]]])

\* The second half of a ship, after its marker commit.
AskShip(d, s) ==
  /\ Dispatched(d)
  /\ files[s].current_step = Steps /\ files[s].status # "shipped"
  /\ Ask(d, Transition("driver", s, [status |-> files[s].status],
                                    [status |-> "shipped"]))

\* Retract a ship, and lower the pointer to the first step proven red.
AskRollback(d, s, red) ==
  /\ Dispatched(d)
  /\ files[s].status = "shipped"
  /\ LET c == files[s] IN
     Ask(d, [Transition("driver", s,
               [status |-> "shipped", current_step |-> c.current_step],
               IF c.current_step > red
               THEN [status |-> "in-progress", current_step |-> red]
               ELSE [status |-> "in-progress"])
             EXCEPT !.digest = c])

\* A red gate is a strike; at the threshold the sub-plan is quarantined.
AskStrike(d, s) ==
  /\ Dispatched(d)
  /\ ~Held(files[s]) /\ files[s].auto_block_fails < MaxFails
  /\ LET fails == files[s].auto_block_fails IN
     Ask(d, IF fails + 1 >= Threshold
            THEN [Transition("driver", s,
                    [auto_block_fails |-> fails, status |-> files[s].status],
                    [auto_block_fails |-> fails + 1, status |-> "blocked"])
                  EXCEPT !.note = 1]
            ELSE Transition("driver", s, [auto_block_fails |-> fails],
                                         [auto_block_fails |-> fails + 1]))

\* A green gate forgets the strikes, and lifts a quarantine but no hold.
AskPass(d, s) ==
  /\ Dispatched(d)
  /\ files[s].hold # "human"
  /\ LET c == files[s] IN
     \/ /\ c.status \notin HeldStatuses
        /\ Ask(d, Transition("driver", s,
                    [auto_block_fails |-> c.auto_block_fails],
                    [auto_block_fails |-> 0]))
     \/ /\ c.status = "blocked" /\ c.auto_block_fails > 0
        /\ Ask(d, [Transition("driver", s,
                     [status |-> "blocked", auto_block_fails |-> c.auto_block_fails],
                     [status |-> "in-progress", auto_block_fails |-> 0])
                   EXCEPT !.release = TRUE])

\* A finding appended for the reader, against the exact bytes it was read from.
AskNote(d, x) ==
  /\ Dispatched(d)
  /\ files[x].notes < MaxEdits
  /\ LET same == [status |-> files[x].status] IN
     Ask(d, [Transition("integrity-repair", x, same, same)
             EXCEPT !.note = 1, !.digest = files[x]])

\* Complete the master when every registered sub-plan is a proven ship.
AskComplete(d) ==
  /\ Dispatched(d)
  /\ Advanceable(files[Master])
  /\ \A s \in Subs : files[s].status = "shipped"
  /\ Ask(d, [Transition("driver", Master, [status |-> files[Master].status],
                                          [status |-> "shipped"])
             EXCEPT !.digest = files[Master],
                    !.guards = [s \in Subs |->
                                  [status |-> files[s].status,
                                   current_step |-> files[s].current_step]]])

\* The ship-integrity park of the runner: it writes no hold.
AskAutoPark(d) ==
  /\ Dispatched(d)
  /\ files[Master].status \in {"queued", "active", "shipped"}
  /\ Ask(d, Transition("driver", Master, [status |-> files[Master].status],
                                         [status |-> "blocked"]))

\* The master's registry table, rewritten from the sub-plans' statuses.
AskProjection(d) ==
  /\ Dispatched(d)
  /\ files[Master].notes < MaxEdits
  /\ Ask(d, [Transition("driver", Master, Nothing, Nothing)
             EXCEPT !.op = "projection", !.note = 1, !.digest = files[Master]])

-----------------------------------------------------------------------------
(* The runner's snapshots (master_snapshot.py, subplan_status_snapshot.py): *)
(* read before a worker's turn and, where a worker may write plan files,   *)
(* compared after it.  Neither read takes the lock, and a restore reads    *)
(* the plan once more for its expectation, so a client may come between.   *)

Guarded(x) == IF x = Master THEN {"status", "hold"} ELSE {"status"}

\* `take` of one plan, the master first.
TakeSnapshot(d, x) ==
  /\ Dispatched(d) /\ pc[d] = "idle" /\ took[d][x] = Untaken
  /\ x \in Subs => took[d][Master] # Untaken
  /\ asks < MaxAsks
  /\ took' = [took EXCEPT ![d][x] = [k \in Guarded(x) |-> files[x][k]]]
  /\ UNCHANGED <<files, log, holder, pc, req, todo, mine, resets, ctx, asks, crashes>>

\* The statuses of a sub-plan that a reader branches on.
KnownStatuses == {"pending", "in-progress", "shipped", "blocked"}

AllShipped == \A s \in Subs : files[s].status = "shipped"

\* `restore` keeps a move toward a stop, and a completion reconcile may make.
\* `parked` says whether the master carries a park's stamp.
Accepted(before, now, parked) ==
  LET changed == {k \in Guarded(Master) : now[k] # before[k]} IN
  IF /\ changed = {"status"} /\ now.status = "shipped" /\ AllShipped
     /\ before.status \in {"queued", "active", "pending"}
  THEN changed
  ELSE {k \in changed : \/ k = "hold" /\ now.hold = "human"
                        \/ k = "status" /\ now.status = "blocked"
                           /\ (parked \/ now.hold = "human")}

\* What is put back into the master: all that was taken and is not accepted.
MasterBack(before) ==
  LET now == files[Master]
      back(parked) == [k \in Guarded(Master) |->
                         IF k \in Accepted(before, now, parked) THEN now[k] ELSE before[k]]
  IN  {to \in {back(parked) : parked \in BOOLEAN} : ~Matches(now, to)}

\* And into a sub-plan: a known status for one outside the state machine.
StatusBack(s, before) ==
  {to \in {before} : files[s].status \notin KnownStatuses /\ to.status \in KnownStatuses}

PutBack(x, before) == IF x = Master THEN MasterBack(before) ELSE StatusBack(x, before)

\* The first half of a restore: what is to be written back.
Compare(d, x, to) ==
  /\ pc[d] = "idle" /\ asks < MaxAsks
  /\ req' = [req EXCEPT ![d] = Transition("integrity-repair", x, Nothing, to)]
  /\ pc' = [pc EXCEPT ![d] = "compared"]
  /\ took' = [took EXCEPT ![d][x] = Untaken]
  /\ asks' = asks + 1
  /\ UNCHANGED <<files, log, holder, todo, mine, resets, ctx, crashes>>

CompareWithSnapshot(d, x) ==
  /\ took[d][x] # Untaken
  /\ \E to \in PutBack(x, took[d][x]) : Compare(d, x, to)

\* The second half: the expectation is what is there now.
AskRestore(d) ==
  /\ pc[d] = "compared"
  /\ LET r == req[d]
         from == [k \in DOMAIN r.to |-> files[r.path][k]] IN
     req' = [req EXCEPT ![d] = Transition("integrity-repair", r.path, from, r.to)]
  /\ pc' = [pc EXCEPT ![d] = "asked"]
  /\ UNCHANGED <<files, log, holder, todo, mine, resets, ctx, took, asks, crashes>>

-----------------------------------------------------------------------------
(* What an operator asks for.                                              *)

AskPark(h, m) ==
  /\ files[m].status \in {"queued", "active"}
  /\ Ask(h, Transition("human", m,
              [status |-> files[m].status, hold |-> files[m].hold],
              [status |-> "blocked", hold |-> "human"]))

\* --unpark --release-hold.
AskUnpark(h, m) ==
  /\ files[m].status = "blocked"
  /\ Ask(h, Transition("human", m,
              [status |-> "blocked", hold |-> files[m].hold],
              [status |-> "queued", hold |-> "none"]))

\* The rest of the same unpark: one transition per sub-plan that has strikes.
AskReset(h, s) ==
  /\ pc[h] = "idle" /\ s \in resets[h]
  /\ resets' = [resets EXCEPT ![h] = @ \ {s}]
  /\ IF files[s].auto_block_fails = 0 THEN UNCHANGED <<req, pc>>
     ELSE /\ req' = [req EXCEPT ![h] = Transition("human", s,
                       [auto_block_fails |-> files[s].auto_block_fails],
                       [auto_block_fails |-> 0])]
          /\ pc' = [pc EXCEPT ![h] = "asked"]
  /\ UNCHANGED <<files, log, holder, todo, mine, ctx, took, asks, crashes>>

\* return-reds: a verification red goes back into the owner's last step.
AskRevise(h, s) ==
  /\ ~Held(files[s]) /\ files[s].contract < MaxEdits
  /\ LET c == files[s]
         after == [c EXCEPT !.status = "in-progress", !.current_step = Steps - 1]
         changed == {k \in {"status", "current_step"} : c[k] # after[k]}
         keys == IF changed = {} THEN {"status"} ELSE changed
     IN  Ask(h, [Transition("legacy-verification-return", s,
                   [k \in keys |-> c[k]], [k \in keys |-> after[k]])
                 EXCEPT !.op = "revise", !.digest = c])

-----------------------------------------------------------------------------
(* transition() itself, under the lock.                                    *)


\* Mutant of Acquire: a shared lock, which never waits for the holder.
AcquireShared(p) ==
  /\ pc[p] = "asked"
  /\ holder' = p
  /\ pc' = [pc EXCEPT ![p] = "guards"]
  /\ todo' = [todo EXCEPT ![p] = DOMAIN req[p].guards]
  /\ UNCHANGED <<files, log, req, mine, resets, ctx, took, asks, crashes>>

Acquire(p) ==
  /\ pc[p] = "asked" /\ holder = Nobody
  /\ holder' = p
  /\ pc' = [pc EXCEPT ![p] = "guards"]
  /\ todo' = [todo EXCEPT ![p] = DOMAIN req[p].guards]
  /\ UNCHANGED <<files, log, req, mine, resets, ctx, took, asks, crashes>>

\* Mutant of Leave: the lock is released only by the death of its owner.
LeaveHolding(p, left) ==
  /\ pc' = [pc EXCEPT ![p] = "idle"]
  /\ req' = [req EXCEPT ![p] = NoReq]
  /\ todo' = [todo EXCEPT ![p] = {}]
  /\ mine' = [mine EXCEPT ![p] = 0]
  /\ resets' = [resets EXCEPT ![p] = left]
  /\ UNCHANGED <<files, holder, ctx, took, asks, crashes>>

\* Leave the critical section.  An exception also ends an unpark's resets.
Leave(p, left) ==
  /\ holder' = Nobody
  /\ pc' = [pc EXCEPT ![p] = "idle"]
  /\ req' = [req EXCEPT ![p] = NoReq]
  /\ todo' = [todo EXCEPT ![p] = {}]
  /\ mine' = [mine EXCEPT ![p] = 0]
  /\ resets' = [resets EXCEPT ![p] = left]
  /\ UNCHANGED <<files, ctx, took, asks, crashes>>

GuardHolds(r, g) ==
  /\ Matches(files[g], r.guards[g])
  /\ Held(files[g]) => r.actor = "human"


\* Mutant of CheckGuard: the guard's journal is recovered, its state not compared.
CheckGuardLoosely(p, g) ==
  /\ pc[p] = "guards" /\ req[p].op # "freeze" /\ g \in todo[p]
  /\ Explicable(log, g, files[g])
  /\ log' = Recovered(log, g, files[g])
  /\ todo' = [todo EXCEPT ![p] = @ \ {g}]
  /\ UNCHANGED <<files, holder, pc, req, mine, resets, ctx, took, asks, crashes>>

CheckGuard(p, g) ==
  /\ pc[p] = "guards" /\ req[p].op # "freeze" /\ g \in todo[p]
  /\ Explicable(log, g, files[g])
  /\ GuardHolds(req[p], g)
  /\ log' = Recovered(log, g, files[g])
  /\ todo' = [todo EXCEPT ![p] = @ \ {g}]
  /\ UNCHANGED <<files, holder, pc, req, mine, resets, ctx, took, asks, crashes>>

RefuseGuard(p, g) ==
  /\ pc[p] = "guards" /\ req[p].op # "freeze" /\ g \in todo[p]
  /\ \/ ~Explicable(log, g, files[g]) /\ UNCHANGED log
     \/ /\ Explicable(log, g, files[g]) /\ ~GuardHolds(req[p], g)
        /\ log' = Recovered(log, g, files[g])
  /\ Leave(p, {})

\* A quarantine that counted strikes may be lifted after a green gate.
Releases(r, c) ==
  /\ r.release
  /\ c.status = "blocked" /\ c.hold # "human" /\ c.auto_block_fails > 0
  /\ Matches(c, r.from)
  /\ r.to = [status |-> "in-progress", auto_block_fails |-> 0]

\* Mutant of Repairs: the actor alone authorises, as for a restore before holds
\* were kept.
RepairsBlindly(r, c) ==
  /\ r.actor = "integrity-repair"
  /\ DOMAIN r.to \subseteq {"status", "hold"}

\* Integrity repair touches no pointer and erases no human hold.
Repairs(r, c) ==
  /\ r.actor = "integrity-repair"
  /\ DOMAIN r.to \subseteq {"status", "hold"}
  /\ c.hold = "human" => ("hold" \in DOMAIN r.to => r.to.hold = "human")

Authorised(r, c) ==
  /\ r.release => Releases(r, c)
  /\ r.actor = "integrity-repair" => Repairs(r, c)
  /\ Held(c) => r.actor = "human" \/ Releases(r, c) \/ Repairs(r, c)

Permitted(r, c) ==
  CASE r.op = "transition" -> /\ r.digest \in {NoDigest, c}
                              /\ Matches(c, r.from)
                              /\ Authorised(r, c)
    [] r.op = "revise"     -> r.digest = c /\ ~Held(c)
    [] r.op = "projection" -> r.digest = c

NewContent(r, c) ==
  [Project(c, r.to) EXCEPT !.notes = @ + r.note,
                           !.contract = @ + (IF r.op = "revise" THEN 1 ELSE 0)]

Intent(r, c, id) ==
  [id |-> id, path |-> r.path, actor |-> r.actor, from |-> r.from, to |-> r.to,
   before |-> c, after |-> NewContent(r, c), phase |-> "intent"]

AtTarget(p) == pc[p] = "guards" /\ todo[p] = {} /\ req[p].op # "freeze"

\* Bytes nobody can explain, a stale expectation, a hold, or nothing to change.
Decline(p) ==
  /\ AtTarget(p)
  /\ LET r == req[p]
         c == files[r.path] IN
     \/ ~Explicable(log, r.path, c) /\ UNCHANGED log /\ Leave(p, {})
     \/ /\ Explicable(log, r.path, c) /\ ~Permitted(r, c)
        /\ log' = Recovered(log, r.path, c) /\ Leave(p, {})
     \/ /\ Explicable(log, r.path, c) /\ Permitted(r, c) /\ NewContent(r, c) = c
        /\ log' = Recovered(log, r.path, c) /\ Leave(p, resets[p])

WriteIntent(p) ==
  /\ AtTarget(p)
  /\ LET r == req[p]
         c == files[r.path]
         recovered == Recovered(log, r.path, c) IN
     /\ Explicable(log, r.path, c) /\ Permitted(r, c) /\ NewContent(r, c) # c
     /\ log' = Append(recovered, Intent(r, c, Len(recovered) + 1))
     /\ mine' = [mine EXCEPT ![p] = Len(recovered) + 1]
  /\ pc' = [pc EXCEPT ![p] = "intended"]
  /\ UNCHANGED <<files, holder, req, todo, resets, ctx, took, asks, crashes>>

\* os.replace of the prepared temporary file.
Replace(p) ==
  /\ pc[p] = "intended"
  /\ files' = [files EXCEPT ![req[p].path] = log[mine[p]].after]
  /\ pc' = [pc EXCEPT ![p] = "replaced"]
  /\ UNCHANGED <<log, holder, req, todo, mine, resets, ctx, took, asks, crashes>>

\* An unpark of the dispatched master goes on to its sub-plans' strikes.
Unparks(r) ==
  /\ r.actor = "human" /\ r.path = Master
  /\ "status" \in DOMAIN r.to /\ r.to.status = "queued"

Finish(p) ==
  /\ pc[p] = "replaced"
  /\ log' = Append(log, Completion(log[mine[p]], "applied"))
  /\ Leave(p, IF Unparks(req[p]) THEN Subs ELSE resets[p])

-----------------------------------------------------------------------------
(* resolve_context: one consistent observation under the same lock.        *)

BeginFreeze(d) ==
  /\ pc[d] = "idle" /\ holder = Nobody
  /\ asks < MaxAsks
  /\ holder' = d
  /\ pc' = [pc EXCEPT ![d] = "guards"]
  /\ req' = [req EXCEPT ![d] = [op |-> "freeze",
               snap |-> [x \in Frozen |-> OwnedState(files[x])],
               contract |-> [x \in Frozen |-> files[x].contract]]]
  /\ todo' = [todo EXCEPT ![d] = Frozen]
  /\ asks' = asks + 1
  /\ UNCHANGED <<files, log, mine, resets, ctx, took, crashes>>

\* _recover of one snapshotted plan.
RecoverSnapshot(d, x) ==
  /\ pc[d] = "guards" /\ req[d].op = "freeze" /\ x \in todo[d]
  /\ Explicable(log, x, files[x])
  /\ log' = Recovered(log, x, files[x])
  /\ todo' = [todo EXCEPT ![d] = @ \ {x}]
  /\ UNCHANGED <<files, holder, pc, req, mine, resets, ctx, took, asks, crashes>>

RefuseSnapshot(d, x) ==
  /\ pc[d] = "guards" /\ req[d].op = "freeze" /\ x \in todo[d]
  /\ ~Explicable(log, x, files[x])
  /\ UNCHANGED log
  /\ Leave(d, {})


\* Mutant of Freeze: the cursor is not moved to the end of the journal.
FreezeFromStart(d) ==
  /\ pc[d] = "guards" /\ req[d].op = "freeze" /\ todo[d] = {}
  /\ ctx' = [ctx EXCEPT ![d] = [cursor |-> 0, snap |-> req[d].snap,
                                contract |-> req[d].contract]]
  /\ took' = [took EXCEPT ![d] = [x \in Frozen |-> Untaken]]
  /\ holder' = Nobody
  /\ pc' = [pc EXCEPT ![d] = "idle"]
  /\ req' = [req EXCEPT ![d] = NoReq]
  /\ UNCHANGED <<files, log, todo, mine, resets, asks, crashes>>

Freeze(d) ==
  /\ pc[d] = "guards" /\ req[d].op = "freeze" /\ todo[d] = {}
  /\ ctx' = [ctx EXCEPT ![d] = [cursor |-> Len(log), snap |-> req[d].snap,
                                contract |-> req[d].contract]]
  /\ took' = [took EXCEPT ![d] = [x \in Frozen |-> Untaken]]
  /\ holder' = Nobody
  /\ pc' = [pc EXCEPT ![d] = "idle"]
  /\ req' = [req EXCEPT ![d] = NoReq]
  /\ UNCHANGED <<files, log, todo, mine, resets, asks, crashes>>

-----------------------------------------------------------------------------

\* The process is killed, or an OSError leaves the critical section; what is
\* in the journal and in the files stays.
Crash(p) ==
  /\ pc[p] # "idle" /\ crashes < MaxCrashes
  /\ crashes' = crashes + 1
  /\ holder' = IF holder = p THEN Nobody ELSE holder
  /\ pc' = [pc EXCEPT ![p] = "idle"]
  /\ req' = [req EXCEPT ![p] = NoReq]
  /\ todo' = [todo EXCEPT ![p] = {}]
  /\ mine' = [mine EXCEPT ![p] = 0]
  /\ resets' = [resets EXCEPT ![p] = {}]
  /\ UNCHANGED <<files, log, ctx, took, asks>>

DriverAsks(d) ==
  \/ \E s \in Subs : AskAdvance(d, s) \/ AskShip(d, s) \/ AskStrike(d, s) \/ AskPass(d, s)
  \/ \E s \in Subs, red \in 0 .. Steps : AskRollback(d, s, red)
  \/ \E x \in Frozen : AskNote(d, x)
  \/ AskComplete(d) \/ AskAutoPark(d) \/ AskProjection(d)
  \/ \E x \in Frozen : TakeSnapshot(d, x) \/ CompareWithSnapshot(d, x)
  \/ AskRestore(d)
  \/ BeginFreeze(d)

HumanAsks(h) ==
  \/ \E m \in {Master} \cup Foreign : AskPark(h, m) \/ AskUnpark(h, m)
  \/ \E s \in Subs : AskReset(h, s) \/ AskRevise(h, s)

\* What a client does once it has decided what it wants.
Serve(p) ==
  \/ Acquire(p)
  \/ \E g \in todo[p] : CheckGuard(p, g) \/ RefuseGuard(p, g)
                        \/ RecoverSnapshot(p, g) \/ RefuseSnapshot(p, g)
  \/ Decline(p) \/ WriteIntent(p) \/ Replace(p) \/ Finish(p) \/ Freeze(p)

Next ==
  \/ \E d \in Drivers : DriverAsks(d)
  \/ \E h \in Humans : HumanAsks(h)
  \/ \E p \in Procs : Serve(p) \/ Crash(p)

Spec == Init /\ [][Next]_vars

\* A client that holds the lock keeps running or dies; flock wakes waiters.
Fairness == \A p \in Procs : WF_vars(Serve(p)) /\ SF_vars(Acquire(p))

FairSpec == Spec /\ Fairness

-----------------------------------------------------------------------------
(* What the journal and the lock promise.                                  *)

Partial(f) ==
  /\ DOMAIN f \subseteq OwnedFields
  /\ "status" \in DOMAIN f => f.status \in Statuses
  /\ "current_step" \in DOMAIN f => f.current_step \in Nat
  /\ "hold" \in DOMAIN f => f.hold \in Holds
  /\ "auto_block_fails" \in DOMAIN f => f.auto_block_fails \in Nat

RowOK(rows, i) ==
  LET row == rows[i] IN
  /\ row.path \in Paths /\ row.phase \in Phases
  /\ row.before \in Contents /\ row.after \in Contents
  /\ Partial(row.from) /\ Partial(row.to)
  /\ IsIntent(row) => row.id = i
  /\ ~IsIntent(row) => /\ row.id \in 1 .. (i - 1)
                       /\ IsIntent(rows[row.id])
                       /\ row = Completion(rows[row.id], row.phase)

JournalOK(rows) ==
  /\ rows \in Seq({rows[i] : i \in DOMAIN rows})
  /\ \A i \in DOMAIN rows : RowOK(rows, i)

\* Every file is a plan, every journal row a well-formed intent or the
\* completion of an earlier one (plan_state.audit_context refuses others).
TypeOK ==
  /\ files \in [Paths -> Contents]
  /\ JournalOK(log)
  /\ holder \in Procs \cup {Nobody}
  /\ pc \in [Procs -> {"idle", "compared", "asked", "guards", "intended", "replaced"}]
  /\ todo \in [Procs -> SUBSET Paths] /\ mine \in [Procs -> Nat]
  /\ resets \in [Procs -> SUBSET Subs]
  /\ asks \in Nat /\ crashes \in Nat

InCriticalSection(p) == pc[p] \in {"guards", "intended", "replaced"}

\* The flock of plan_state._lock: a client is in the critical section exactly
\* when it owns the lock, so two never are, whoever crashes.
MutualExclusion ==
  \A p \in Procs : InCriticalSection(p) <=> holder = p

\* Positions of the journal's intents on a path that changed the file.
Written(x) ==
  {i \in DOMAIN log : /\ IsIntent(log[i]) /\ log[i].path = x
                      /\ \/ \E j \in DOMAIN log : Completes(log, i, j) /\ Wrote(log[j])
                         \/ i \in Pending(log, x) /\ files[x] = log[i].after}

\* A path never has two intents open: transition recovers before it writes
\* ahead, so _recover never has to choose between explanations.
OnePending == \A x \in Paths : \A i, j \in Pending(log, x) : i = j

\* What the latest of a path's effective writes w left in its file.
LastAfter(w, x) ==
  IF w = {} THEN Queued[x] ELSE log[CHOOSE j \in w : \A k \in w : k <= j].after

\* No lost update and no invented one: the journal's effective writes of a
\* path form a chain from the queued plan to the bytes now on disk, across
\* crashes and late recovery.
JournalExplainsFiles ==
  \A x \in Paths :
    /\ \A i \in Written(x) : log[i].before = LastAfter({j \in Written(x) : j < i}, x)
    /\ files[x] = LastAfter(Written(x), x)

\* Between its intent and its replacement a client's checks stay true: the
\* file has the bytes the new ones were computed from, and the guards hold.
\* This is what lets transition() check first and write later.
ChecksStillHold ==
  \A p \in Procs : pc[p] = "intended" =>
    LET r == req[p] IN
    /\ mine[p] = Len(log) /\ log[mine[p]] = Intent(r, files[r.path], Len(log))
    /\ Permitted(r, files[r.path])
    /\ \A g \in DOMAIN r.guards : GuardHolds(r, g)

\* Compare-and-set: at the moment a plan file changes, the request that
\* changes it still matches the file, its digest, and every one of its guards.
CompareAndSet ==
  [][\A x \in Paths : files'[x] # files[x] =>
       \E p \in Procs :
         /\ pc[p] = "intended" /\ req[p].path = x
         /\ Permitted(req[p], files[x])
         /\ \A g \in DOMAIN req[p].guards : GuardHolds(req[p], g)]_vars

\* Nobody but an operator changes the owned state of a plan an operator holds:
\* an integrity repair may put its status back, and keeps the hold, the pointer
\* and the strikes.  A driver advances a sub-plan only while neither it nor its
\* master is held and the master is still as it was when the driver froze its
\* context ("Human holds cannot be lifted or progressed by driver calls").
HoldsStand ==
  [][\A x \in Paths :
       /\ files[x].hold = "human" /\ OwnedState(files'[x]) # OwnedState(files[x])
            => \/ holder \in Humans
               \/ /\ req[holder].actor = "integrity-repair"
                  /\ OwnedState(files'[x]) = [OwnedState(files[x]) EXCEPT
                                                !.status = files'[x].status]
       /\ x \in Subs /\ holder \in Drivers
          /\ files'[x].current_step > files[x].current_step
            => /\ ~Held(files[x]) /\ ~Held(files[Master])
               /\ Matches(files[Master], ctx[holder].snap[Master])]_vars

\* The audit of a frozen iteration never accuses a state only transitions
\* made; without a crash it always answers "explained".
AuditExplains ==
  holder = Nobody =>
    \A d \in Drivers : Dispatched(d) =>
      LET result == AuditResult(log, ctx[d], files) IN
      /\ result # "unexplained"
      /\ crashes = 0 => result = "explained"

\* Every request is answered, applied or refused, unless its client dies.
Answered == \A p \in Procs : pc[p] = "asked" ~> pc[p] = "idle"
=============================================================================

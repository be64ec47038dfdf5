-------------------------- MODULE PlanState_proofs --------------------------
(***************************************************************************)
(* Proofs about PlanState for every set of plans and processes and every   *)
(* value of the bounds.  The inductive invariant adds to the type          *)
(* invariant what a client knows between the steps of its critical         *)
(* section: its request is well formed, the guards it has passed still     *)
(* hold, and the last journal row is its intent until it completes it.     *)
(* The second part proves that the journal explains the files (OnePending, *)
(* JournalExplainsFiles) and that PlanState implements AtomicPlans, the    *)
(* third what the audit of a frozen iteration answers (AuditExplains).     *)
(***************************************************************************)
EXTENDS PlanStateRefinement, SequenceTheorems, FiniteSetTheorems, WellFoundedInduction, TLAPS

RequestOK(r) ==
  \/ r.op = "freeze"
  \/ /\ r.op \in {"transition", "revise", "projection"}
     /\ r.path \in Paths /\ Partial(r.from) /\ Partial(r.to)
     /\ DOMAIN r.guards \subseteq Paths
     /\ r.note \in {0, 1}

RequestsOK ==
  /\ DOMAIN req = Procs
  /\ \A p \in Procs : /\ pc[p] # "idle" => RequestOK(req[p])
                      /\ pc[p] \in {"compared", "asked"} => req[p].op # "freeze"

PassedGuardsHold ==
  \A p \in Procs : pc[p] = "guards" /\ req[p].op # "freeze" =>
    \A g \in DOMAIN req[p].guards : g \in todo[p] \/ GuardHolds(req[p], g)

IntentIsLast ==
  \A p \in Procs : pc[p] \in {"intended", "replaced"} =>
    /\ req[p].op # "freeze"
    /\ mine[p] = Len(log) /\ mine[p] \in DOMAIN log
    /\ IsIntent(log[mine[p]])
    /\ log[mine[p]] = Intent(req[p], log[mine[p]].before, mine[p])

\* A snapshot holds the fields of a plan that its restore may write.
SnapshotsOK ==
  /\ DOMAIN took = Drivers
  /\ \A d \in Drivers :
       /\ DOMAIN took[d] = Frozen
       /\ \A x \in Frozen : took[d][x] # Untaken =>
            DOMAIN took[d][x] = Guarded(x) /\ Partial(took[d][x])

\* What needs no checks of the files, and what the clients have checked: a
\* writer that ignores the lock leaves the first alone.
LockInv == TypeOK /\ MutualExclusion /\ RequestsOK /\ IntentIsLast

Checked == PassedGuardsHold /\ ChecksStillHold

IInv == LockInv /\ SnapshotsOK /\ Checked

Keeps == LockInv' /\ (Checked => Checked')

-----------------------------------------------------------------------------
(* Contents: what a projection keeps.                                      *)

\* The bytes a permitted request writes are again those of a plan.
LEMMA NewContentIsContent ==
  ASSUME NEW r, NEW c \in Contents, Partial(r.to), r.note \in {0, 1}
  PROVE  NewContent(r, c) \in Contents
<1> DEFINE q == Project(c, r.to)
<1>1. /\ DOMAIN c = {"status", "current_step", "hold", "auto_block_fails", "contract", "notes"}
      /\ c.status \in Statuses /\ c.current_step \in Nat /\ c.hold \in Holds
      /\ c.auto_block_fails \in Nat /\ c.contract \in Nat /\ c.notes \in Nat
  BY DEF Contents
<1>2. q = [status |-> q.status, current_step |-> q.current_step, hold |-> q.hold,
           auto_block_fails |-> q.auto_block_fails, contract |-> q.contract,
           notes |-> q.notes]
  BY <1>1 DEF Project
<1>3. /\ q.status \in Statuses /\ q.current_step \in Nat /\ q.hold \in Holds
      /\ q.auto_block_fails \in Nat /\ q.contract \in Nat /\ q.notes \in Nat
  BY <1>1 DEF Project, Partial, OwnedFields
<1>4. q \in Contents
  BY <1>2, <1>3 DEF Contents
<1> HIDE DEF q
<1>5. /\ q.notes + r.note \in Nat
      /\ q.contract + (IF r.op = "revise" THEN 1 ELSE 0) \in Nat
  BY <1>3
<1>6. NewContent(r, c) = [q EXCEPT !.notes = @ + r.note,
                              !.contract = @ + (IF r.op = "revise" THEN 1 ELSE 0)]
  BY DEF NewContent, q
<1> QED BY <1>4, <1>5, <1>6 DEF Contents

-----------------------------------------------------------------------------
(* The journal: what appending keeps.                                      *)

Extends(new, old) ==
  /\ Len(old) <= Len(new)
  /\ \A i \in 1 .. Len(old) : new[i] = old[i]

LEMMA JournalIsSeq ==
  ASSUME NEW rows, JournalOK(rows)
  PROVE  /\ Len(rows) \in Nat /\ DOMAIN rows = 1 .. Len(rows)
         /\ rows \in Seq({rows[i] : i \in DOMAIN rows})
  BY DEF JournalOK

\* Appending one row.
LEMMA AppendRow ==
  ASSUME NEW rows, JournalOK(rows), NEW row
  PROVE  LET new == Append(rows, row) IN
         /\ Len(new) = Len(rows) + 1 /\ DOMAIN new = 1 .. Len(new)
         /\ Extends(new, rows) /\ new[Len(rows) + 1] = row
         /\ new \in Seq({new[i] : i \in DOMAIN new})
<1> DEFINE S == {rows[i] : i \in DOMAIN rows} \cup {row}
           new == Append(rows, row)
<1>1. rows \in Seq(S) /\ row \in S
  BY DEF JournalOK
<1> HIDE DEF S
<1>2. /\ new \in Seq(S) /\ Len(new) = Len(rows) + 1 /\ new[Len(rows) + 1] = row
      /\ \A i \in 1 .. Len(rows) : new[i] = rows[i]
  BY <1>1, AppendProperties
<1>3. Len(rows) \in Nat /\ DOMAIN new = 1 .. Len(new)
  BY <1>1, <1>2
<1>4. new \in Seq({new[i] : i \in DOMAIN new})
  BY <1>2, <1>3
<1> QED BY <1>2, <1>3, <1>4 DEF Extends

\* A well-formed intent, or a completion of an earlier intent, keeps the
\* journal well formed.
LEMMA AppendKeepsJournal ==
  ASSUME NEW rows, JournalOK(rows), NEW row,
         row.path \in Paths, row.phase \in Phases,
         row.before \in Contents, row.after \in Contents,
         Partial(row.from), Partial(row.to),
         \/ IsIntent(row) /\ row.id = Len(rows) + 1
         \/ /\ ~IsIntent(row) /\ row.id \in 1 .. Len(rows)
            /\ IsIntent(rows[row.id]) /\ row = Completion(rows[row.id], row.phase)
  PROVE  JournalOK(Append(rows, row))
<1> DEFINE new == Append(rows, row)
<1>1. /\ Len(new) = Len(rows) + 1 /\ DOMAIN new = 1 .. Len(new)
      /\ \A i \in 1 .. Len(rows) : new[i] = rows[i]
      /\ new[Len(rows) + 1] = row
      /\ new \in Seq({new[i] : i \in DOMAIN new})
  BY AppendRow DEF Extends
<1>2. Len(rows) \in Nat /\ DOMAIN rows = 1 .. Len(rows)
  BY JournalIsSeq
<1> HIDE DEF new
<1>3. ASSUME NEW i \in 1 .. Len(rows) PROVE RowOK(new, i)
  <2>1. RowOK(rows, i) /\ new[i] = rows[i]
    BY <1>1, <1>2 DEF JournalOK
  <2>2. ASSUME ~IsIntent(rows[i])
        PROVE  rows[i].id \in 1 .. Len(rows) /\ new[rows[i].id] = rows[rows[i].id]
    BY <2>1, <2>2, <1>1, <1>2 DEF RowOK
  <2> QED BY <2>1, <2>2 DEF RowOK
<1>4. RowOK(new, Len(rows) + 1)
  BY <1>1, <1>2 DEF RowOK
<1>5. \A i \in DOMAIN new : RowOK(new, i)
  BY <1>1, <1>2, <1>3, <1>4
<1> QED BY <1>1, <1>5 DEF JournalOK, new

\* The completion of an intent of the journal may be appended.
LEMMA CompletionKeepsJournal ==
  ASSUME NEW rows, JournalOK(rows), NEW i \in 1 .. Len(rows), IsIntent(rows[i]),
         NEW phase \in Phases \ {"intent"}
  PROVE  JournalOK(Append(rows, Completion(rows[i], phase)))
<1> DEFINE row == Completion(rows[i], phase)
<1>1. RowOK(rows, i) /\ DOMAIN rows = 1 .. Len(rows)
  BY JournalIsSeq DEF JournalOK
<1>2. /\ row.path \in Paths /\ row.phase = phase /\ row.id = i
      /\ row.before \in Contents /\ row.after \in Contents
      /\ Partial(row.from) /\ Partial(row.to)
  BY <1>1 DEF RowOK, Completion
<1>3. ~IsIntent(row) /\ row = Completion(rows[row.id], row.phase)
  BY <1>2 DEF IsIntent
<1> HIDE DEF row
<1>4. row.phase \in Phases /\ row.id \in 1 .. Len(rows) /\ IsIntent(rows[row.id])
  BY <1>2
<1>5. JournalOK(Append(rows, row))
  BY <1>2, <1>3, <1>4, AppendKeepsJournal
<1> QED BY <1>5 DEF row

\* Recovery keeps the journal well formed and only appends to it.
LEMMA RecoveredKeepsJournal ==
  ASSUME NEW rows, JournalOK(rows), NEW path, NEW c
  PROVE  JournalOK(Recovered(rows, path, c))
<1>1. CASE Pending(rows, path) = {}
  BY <1>1 DEF Recovered
<1>2. CASE Pending(rows, path) # {}
  <2> DEFINE i == CHOOSE i \in Pending(rows, path) : TRUE
  <2>1. i \in Pending(rows, path)
    BY <1>2
  <2>2. i \in 1 .. Len(rows) /\ IsIntent(rows[i])
    BY <2>1, JournalIsSeq DEF Pending
  <2> HIDE DEF i
  <2>3. \E phase \in Phases \ {"intent"} : RecoveryRow(rows[i], c) = Completion(rows[i], phase)
    BY DEF RecoveryRow, Phases
  <2>4. JournalOK(Append(rows, RecoveryRow(rows[i], c)))
    BY <2>2, <2>3, CompletionKeepsJournal
  <2> QED BY <1>2, <2>4 DEF Recovered, i
<1> QED BY <1>1, <1>2

-----------------------------------------------------------------------------
(* Entering and leaving.                                                   *)

\* While one client is in the critical section every other is outside it.
LEMMA OthersOutside ==
  ASSUME TypeOK, MutualExclusion, NEW p \in Procs, InCriticalSection(p),
         NEW q \in Procs \ {p}
  PROVE  /\ holder = p /\ pc[q] \in {"idle", "compared", "asked"}
         /\ ~InCriticalSection(q)
<1>1. holder = p /\ holder # q /\ ~InCriticalSection(q)
  BY DEF MutualExclusion
<1> QED BY <1>1 DEF InCriticalSection, TypeOK

\* A client that leaves, whatever the reason, leaves the invariant behind.
LEMMA LeaveKeeps ==
  ASSUME LockInv, NEW p \in Procs, InCriticalSection(p),
         NEW left \in SUBSET Subs, Leave(p, left), JournalOK(log')
  PROVE  Keeps
<1> USE DEF LockInv, Keeps, Checked
<1>1. /\ pc \in [Procs -> {"idle", "compared", "asked", "guards", "intended", "replaced"}]
      /\ pc' = [pc EXCEPT ![p] = "idle"] /\ req' = [req EXCEPT ![p] = NoReq]
      /\ holder = p /\ holder' = Nobody /\ Nobody \notin Procs
      /\ UNCHANGED <<files, asks, crashes>>
  BY ProcsAssumption DEF TypeOK, Leave, MutualExclusion
<1>2. TypeOK'
  BY <1>1 DEF TypeOK, Leave
<1>3. \A q \in Procs : pc'[q] \in {"idle", "compared", "asked"}
  BY <1>1, OthersOutside
<1>4. MutualExclusion'
  BY <1>1, <1>3 DEF MutualExclusion, InCriticalSection
<1>5. RequestsOK'
  BY <1>1 DEF RequestsOK, RequestOK
<1>6. PassedGuardsHold' /\ IntentIsLast' /\ ChecksStillHold'
  BY <1>3 DEF PassedGuardsHold, IntentIsLast, ChecksStillHold
<1> QED BY <1>2, <1>4, <1>5, <1>6

\* Asking for a well-formed transition disturbs nobody.
LEMMA AskKeeps ==
  ASSUME LockInv, NEW p \in Procs, NEW r, RequestOK(r), r.op # "freeze",
         pc[p] \in {"idle", "compared"}, req' = [req EXCEPT ![p] = r],
         NEW to \in {"compared", "asked"}, pc' = [pc EXCEPT ![p] = to],
         resets' \in [Procs -> SUBSET Subs], asks' \in Nat,
         UNCHANGED <<files, log, holder, todo, mine, crashes>>
  PROVE  Keeps
<1> USE DEF LockInv, Keeps, Checked
<1>1. /\ pc \in [Procs -> {"idle", "compared", "asked", "guards", "intended", "replaced"}]
      /\ DOMAIN req = Procs
  BY DEF TypeOK, RequestsOK
<1>2. \A q \in Procs : q # p => pc'[q] = pc[q] /\ req'[q] = req[q]
  BY <1>1
<1>3. pc'[p] = to /\ req'[p] = r
  BY <1>1
<1>4. TypeOK'
  BY <1>1 DEF TypeOK
<1>5. MutualExclusion'
  BY <1>2, <1>3 DEF MutualExclusion, InCriticalSection
<1>6. RequestsOK'
  BY <1>1, <1>2, <1>3 DEF RequestsOK, RequestOK
<1>7. PassedGuardsHold => PassedGuardsHold'
  BY <1>2, <1>3 DEF PassedGuardsHold, GuardHolds
<1>8. IntentIsLast'
  BY <1>2, <1>3 DEF IntentIsLast
<1>9. ChecksStillHold => ChecksStillHold'
  <2> SUFFICES ASSUME ChecksStillHold, NEW q \in Procs, pc'[q] = "intended"
               PROVE  /\ mine[q] = Len(log)
                      /\ log[mine[q]] = Intent(req[q], files[req[q].path], Len(log))
                      /\ Permitted(req[q], files[req[q].path])
                      /\ \A g \in DOMAIN req[q].guards : GuardHolds(req[q], g)
                      /\ req'[q] = req[q]
    BY DEF ChecksStillHold, GuardHolds
  <2>1. q # p /\ pc[q] = "intended" /\ req'[q] = req[q]
    BY <1>2, <1>3
  <2> QED BY <2>1 DEF ChecksStillHold
<1> QED BY <1>4, <1>5, <1>6, <1>7, <1>8, <1>9

\* A step that touches nothing the invariant reads but the counters' types.
LEMMA StutterKeeps ==
  ASSUME LockInv, resets' \in [Procs -> SUBSET Subs],
         UNCHANGED <<files, log, holder, pc, req, todo, mine, asks, crashes>>
  PROVE  Keeps
<1> USE DEF LockInv, Keeps, Checked
<1>1. TypeOK'
  BY DEF TypeOK
<1>2. MutualExclusion'
  BY DEF MutualExclusion, InCriticalSection
<1>3. RequestsOK'
  BY DEF RequestsOK, RequestOK
<1>4. PassedGuardsHold => PassedGuardsHold'
  BY DEF PassedGuardsHold, GuardHolds
<1>5. IntentIsLast' /\ (ChecksStillHold => ChecksStillHold')
  BY DEF IntentIsLast, ChecksStillHold, GuardHolds
<1> QED BY <1>1, <1>2, <1>3, <1>4, <1>5

-----------------------------------------------------------------------------
(* The requests of every caller are well formed.                           *)

LEMMA FileFields ==
  ASSUME TypeOK, NEW x \in Paths
  PROVE  /\ files[x] \in Contents
         /\ files[x].status \in Statuses /\ files[x].current_step \in Nat
         /\ files[x].hold \in Holds /\ files[x].auto_block_fails \in Nat
  BY DEF TypeOK, Contents

LEMMA AskStep ==
  ASSUME LockInv, NEW p \in Procs, NEW r, RequestOK(r), r.op # "freeze", Ask(p, r)
  PROVE  Keeps
<1>1. resets' \in [Procs -> SUBSET Subs] /\ asks' \in Nat
  BY DEF LockInv, TypeOK, Ask
<1> QED BY <1>1, AskKeeps DEF Ask

\* A driver asks, freezes, or does a step of a snapshot's take or restore.
LEMMA DriverAskKinds ==
  ASSUME NEW d \in Drivers, DriverAsks(d)
  PROVE  \/ \E r : Ask(d, r)
         \/ BeginFreeze(d)
         \/ \E x \in Frozen : TakeSnapshot(d, x)
         \/ \E x \in Frozen : \E to : Compare(d, x, to)
         \/ AskRestore(d)
<1>1. ASSUME NEW x \in Frozen, CompareWithSnapshot(d, x) PROVE \E to : Compare(d, x, to)
  BY <1>1 DEF CompareWithSnapshot
<1>2. CASE \/ \E s \in Subs : AskAdvance(d, s) \/ AskShip(d, s) \/ AskStrike(d, s) \/ AskPass(d, s)
           \/ \E s \in Subs, red \in 0 .. Steps : AskRollback(d, s, red)
           \/ \E x \in Frozen : AskNote(d, x)
           \/ AskComplete(d) \/ AskAutoPark(d) \/ AskProjection(d)
  BY <1>2 DEF AskAdvance, AskShip, AskStrike, AskPass, AskRollback, AskNote,
              AskComplete, AskAutoPark, AskProjection
<1> QED BY <1>1, <1>2 DEF DriverAsks

\* Only freezing, taking and comparing change the snapshots, and a snapshot
\* holds what its plan held.
LEMMA SnapshotsStep ==
  ASSUME TypeOK, SnapshotsOK, [Next]_vars
  PROVE  SnapshotsOK'
<1>1. CASE UNCHANGED took
  BY <1>1 DEF SnapshotsOK
<1>2. ASSUME NEW d \in Drivers, NEW f, took' = [took EXCEPT ![d] = f], DOMAIN f = Frozen,
             \A x \in Frozen : f[x] # Untaken => DOMAIN f[x] = Guarded(x) /\ Partial(f[x])
      PROVE  SnapshotsOK'
  BY <1>2 DEF SnapshotsOK
<1>3. ASSUME NEW d \in Drivers, NEW x \in Frozen, NEW v, took' = [took EXCEPT ![d][x] = v],
             v # Untaken => DOMAIN v = Guarded(x) /\ Partial(v)
      PROVE  SnapshotsOK'
  <2> DEFINE f == [took[d] EXCEPT ![x] = v]
  <2>1. took' = [took EXCEPT ![d] = f] /\ DOMAIN f = Frozen
    BY <1>3 DEF SnapshotsOK
  <2>2. \A y \in Frozen : f[y] # Untaken => DOMAIN f[y] = Guarded(y) /\ Partial(f[y])
    BY <1>3 DEF SnapshotsOK
  <2> HIDE DEF f
  <2> QED BY <1>2, <2>1, <2>2
<1>4. ASSUME NEW d \in Drivers, DriverAsks(d) PROVE SnapshotsOK'
  <2>1. CASE (\E r : Ask(d, r)) \/ BeginFreeze(d) \/ AskRestore(d)
    BY <1>1, <2>1 DEF Ask, BeginFreeze, AskRestore
  <2>2. ASSUME NEW x \in Frozen, TakeSnapshot(d, x) PROVE SnapshotsOK'
    <3> DEFINE v == [k \in Guarded(x) |-> files[x][k]]
    <3>1. files[x].status \in Statuses /\ files[x].hold \in Holds
      BY FileFields DEF Paths
    <3>2. DOMAIN v = Guarded(x) /\ Partial(v)
      BY <3>1 DEF Guarded, Partial, OwnedFields
    <3>3. took' = [took EXCEPT ![d][x] = v]
      BY <2>2 DEF TakeSnapshot
    <3> HIDE DEF v
    <3> QED BY <1>3, <3>2, <3>3
  <2>3. ASSUME NEW x \in Frozen, NEW to, Compare(d, x, to) PROVE SnapshotsOK'
    BY <1>3, <2>3 DEF Compare
  <2> QED BY <1>4, <2>1, <2>2, <2>3, DriverAskKinds
<1>5. ASSUME NEW h \in Humans, HumanAsks(h) PROVE UNCHANGED took
  BY <1>5 DEF HumanAsks, AskPark, AskUnpark, AskReset, AskRevise, Ask
<1>6. ASSUME NEW p \in Procs, Serve(p), ~Freeze(p) PROVE UNCHANGED took
  BY <1>6 DEF Serve, Acquire, CheckGuard, RefuseGuard, RecoverSnapshot, RefuseSnapshot,
              Decline, WriteIntent, Replace, Finish, Leave
<1>7. ASSUME NEW p \in Procs, Freeze(p) PROVE SnapshotsOK'
  <2> DEFINE f == [x \in Frozen |-> Untaken]
  <2>1. took' = [took EXCEPT ![p] = f]
    BY <1>7 DEF Freeze
  <2>2. CASE p \in Drivers
    <3>1. DOMAIN f = Frozen /\ \A x \in Frozen : f[x] = Untaken
      OBVIOUS
    <3> HIDE DEF f
    <3> QED BY <1>2, <2>1, <2>2, <3>1
  <2>3. CASE p \notin Drivers
    BY <1>1, <2>1, <2>3 DEF SnapshotsOK
  <2> QED BY <2>2, <2>3
<1>8. ASSUME NEW p \in Procs, Crash(p) PROVE UNCHANGED took
  BY <1>8 DEF Crash
<1>9. CASE UNCHANGED vars
  BY <1>1, <1>9 DEF vars
<1> QED BY <1>1, <1>4, <1>5, <1>6, <1>7, <1>8, <1>9 DEF Next

\* What a restore writes back are fields of a plan.
LEMMA CompareKeeps ==
  ASSUME LockInv, NEW d \in Drivers, NEW x \in Frozen, NEW to, Partial(to), Compare(d, x, to)
  PROVE  Keeps
<1> DEFINE r == Transition("integrity-repair", x, Nothing, to)
<1>1. d \in Procs /\ x \in Paths /\ DOMAIN Nothing = {}
  BY DEF Procs, Paths, Nothing
<1>2. RequestOK(r) /\ r.op # "freeze"
  BY <1>1 DEF RequestOK, Transition, Partial, Nothing
<1>3. resets' \in [Procs -> SUBSET Subs] /\ asks' \in Nat
  BY DEF LockInv, TypeOK, Compare
<1>4. /\ pc[d] = "idle" /\ req' = [req EXCEPT ![d] = r] /\ pc' = [pc EXCEPT ![d] = "compared"]
      /\ UNCHANGED <<files, log, holder, todo, mine, crashes>>
  BY DEF Compare
<1> HIDE DEF r
<1> QED BY <1>1, <1>2, <1>3, <1>4, AskKeeps

\* What a restore puts back are the guarded fields, with values plans have.
LEMMA PutBackFits ==
  ASSUME TypeOK, SnapshotsOK, NEW d \in Drivers, NEW x \in Frozen, took[d][x] # Untaken,
         NEW to \in PutBack(x, took[d][x])
  PROVE  Partial(to) /\ DOMAIN to = Guarded(x)
<1> Master \in Paths /\ d \in Procs
  BY DEF Paths, Frozen, Procs
<1>1. CASE x = Master
  <2> DEFINE before == took[d][Master]
             now == files[Master]
             put(parked) == [k \in Guarded(Master) |->
                               IF k \in Accepted(before, now, parked) THEN now[k] ELSE before[k]]
  <2>1. PICK parked \in BOOLEAN : to = put(parked)
    BY <1>1 DEF PutBack, MasterBack
  <2>2. /\ Guarded(Master) = {"status", "hold"}
        /\ before.status \in Statuses /\ before.hold \in Holds
    BY <1>1 DEF SnapshotsOK, Guarded, Partial
  <2>3. now.status \in Statuses /\ now.hold \in Holds
    BY FileFields
  <2> HIDE DEF before, now
  <2>4. Partial(put(parked))
    BY <2>2, <2>3 DEF Partial, OwnedFields
  <2> QED BY <1>1, <2>1, <2>4
<1>2. CASE x # Master
  BY <1>2 DEF PutBack, StatusBack, SnapshotsOK
<1> QED BY <1>1, <1>2

\* The steps of a snapshot's take and restore.
LEMMA RestoringKeeps ==
  ASSUME LockInv, SnapshotsOK, NEW d \in Drivers,
         \/ \E x \in Frozen : TakeSnapshot(d, x) \/ CompareWithSnapshot(d, x)
         \/ AskRestore(d)
  PROVE  Keeps
<1> d \in Procs /\ TypeOK /\ Frozen \subseteq Paths /\ Master \in Frozen /\ Subs \subseteq Frozen
  BY DEF Procs, LockInv, Paths, Frozen
<1>1. ASSUME NEW x \in Frozen, TakeSnapshot(d, x) PROVE Keeps
  BY <1>1, StutterKeeps DEF TakeSnapshot, TypeOK
<1>2. ASSUME NEW x \in Frozen, CompareWithSnapshot(d, x) PROVE Keeps
  <2>1. PICK to \in PutBack(x, took[d][x]) : Compare(d, x, to)
    BY <1>2 DEF CompareWithSnapshot
  <2>2. Partial(to)
    BY <1>2, PutBackFits DEF CompareWithSnapshot
  <2> QED BY <2>1, <2>2, CompareKeeps
<1>3. CASE AskRestore(d)
  <2> DEFINE q == req[d]
             from == [k \in DOMAIN q.to |-> files[q.path][k]]
             r == Transition("integrity-repair", q.path, from, q.to)
  <2>1. /\ pc[d] = "compared" /\ q.op # "freeze"
        /\ q.path \in Paths /\ Partial(q.to)
    BY <1>3 DEF AskRestore, LockInv, RequestsOK, RequestOK
  <2>2. /\ files[q.path].status \in Statuses /\ files[q.path].current_step \in Nat
        /\ files[q.path].hold \in Holds /\ files[q.path].auto_block_fails \in Nat
    BY <2>1, FileFields
  <2>3. /\ req' = [req EXCEPT ![d] = r] /\ pc' = [pc EXCEPT ![d] = "asked"]
        /\ UNCHANGED <<files, log, holder, todo, mine, resets, asks, crashes>>
    BY <1>3 DEF AskRestore
  <2> HIDE DEF q
  <2>4. Partial(from)
    BY <2>1, <2>2 DEF Partial
  <2> HIDE DEF from
  <2>5. RequestOK(r) /\ r.op # "freeze"
    BY <2>1, <2>4 DEF RequestOK, Transition, Nothing
  <2>6. resets' \in [Procs -> SUBSET Subs] /\ asks' \in Nat
    BY <2>3 DEF TypeOK
  <2> HIDE DEF r
  <2> QED BY <2>1, <2>3, <2>5, <2>6, AskKeeps
<1> QED BY <1>1, <1>2, <1>3

LEMMA DriverAsksKeep ==
  ASSUME LockInv, SnapshotsOK, NEW d \in Drivers, DriverAsks(d), ~BeginFreeze(d)
  PROVE  Keeps
<1> d \in Procs /\ TypeOK /\ Subs \subseteq Paths /\ Master \in Paths
  BY DEF Procs, LockInv, Paths, Frozen
<1> Statuses = {"draft", "parked", "blocked", "pending", "in-progress", "queued", "active", "shipped"}
  BY DEF Statuses, HeldStatuses
<1> USE DEF Transition, RequestOK, Partial, OwnedFields, Nothing
<1>1. ASSUME NEW s \in Subs, AskAdvance(d, s) PROVE Keeps
  <2>1. files[s].current_step \in Nat /\ files[s].status \in Statuses
    BY FileFields
  <2> QED BY <1>1, <2>1, AskStep DEF AskAdvance
<1>2. ASSUME NEW s \in Subs, AskShip(d, s) PROVE Keeps
  BY <1>2, FileFields, AskStep DEF AskShip
<1>3. ASSUME NEW s \in Subs, AskStrike(d, s) PROVE Keeps
  <2>1. files[s].auto_block_fails \in Nat /\ files[s].status \in Statuses
    BY FileFields
  <2> QED BY <1>3, <2>1, AskStep DEF AskStrike
<1>4. ASSUME NEW s \in Subs, AskPass(d, s) PROVE Keeps
  <2>1. files[s].auto_block_fails \in Nat
    BY FileFields
  <2> QED BY <1>4, <2>1, AskStep DEF AskPass
<1>5. ASSUME NEW s \in Subs, NEW red \in 0 .. Steps, AskRollback(d, s, red) PROVE Keeps
  <2>1. files[s].current_step \in Nat /\ red \in Nat
    BY FileFields, BoundsAssumption
  <2> QED BY <1>5, <2>1, AskStep DEF AskRollback
<1>6. ASSUME NEW x \in Frozen, AskNote(d, x) PROVE Keeps
  <2> DEFINE same == [status |-> files[x].status]
             r == [Transition("integrity-repair", x, same, same)
                   EXCEPT !.note = 1, !.digest = files[x]]
  <2>1. files[x].status \in Statuses /\ x \in Paths
    BY FileFields DEF Paths
  <2>2. RequestOK(r) /\ r.op # "freeze"
    BY <2>1
  <2>3. Ask(d, r)
    BY <1>6 DEF AskNote
  <2> HIDE DEF r
  <2> QED BY <2>2, <2>3, AskStep
<1>7. ASSUME AskComplete(d) PROVE Keeps
  <2>1. files[Master].status \in Statuses
    BY FileFields
  <2> QED BY <1>7, <2>1, AskStep DEF AskComplete
<1>8. ASSUME AskAutoPark(d) PROVE Keeps
  BY <1>8, FileFields, AskStep DEF AskAutoPark
<1>9. ASSUME AskProjection(d) PROVE Keeps
  <2> DEFINE r == [Transition("driver", Master, Nothing, Nothing)
                   EXCEPT !.op = "projection", !.note = 1, !.digest = files[Master]]
  <2>1. DOMAIN Nothing = {}
    OBVIOUS
  <2>2. RequestOK(r) /\ r.op # "freeze"
    BY <2>1
  <2>3. Ask(d, r)
    BY <1>9 DEF AskProjection
  <2> HIDE DEF r
  <2> QED BY <2>2, <2>3, AskStep
<1> QED BY <1>1, <1>2, <1>3, <1>4, <1>5, <1>6, <1>7, <1>8, <1>9, RestoringKeeps DEF DriverAsks

LEMMA HumanAsksKeep ==
  ASSUME LockInv, NEW h \in Humans, HumanAsks(h)
  PROVE  Keeps
<1> /\ h \in Procs /\ TypeOK /\ DOMAIN req = Procs
    /\ Subs \subseteq Paths /\ Master \in Paths /\ Foreign \subseteq Paths
  BY DEF Procs, LockInv, Paths, Frozen, RequestsOK
<1> Statuses = {"draft", "parked", "blocked", "pending", "in-progress", "queued", "active", "shipped"}
  BY DEF Statuses, HeldStatuses
<1> Holds = {"none", "human"}
  BY DEF Holds
<1> USE DEF Transition, RequestOK, Partial, OwnedFields, Nothing
<1>1. ASSUME NEW m \in {Master} \cup Foreign, AskPark(h, m) PROVE Keeps
  <2>1. m \in Paths /\ files[m].status \in Statuses /\ files[m].hold \in Holds
    BY FileFields
  <2> QED BY <1>1, <2>1, AskStep DEF AskPark
<1>2. ASSUME NEW m \in {Master} \cup Foreign, AskUnpark(h, m) PROVE Keeps
  <2>1. m \in Paths /\ files[m].status \in Statuses /\ files[m].hold \in Holds
    BY FileFields
  <2> QED BY <1>2, <2>1, AskStep DEF AskUnpark
<1>3. ASSUME NEW s \in Subs, AskReset(h, s) PROVE Keeps
  <2> DEFINE r == Transition("human", s,
                    [auto_block_fails |-> files[s].auto_block_fails],
                    [auto_block_fails |-> 0])
  <2>1. resets' \in [Procs -> SUBSET Subs] /\ asks' \in Nat
    BY <1>3 DEF AskReset, TypeOK
  <2>2. CASE files[s].auto_block_fails = 0
    <3>1. /\ resets' \in [Procs -> SUBSET Subs]
          /\ UNCHANGED <<files, log, holder, pc, req, todo, mine, asks, crashes>>
      BY <1>3, <2>1, <2>2 DEF AskReset
    <3> QED BY <3>1, StutterKeeps
  <2>3. CASE files[s].auto_block_fails # 0
    <3>1. files[s].auto_block_fails \in Nat
      BY FileFields
    <3>2. RequestOK(r) /\ r.op # "freeze"
      BY <3>1
    <3>3. /\ pc[h] = "idle" /\ req' = [req EXCEPT ![h] = r]
          /\ pc' = [pc EXCEPT ![h] = "asked"]
          /\ UNCHANGED <<files, log, holder, todo, mine, crashes>>
      BY <1>3, <2>3 DEF AskReset
    <3> HIDE DEF r
    <3> QED BY <2>1, <3>2, <3>3, AskKeeps
  <2> QED BY <2>2, <2>3
<1>4. ASSUME NEW s \in Subs, AskRevise(h, s) PROVE Keeps
  <2> DEFINE c == files[s]
             after == [c EXCEPT !.status = "in-progress", !.current_step = Steps - 1]
             changed == {k \in {"status", "current_step"} : c[k] # after[k]}
             keys == IF changed = {} THEN {"status"} ELSE changed
             r == [Transition("legacy-verification-return", s,
                     [k \in keys |-> c[k]], [k \in keys |-> after[k]])
                   EXCEPT !.op = "revise", !.digest = c]
  <2>1. /\ c \in Contents /\ c.status \in Statuses /\ c.current_step \in Nat
        /\ Steps - 1 \in Nat
    BY FileFields, BoundsAssumption
  <2>2. after.status = "in-progress" /\ after.current_step = Steps - 1
    BY <2>1 DEF Contents
  <2>3. Ask(h, r)
    BY <1>4 DEF AskRevise
  <2>4. keys \subseteq {"status", "current_step"}
    OBVIOUS
  <2> HIDE DEF keys, after, c
  <2>5. Partial([k \in keys |-> c[k]]) /\ Partial([k \in keys |-> after[k]])
    BY <2>1, <2>2, <2>4
  <2>6. RequestOK(r) /\ r.op # "freeze"
    BY <2>5
  <2> HIDE DEF r
  <2> QED BY <2>3, <2>6, AskStep
<1> QED BY <1>1, <1>2, <1>3, <1>4 DEF HumanAsks

-----------------------------------------------------------------------------
(* The critical section.                                                   *)

\* Taking the free lock with all guards still to check.
LEMMA EnterKeeps ==
  ASSUME LockInv, NEW p \in Procs, holder = Nobody, holder' = p,
         pc' = [pc EXCEPT ![p] = "guards"], DOMAIN req' = Procs,
         \A q \in Procs \ {p} : req'[q] = req[q],
         RequestOK(req'[p]),
         todo' \in [Procs -> SUBSET Paths],
         req'[p].op # "freeze" => DOMAIN req'[p].guards \subseteq todo'[p],
         asks' \in Nat, UNCHANGED <<files, log, mine, resets, crashes>>
  PROVE  Keeps
<1> USE DEF LockInv, Keeps, Checked
<1>1. /\ pc \in [Procs -> {"idle", "compared", "asked", "guards", "intended", "replaced"}]
      /\ Nobody \notin Procs
  BY ProcsAssumption DEF TypeOK
<1>2. \A q \in Procs : pc[q] \in {"idle", "compared", "asked"}
  BY <1>1 DEF MutualExclusion, InCriticalSection
<1>3. \A q \in Procs \ {p} : pc'[q] \in {"idle", "compared", "asked"} /\ pc'[q] = pc[q]
  BY <1>1, <1>2
<1>4. pc'[p] = "guards"
  BY <1>1
<1>5. TypeOK'
  BY <1>1 DEF TypeOK
<1>6. MutualExclusion'
  BY <1>1, <1>3, <1>4 DEF MutualExclusion, InCriticalSection
<1>7. RequestsOK'
  BY <1>3, <1>4 DEF RequestsOK, RequestOK
<1>8. PassedGuardsHold'
  BY <1>3, <1>4 DEF PassedGuardsHold
<1>9. IntentIsLast' /\ ChecksStillHold'
  BY <1>3, <1>4 DEF IntentIsLast, ChecksStillHold
<1> QED BY <1>5, <1>6, <1>7, <1>8, <1>9

LEMMA AcquireKeeps ==
  ASSUME LockInv, NEW p \in Procs, Acquire(p)
  PROVE  Keeps
<1>1. req[p].op # "freeze" /\ RequestOK(req[p]) /\ DOMAIN req = Procs
  BY DEF LockInv, RequestsOK, Acquire
<1>2. DOMAIN req[p].guards \subseteq Paths
  BY <1>1 DEF RequestOK
<1>3. /\ todo' \in [Procs -> SUBSET Paths] /\ todo'[p] = DOMAIN req[p].guards
      /\ asks' \in Nat
  BY <1>2 DEF Acquire, LockInv, TypeOK
<1> QED BY <1>1, <1>3, EnterKeeps DEF Acquire, RequestOK

LEMMA BeginFreezeKeeps ==
  ASSUME LockInv, NEW d \in Drivers, BeginFreeze(d)
  PROVE  Keeps
<1>1. d \in Procs /\ Frozen \subseteq Paths /\ DOMAIN req = Procs
  BY DEF Procs, Paths, LockInv, RequestsOK
<1>2. todo' \in [Procs -> SUBSET Paths] /\ asks' \in Nat
  BY <1>1 DEF BeginFreeze, LockInv, TypeOK
<1>3. /\ DOMAIN req' = Procs /\ req'[d].op = "freeze"
      /\ \A q \in Procs \ {d} : req'[q] = req[q]
  BY <1>1 DEF BeginFreeze
<1> QED BY <1>1, <1>2, <1>3, EnterKeeps DEF BeginFreeze, RequestOK

\* Looking at one more guard or snapshot, whose journal is recovered.
LEMMA LookKeeps ==
  ASSUME LockInv, NEW p \in Procs, pc[p] = "guards", NEW x,
         log' = Recovered(log, x, files[x]),
         todo' = [todo EXCEPT ![p] = @ \ {x}],
         req[p].op = "freeze" \/ GuardHolds(req[p], x),
         UNCHANGED <<files, holder, pc, req, mine, resets, asks, crashes>>
  PROVE  Keeps
<1> USE DEF LockInv, Keeps, Checked
<1>1. InCriticalSection(p)
  BY DEF InCriticalSection
<1>2. \A q \in Procs \ {p} : pc[q] \in {"idle", "compared", "asked"}
  BY <1>1, OthersOutside
<1>3. TypeOK'
  BY RecoveredKeepsJournal DEF TypeOK
<1>4. MutualExclusion' /\ RequestsOK'
  BY DEF MutualExclusion, InCriticalSection, RequestsOK, RequestOK
<1>5. PassedGuardsHold => PassedGuardsHold'
  <2> SUFFICES ASSUME PassedGuardsHold, req[p].op # "freeze", NEW g \in DOMAIN req[p].guards, g \notin todo'[p]
               PROVE  GuardHolds(req[p], g)
    BY <1>2 DEF PassedGuardsHold, GuardHolds
  <2>1. g = x \/ g \notin todo[p]
    BY DEF TypeOK
  <2> QED BY <2>1 DEF PassedGuardsHold
<1>6. IntentIsLast' /\ ChecksStillHold'
  BY <1>2 DEF IntentIsLast, ChecksStillHold
<1> QED BY <1>3, <1>4, <1>5, <1>6

\* Writing the intent ahead.
LEMMA WriteIntentKeeps ==
  ASSUME LockInv, NEW p \in Procs, WriteIntent(p)
  PROVE  Keeps
<1> USE DEF LockInv, Keeps, Checked
<1> DEFINE r == req[p]
           c == files[r.path]
           recovered == Recovered(log, r.path, c)
           row == Intent(r, c, Len(recovered) + 1)
<1>1. /\ pc[p] = "guards" /\ todo[p] = {} /\ r.op # "freeze"
      /\ Permitted(r, c) /\ log' = Append(recovered, row)
      /\ mine' = [mine EXCEPT ![p] = Len(recovered) + 1]
      /\ pc' = [pc EXCEPT ![p] = "intended"]
      /\ UNCHANGED <<files, holder, req, todo, resets, asks, crashes>>
  BY DEF WriteIntent, AtTarget
<1>2. /\ RequestOK(r) /\ r.path \in Paths /\ c \in Contents
  BY <1>1 DEF RequestsOK, RequestOK, TypeOK
<1>3. JournalOK(recovered)
  BY RecoveredKeepsJournal DEF TypeOK
<1>4. NewContent(r, c) \in Contents /\ Partial(r.from) /\ Partial(r.to)
  BY <1>1, <1>2, NewContentIsContent DEF RequestOK
<1>5. /\ row.path \in Paths /\ row.phase \in Phases /\ row.before \in Contents
      /\ row.after \in Contents /\ Partial(row.from) /\ Partial(row.to)
      /\ IsIntent(row) /\ row.id = Len(recovered) + 1
  BY <1>2, <1>4 DEF Intent, IsIntent, Phases
<1>6. /\ mine \in [Procs -> Nat]
      /\ pc \in [Procs -> {"idle", "compared", "asked", "guards", "intended", "replaced"}]
  BY DEF TypeOK
<1>7. \A q \in Procs \ {p} : pc[q] \in {"idle", "compared", "asked"}
  BY <1>1, OthersOutside DEF InCriticalSection
<1>8. \A q \in Procs \ {p} : pc'[q] \in {"idle", "compared", "asked"} /\ pc'[q] = pc[q]
  BY <1>1, <1>6, <1>7
<1> HIDE DEF recovered, row
<1>9. /\ JournalOK(log') /\ Len(log') = Len(recovered) + 1 /\ Len(recovered) \in Nat
      /\ DOMAIN log' = 1 .. Len(log') /\ log'[Len(log')] = row
  BY <1>1, <1>3, <1>5, AppendKeepsJournal, AppendRow, JournalIsSeq
<1>10. mine'[p] = Len(log') /\ mine' \in [Procs -> Nat] /\ pc'[p] = "intended"
  BY <1>1, <1>6, <1>9
<1>11. TypeOK'
  BY <1>1, <1>6, <1>9, <1>10 DEF TypeOK
<1>12. MutualExclusion' /\ RequestsOK'
  BY <1>1, <1>8, <1>10 DEF MutualExclusion, InCriticalSection, RequestsOK, RequestOK
<1>13. PassedGuardsHold'
  BY <1>8, <1>10 DEF PassedGuardsHold
<1>14. IntentIsLast'
  <2>1. mine'[p] \in DOMAIN log' /\ IsIntent(log'[mine'[p]])
    BY <1>5, <1>9, <1>10
  <2>2. log'[mine'[p]] = Intent(r, log'[mine'[p]].before, mine'[p])
    BY <1>9, <1>10 DEF row, Intent
  <2> QED BY <1>1, <1>8, <1>10, <2>1, <2>2 DEF IntentIsLast
<1>15. PassedGuardsHold => ChecksStillHold'
  <2> SUFFICES ASSUME PassedGuardsHold PROVE ChecksStillHold'
    OBVIOUS
  <2>1. \A g \in DOMAIN r.guards : GuardHolds(r, g)
    BY <1>1 DEF PassedGuardsHold
  <2>2. log'[mine'[p]] = Intent(r, c, Len(log'))
    BY <1>9, <1>10 DEF row
  <2> QED BY <1>1, <1>8, <1>10, <2>1, <2>2 DEF ChecksStillHold, GuardHolds
<1> QED BY <1>11, <1>12, <1>13, <1>14, <1>15

\* The replacement writes the intent's bytes, and only to the target.
LEMMA ReplaceKeeps ==
  ASSUME LockInv, NEW p \in Procs, Replace(p)
  PROVE  Keeps
<1> USE DEF LockInv, Keeps, Checked
<1>1. /\ pc[p] = "intended" /\ mine[p] \in DOMAIN log
      /\ files' = [files EXCEPT ![req[p].path] = log[mine[p]].after]
      /\ pc' = [pc EXCEPT ![p] = "replaced"]
      /\ UNCHANGED <<log, holder, req, todo, mine, resets, asks, crashes>>
  BY DEF Replace, IntentIsLast
<1>2. log[mine[p]].after \in Contents
  BY <1>1 DEF TypeOK, JournalOK, RowOK
<1>3. pc \in [Procs -> {"idle", "compared", "asked", "guards", "intended", "replaced"}]
  BY DEF TypeOK
<1>4. \A q \in Procs \ {p} : pc[q] \in {"idle", "compared", "asked"}
  BY <1>1, OthersOutside DEF InCriticalSection
<1>5. pc'[p] = "replaced" /\ \A q \in Procs \ {p} : pc'[q] = pc[q]
  BY <1>1, <1>3
<1>6. TypeOK'
  BY <1>1, <1>2, <1>3 DEF TypeOK
<1>7. MutualExclusion' /\ RequestsOK'
  BY <1>1, <1>5 DEF MutualExclusion, InCriticalSection, RequestsOK, RequestOK
<1>8. PassedGuardsHold' /\ IntentIsLast' /\ ChecksStillHold'
  BY <1>1, <1>4, <1>5 DEF PassedGuardsHold, IntentIsLast, ChecksStillHold
<1> QED BY <1>6, <1>7, <1>8

\* The steps that end a critical section: refusals, the completion, the freeze.
LEMMA FinishKeeps ==
  ASSUME LockInv, NEW p \in Procs, Finish(p)
  PROVE  Keeps
<1>1. /\ TypeOK /\ pc[p] = "replaced" /\ InCriticalSection(p)
      /\ mine[p] \in DOMAIN log /\ IsIntent(log[mine[p]])
  BY DEF LockInv, IntentIsLast, Finish, InCriticalSection
<1>2. mine[p] \in 1 .. Len(log) /\ JournalOK(log)
  BY <1>1, JournalIsSeq DEF TypeOK
<1>3. "applied" \in Phases \ {"intent"}
  BY DEF Phases
<1>4. JournalOK(log')
  BY <1>1, <1>2, <1>3, CompletionKeepsJournal DEF Finish
<1>5. (IF Unparks(req[p]) THEN Subs ELSE resets[p]) \in SUBSET Subs
  BY <1>1 DEF TypeOK
<1> QED BY <1>1, <1>4, <1>5, LeaveKeeps DEF Finish

LEMMA RefusalKeeps ==
  ASSUME LockInv, NEW p \in Procs,
         \/ Decline(p)
         \/ \E x \in todo[p] : RefuseGuard(p, x) \/ RefuseSnapshot(p, x)
  PROVE  Keeps
<1>1. pc[p] = "guards" /\ InCriticalSection(p)
  BY DEF Decline, AtTarget, RefuseGuard, RefuseSnapshot, InCriticalSection
<1>2. \E left \in SUBSET Subs : Leave(p, left)
  BY DEF Decline, RefuseGuard, RefuseSnapshot, LockInv, TypeOK
<1>3. log' = log \/ \E x, c : log' = Recovered(log, x, c)
  BY DEF Decline, RefuseGuard, RefuseSnapshot
<1>4. JournalOK(log')
  BY <1>3, RecoveredKeepsJournal DEF LockInv, TypeOK
<1> QED BY <1>1, <1>2, <1>4, LeaveKeeps

LEMMA FreezeKeeps ==
  ASSUME LockInv, NEW p \in Procs, Freeze(p)
  PROVE  Keeps
<1> USE DEF LockInv, Keeps, Checked
<1>1. /\ pc[p] = "guards" /\ Nobody \notin Procs
      /\ pc' = [pc EXCEPT ![p] = "idle"] /\ req' = [req EXCEPT ![p] = NoReq]
      /\ holder' = Nobody
      /\ UNCHANGED <<files, log, todo, mine, resets, asks, crashes>>
  BY ProcsAssumption DEF Freeze
<1>2. pc \in [Procs -> {"idle", "compared", "asked", "guards", "intended", "replaced"}]
  BY DEF TypeOK
<1>3. pc'[p] = "idle" /\ \A q \in Procs \ {p} : pc'[q] \in {"idle", "compared", "asked"} /\ pc'[q] = pc[q]
  BY <1>1, <1>2, OthersOutside DEF InCriticalSection
<1>4. TypeOK'
  BY <1>1, <1>2 DEF TypeOK
<1>5. MutualExclusion' /\ RequestsOK'
  BY <1>1, <1>3 DEF MutualExclusion, InCriticalSection, RequestsOK, RequestOK
<1>6. PassedGuardsHold' /\ IntentIsLast' /\ ChecksStillHold'
  BY <1>3 DEF PassedGuardsHold, IntentIsLast, ChecksStillHold
<1> QED BY <1>4, <1>5, <1>6

\* A client may die anywhere: the lock goes with it, the rest stays.
LEMMA CrashKeeps ==
  ASSUME LockInv, NEW p \in Procs, Crash(p)
  PROVE  Keeps
<1> USE DEF LockInv, Keeps, Checked
<1>1. /\ pc \in [Procs -> {"idle", "compared", "asked", "guards", "intended", "replaced"}]
      /\ pc' = [pc EXCEPT ![p] = "idle"] /\ req' = [req EXCEPT ![p] = NoReq]
      /\ holder' = IF holder = p THEN Nobody ELSE holder
      /\ Nobody \notin Procs /\ DOMAIN req = Procs
      /\ UNCHANGED <<files, log, asks>>
  BY ProcsAssumption DEF Crash, TypeOK, RequestsOK
<1>2. pc'[p] = "idle" /\ \A q \in Procs \ {p} : pc'[q] = pc[q] /\ req'[q] = req[q]
  BY <1>1
<1>3. \A q \in Procs \ {p} :
        todo'[q] = todo[q] /\ mine'[q] = mine[q]
  BY DEF Crash, TypeOK
<1>4. TypeOK'
  BY <1>1 DEF TypeOK, Crash
<1>5. MutualExclusion'
  BY <1>1, <1>2 DEF MutualExclusion, InCriticalSection
<1>6. RequestsOK'
  BY <1>1, <1>2 DEF RequestsOK, RequestOK
<1>7. PassedGuardsHold => PassedGuardsHold'
  BY <1>1, <1>2, <1>3 DEF PassedGuardsHold, GuardHolds
<1>8. IntentIsLast'
  BY <1>1, <1>2, <1>3 DEF IntentIsLast
<1>9. ChecksStillHold => ChecksStillHold'
  <2> SUFFICES ASSUME ChecksStillHold, NEW q \in Procs, pc'[q] = "intended"
               PROVE  /\ mine'[q] = Len(log)
                      /\ log[mine'[q]] = Intent(req'[q], files[req'[q].path], Len(log))
                      /\ Permitted(req'[q], files[req'[q].path])
                      /\ \A g \in DOMAIN req'[q].guards : GuardHolds(req'[q], g)
    BY <1>1 DEF ChecksStillHold, GuardHolds
  <2>1. q # p /\ pc[q] = "intended" /\ req'[q] = req[q] /\ mine'[q] = mine[q]
    BY <1>2, <1>3
  <2> QED BY <2>1 DEF ChecksStillHold
<1> QED BY <1>4, <1>5, <1>6, <1>7, <1>8, <1>9

-----------------------------------------------------------------------------
(* The theorems.                                                           *)

LEMMA InitEstablishes == Init => IInv
<1> SUFFICES ASSUME Init PROVE IInv
  OBVIOUS
<1>1. \A x \in Paths : Queued[x] \in Contents
  BY DEF Queued, Fresh, Contents, Statuses, HeldStatuses, Holds
<1>2. JournalOK(<<>>)
  BY DEF JournalOK
<1>3. TypeOK
  BY <1>1, <1>2 DEF Init, TypeOK, Queued
<1>4. MutualExclusion
  BY ProcsAssumption DEF Init, MutualExclusion, InCriticalSection
<1>5. SnapshotsOK
  BY DEF Init, SnapshotsOK
<1> QED BY <1>3, <1>4, <1>5 DEF IInv, LockInv, Checked, Init, RequestsOK, PassedGuardsHold, IntentIsLast,
                        ChecksStillHold

LEMMA StepKeepsLock == LockInv /\ SnapshotsOK /\ [Next]_vars => Keeps
<1> SUFFICES ASSUME LockInv, SnapshotsOK, [Next]_vars PROVE Keeps
  OBVIOUS
<1>1. CASE UNCHANGED vars
  BY <1>1, StutterKeeps DEF vars, LockInv, TypeOK
<1>2. ASSUME NEW d \in Drivers, DriverAsks(d) PROVE Keeps
  BY <1>2, DriverAsksKeep, BeginFreezeKeeps
<1>3. ASSUME NEW h \in Humans, HumanAsks(h) PROVE Keeps
  BY <1>3, HumanAsksKeep
<1>4. ASSUME NEW p \in Procs, Crash(p) PROVE Keeps
  BY <1>4, CrashKeeps
<1>5. ASSUME NEW p \in Procs, Serve(p) PROVE Keeps
  <2>1. CASE Acquire(p)
    BY <2>1, AcquireKeeps
  <2>2. ASSUME NEW g \in todo[p], CheckGuard(p, g) \/ RecoverSnapshot(p, g) PROVE Keeps
    BY <2>2, LookKeeps DEF CheckGuard, RecoverSnapshot
  <2>3. ASSUME NEW g \in todo[p], RefuseGuard(p, g) \/ RefuseSnapshot(p, g) PROVE Keeps
    BY <2>3, RefusalKeeps
  <2>4. CASE Decline(p)
    BY <2>4, RefusalKeeps
  <2>5. CASE WriteIntent(p)
    BY <2>5, WriteIntentKeeps
  <2>6. CASE Replace(p)
    BY <2>6, ReplaceKeeps
  <2>7. CASE Finish(p)
    BY <2>7, FinishKeeps
  <2>8. CASE Freeze(p)
    BY <2>8, FreezeKeeps
  <2> QED BY <1>5, <2>1, <2>2, <2>3, <2>4, <2>5, <2>6, <2>7, <2>8 DEF Serve
<1> QED BY <1>1, <1>2, <1>3, <1>4, <1>5 DEF Next

LEMMA StepKeeps == IInv /\ [Next]_vars => IInv'
  BY StepKeepsLock, SnapshotsStep DEF IInv, Keeps, LockInv

\* The strengthened invariant holds of every reachable state: whatever the
\* plans, the clients and the bounds of the run.
THEOREM Inductive == Spec => []IInv
  BY InitEstablishes, StepKeeps, PTL DEF Spec

\* Every plan file stays a plan and every row of the journal a well-formed
\* intent or the completion of one (what audit_context relies on).
THEOREM TypeCorrect == Spec => []TypeOK
<1>1. IInv => TypeOK
  BY DEF IInv, LockInv
<1> QED BY <1>1, Inductive, PTL

\* plan_state._lock excludes: at most one client is between its acquisition
\* and its release, even when owners die.
THEOREM LockExcludes == Spec => []MutualExclusion
<1>1. IInv => MutualExclusion
  BY DEF IInv, LockInv
<1> QED BY <1>1, Inductive, PTL

\* What transition() checked before it wrote its intent ahead is still true
\* when it replaces the file.
THEOREM ChecksAreStable == Spec => []ChecksStillHold
<1>1. IInv => ChecksStillHold
  BY DEF IInv, LockInv, Checked
<1> QED BY <1>1, Inductive, PTL

\* Only os.replace of an intended content changes a plan file.
LEMMA FilesChangeByReplace ==
  ASSUME [Next]_vars
  PROVE  UNCHANGED files \/ \E p \in Procs : Replace(p)
<1>1. CASE UNCHANGED vars
  BY <1>1 DEF vars
<1>2. ASSUME NEW d \in Drivers, DriverAsks(d) PROVE UNCHANGED files
  BY <1>2, DriverAskKinds DEF Ask, BeginFreeze, TakeSnapshot, Compare, AskRestore
<1>3. ASSUME NEW h \in Humans, HumanAsks(h) PROVE UNCHANGED files
  BY <1>3 DEF HumanAsks, AskPark, AskUnpark, AskReset, AskRevise, Ask
<1>4. ASSUME NEW p \in Procs, Crash(p) PROVE UNCHANGED files
  BY <1>4 DEF Crash
<1>5. ASSUME NEW p \in Procs, Serve(p) PROVE UNCHANGED files \/ Replace(p)
  BY <1>5 DEF Serve, Acquire, CheckGuard, RefuseGuard, RecoverSnapshot,
              RefuseSnapshot, Decline, WriteIntent, Finish, Freeze, Leave
<1> QED BY <1>1, <1>2, <1>3, <1>4, <1>5 DEF Next

\* transition() is a compare-and-set over several files: a plan file changes
\* only while the request matches it, is permitted on it and all guards hold.
THEOREM ChangesAreCompareAndSet == Spec => CompareAndSet
<1> DEFINE Allowed ==
      \A x \in Paths : files'[x] # files[x] =>
        \E p \in Procs :
          /\ pc[p] = "intended" /\ req[p].path = x
          /\ Permitted(req[p], files[x])
          /\ \A g \in DOMAIN req[p].guards : GuardHolds(req[p], g)
<1>1. IInv /\ [Next]_vars => [Allowed]_vars
  <2> SUFFICES ASSUME IInv, [Next]_vars PROVE Allowed
    OBVIOUS
  <2>1. CASE UNCHANGED files
    BY <2>1
  <2>2. ASSUME NEW p \in Procs, Replace(p) PROVE Allowed
    <3>1. /\ pc[p] = "intended" /\ files \in [Paths -> Contents]
          /\ files' = [files EXCEPT ![req[p].path] = log[mine[p]].after]
      BY <2>2 DEF Replace, IInv, LockInv, TypeOK
    <3>2. /\ Permitted(req[p], files[req[p].path])
          /\ \A g \in DOMAIN req[p].guards : GuardHolds(req[p], g)
      BY <3>1 DEF IInv, LockInv, Checked, ChecksStillHold
    <3>3. \A x \in Paths : files'[x] # files[x] => req[p].path = x
      BY <3>1
    <3> QED BY <3>1, <3>2, <3>3
  <2>3. UNCHANGED files \/ \E p \in Procs : Replace(p)
    BY FilesChangeByReplace
  <2> QED BY <2>1, <2>2, <2>3
<1> HIDE DEF Allowed
<1>2. Spec => [][Allowed]_vars
  BY <1>1, Inductive, PTL DEF Spec
<1> QED BY <1>2 DEF CompareAndSet, Allowed

-----------------------------------------------------------------------------
(* A human hold stands (HoldsStand).  What is still true of a request when   *)
(* its file is replaced is shown above; what is added is which requests a    *)
(* driver can make at all: none in a human's name, no projection that        *)
(* changes a field, and no advance without a guard on the master as the      *)
(* driver froze it.                                                          *)

DriverRequest(r, c) ==
  r.op # "freeze" =>
    /\ r.op \in {"transition", "projection"} /\ r.actor # "human"
    /\ r.op = "projection" => DOMAIN r.to = {}
    /\ "current_step" \in DOMAIN r.to =>
         \/ "current_step" \in DOMAIN r.from /\ r.to.current_step < r.from.current_step
         \/ Master \in DOMAIN r.guards /\ r.guards[Master] = c.snap[Master]

DriversAskAsDrivers ==
  /\ DOMAIN ctx = Drivers
  /\ \A d \in Drivers :
       /\ pc[d] # "idle" => DriverRequest(req[d], ctx[d])
       /\ pc[d] = "compared" => "current_step" \notin DOMAIN req[d].to

\* It rests on no check of a guard, so an edit outside the journal leaves it.
AskInv == LockInv /\ SnapshotsOK /\ DriversAskAsDrivers

HInv == IInv /\ DriversAskAsDrivers

-----------------------------------------------------------------------------

\* A driver that asks as drivers do keeps the invariant.
LEMMA AskAsDriver ==
  ASSUME AskInv, NEW d \in Drivers, NEW r, DriverRequest(r, ctx[d]), Ask(d, r)
  PROVE  DriversAskAsDrivers'
<1>1. /\ d \in Procs /\ DOMAIN req = Procs /\ DOMAIN pc = Procs
      /\ Drivers \subseteq Procs /\ DOMAIN ctx = Drivers
      /\ req' = [req EXCEPT ![d] = r] /\ pc' = [pc EXCEPT ![d] = "asked"]
      /\ ctx' = ctx
  BY DEF AskInv, LockInv, RequestsOK, TypeOK, Procs, Ask, DriversAskAsDrivers
<1>2. \A q \in Drivers \ {d} : pc'[q] = pc[q] /\ req'[q] = req[q]
  BY <1>1
<1>3. req'[d] = r
  BY <1>1
<1> HIDE DEF DriverRequest
<1> QED BY <1>1, <1>2, <1>3 DEF AskInv, DriversAskAsDrivers, DriverRequest

\* So does one step of a snapshot's take or restore: no restore has a pointer.
LEMMA RestoringAsks ==
  ASSUME AskInv, NEW d \in Drivers,
         \/ \E x \in Frozen : TakeSnapshot(d, x) \/ CompareWithSnapshot(d, x)
         \/ AskRestore(d)
  PROVE  DriversAskAsDrivers'
<1>1. /\ DOMAIN req = Procs /\ DOMAIN pc = Procs /\ d \in Procs
      /\ Drivers \subseteq Procs /\ DOMAIN ctx = Drivers
      /\ pc[d] # "idle" => DriverRequest(req[d], ctx[d])
  BY DEF AskInv, LockInv, RequestsOK, TypeOK, Procs, DriversAskAsDrivers
<1>2. ASSUME NEW r, DriverRequest(r, ctx[d]), req' = [req EXCEPT ![d] = r],
             NEW s, pc' = [pc EXCEPT ![d] = s], ctx' = ctx,
             "current_step" \notin DOMAIN r.to
      PROVE  DriversAskAsDrivers'
  <2>1. req'[d] = r /\ \A q \in Drivers \ {d} : pc'[q] = pc[q] /\ req'[q] = req[q]
    BY <1>1, <1>2
  <2> HIDE DEF DriverRequest
  <2> QED BY <1>1, <1>2, <2>1 DEF AskInv, DriversAskAsDrivers
<1>3. ASSUME NEW x \in Frozen, NEW to, "current_step" \notin DOMAIN to, Compare(d, x, to)
      PROVE  DriversAskAsDrivers'
  <2> DEFINE r == Transition("integrity-repair", x, Nothing, to)
  <2>1. DriverRequest(r, ctx[d])
    BY <1>3 DEF DriverRequest, Transition
  <2>2. /\ req' = [req EXCEPT ![d] = r] /\ pc' = [pc EXCEPT ![d] = "compared"]
        /\ ctx' = ctx
    BY <1>3 DEF Compare
  <2>3. r.to = to
    BY DEF Transition
  <2> HIDE DEF r
  <2> QED BY <1>2, <1>3, <2>1, <2>2, <2>3
<1>4. ASSUME NEW x \in Frozen, TakeSnapshot(d, x) PROVE DriversAskAsDrivers'
  BY <1>4 DEF TakeSnapshot, AskInv, DriversAskAsDrivers, DriverRequest
<1>5. ASSUME NEW x \in Frozen, CompareWithSnapshot(d, x) PROVE DriversAskAsDrivers'
  <2>1. PICK to \in PutBack(x, took[d][x]) : Compare(d, x, to)
    BY <1>5 DEF CompareWithSnapshot
  <2>2. DOMAIN to = Guarded(x)
    BY <1>5, PutBackFits DEF CompareWithSnapshot, AskInv, LockInv
  <2>3. "current_step" \notin Guarded(x)
    BY DEF Guarded
  <2> QED BY <1>3, <2>1, <2>2, <2>3
<1>6. CASE AskRestore(d)
  <2> DEFINE q == req[d]
             from == [k \in DOMAIN q.to |-> files[q.path][k]]
             r == Transition("integrity-repair", q.path, from, q.to)
  <2>1. /\ pc[d] = "compared" /\ req' = [req EXCEPT ![d] = r]
        /\ pc' = [pc EXCEPT ![d] = "asked"] /\ ctx' = ctx
    BY <1>6 DEF AskRestore
  <2>3. "current_step" \notin DOMAIN q.to
    BY <2>1 DEF AskInv, DriversAskAsDrivers
  <2>4. DriverRequest(r, ctx[d]) /\ r.to = q.to
    BY <2>3 DEF DriverRequest, Transition
  <2> HIDE DEF r, q
  <2> QED BY <1>2, <2>1, <2>3, <2>4
<1> QED BY <1>4, <1>5, <1>6

\* Every request of a driver is one of those.
LEMMA DriverAsksKeepHolds ==
  ASSUME AskInv, NEW d \in Drivers, DriverAsks(d), ~BeginFreeze(d)
  PROVE  DriversAskAsDrivers'
<1> TypeOK /\ Subs \subseteq Paths /\ Master \in Paths
  BY DEF AskInv, LockInv, Paths, Frozen
<1> USE DEF Transition
<1>1. ASSUME NEW s \in Subs, AskAdvance(d, s) PROVE DriversAskAsDrivers'
  <2> DEFINE step == ctx[d].snap[s].current_step
             r == [Transition("driver", s,
                    [current_step |-> step, status |-> files[s].status],
                    [current_step |-> step + 1, status |-> "in-progress"])
                  EXCEPT !.guards = [m \in {Master} |-> ctx[d].snap[m]]]
  <2>1. /\ r.op = "transition" /\ r.actor = "driver"
        /\ Master \in DOMAIN r.guards /\ r.guards[Master] = ctx[d].snap[Master]
    OBVIOUS
  <2>2. Ask(d, r)
    BY <1>1 DEF AskAdvance
  <2>3. DriverRequest(r, ctx[d])
    BY <2>1 DEF DriverRequest
  <2> HIDE DEF r
  <2> QED BY <2>2, <2>3, AskAsDriver
<1>2. ASSUME NEW s \in Subs, AskShip(d, s) PROVE DriversAskAsDrivers'
  BY <1>2, AskAsDriver DEF AskShip, DriverRequest
<1>3. ASSUME NEW s \in Subs, AskStrike(d, s) PROVE DriversAskAsDrivers'
  BY <1>3, AskAsDriver DEF AskStrike, DriverRequest
<1>4. ASSUME NEW s \in Subs, AskPass(d, s) PROVE DriversAskAsDrivers'
  BY <1>4, AskAsDriver DEF AskPass, DriverRequest
<1>5. ASSUME NEW s \in Subs, NEW red \in 0 .. Steps, AskRollback(d, s, red)
      PROVE  DriversAskAsDrivers'
  <2> DEFINE c == files[s]
             r == [Transition("driver", s,
                     [status |-> "shipped", current_step |-> c.current_step],
                     IF c.current_step > red
                     THEN [status |-> "in-progress", current_step |-> red]
                     ELSE [status |-> "in-progress"])
                   EXCEPT !.digest = c]
  <2>1. files[s].current_step \in Nat /\ red \in Nat
    BY FileFields, BoundsAssumption
  <2>2. Ask(d, r)
    BY <1>5 DEF AskRollback
  <2>3. DriverRequest(r, ctx[d])
    BY <2>1 DEF DriverRequest
  <2> HIDE DEF r
  <2> QED BY <2>2, <2>3, AskAsDriver
<1>6. ASSUME NEW x \in Frozen, AskNote(d, x) PROVE DriversAskAsDrivers'
  BY <1>6, AskAsDriver DEF AskNote, DriverRequest
<1>7. ASSUME AskComplete(d) PROVE DriversAskAsDrivers'
  BY <1>7, AskAsDriver DEF AskComplete, DriverRequest
<1>8. ASSUME AskAutoPark(d) PROVE DriversAskAsDrivers'
  BY <1>8, AskAsDriver DEF AskAutoPark, DriverRequest
<1>9. ASSUME AskProjection(d) PROVE DriversAskAsDrivers'
  <2> DEFINE r == [Transition("driver", Master, Nothing, Nothing)
                   EXCEPT !.op = "projection", !.note = 1, !.digest = files[Master]]
  <2>1. /\ r.op = "projection" /\ r.actor = "driver"
        /\ r.to = Nothing /\ DOMAIN Nothing = {}
    BY DEF Nothing
  <2>2. Ask(d, r)
    BY <1>9 DEF AskProjection
  <2>3. DriverRequest(r, ctx[d])
    BY <2>1 DEF DriverRequest
  <2> HIDE DEF r
  <2> QED BY <2>2, <2>3, AskAsDriver
<1> QED BY <1>1, <1>2, <1>3, <1>4, <1>5, <1>6, <1>7, <1>8, <1>9, RestoringAsks DEF DriverAsks

\* A step that leaves the requests under way as they are.
LEMMA SameRequestsKeep ==
  ASSUME AskInv, NEW p \in Procs, DOMAIN ctx' = Drivers,
         \A q \in Drivers \ {p} : /\ pc'[q] = pc[q] /\ req'[q] = req[q]
                                  /\ ctx'[q] = ctx[q],
         p \in Drivers => /\ pc'[p] # "compared"
                          /\ \/ pc'[p] = "idle"
                             \/ pc[p] # "idle" /\ req'[p] = req[p] /\ ctx'[p] = ctx[p]
                             \/ req'[p].op = "freeze"
  PROVE  DriversAskAsDrivers'
  BY DEF AskInv, DriversAskAsDrivers, DriverRequest

LEMMA HoldsStep == AskInv /\ [Next]_vars => DriversAskAsDrivers'
<1> SUFFICES ASSUME AskInv, [Next]_vars PROVE DriversAskAsDrivers'
  OBVIOUS
<1>1. /\ DOMAIN pc = Procs /\ DOMAIN req = Procs /\ DOMAIN ctx = Drivers
      /\ Drivers \subseteq Procs /\ Humans \subseteq Procs
      /\ Drivers \cap Humans = {}
  BY ProcsAssumption DEF AskInv, LockInv, TypeOK, RequestsOK, Procs, DriversAskAsDrivers
<1>2. CASE UNCHANGED vars
  BY <1>2 DEF vars, AskInv, DriversAskAsDrivers, DriverRequest
<1>3. ASSUME NEW d \in Drivers, DriverAsks(d) PROVE DriversAskAsDrivers'
  <2>1. CASE BeginFreeze(d)
    BY <2>1, <1>1, SameRequestsKeep DEF BeginFreeze
  <2> QED BY <1>3, <2>1, DriverAsksKeepHolds
<1>4. ASSUME NEW h \in Humans, HumanAsks(h) PROVE DriversAskAsDrivers'
  <2>1. /\ ctx' = ctx
        /\ \A q \in Drivers : pc'[q] = pc[q] /\ req'[q] = req[q]
    BY <1>1, <1>4 DEF HumanAsks, AskPark, AskUnpark, AskReset, AskRevise, Ask
  <2> QED BY <1>1, <2>1, SameRequestsKeep
<1>5. ASSUME NEW p \in Procs, Crash(p) PROVE DriversAskAsDrivers'
  BY <1>1, <1>5, SameRequestsKeep DEF Crash
<1>6. ASSUME NEW p \in Procs, Serve(p) PROVE DriversAskAsDrivers'
  <2>1. CASE Acquire(p)
    BY <2>1, <1>1, SameRequestsKeep DEF Acquire
  <2>2. ASSUME NEW g \in todo[p], CheckGuard(p, g) \/ RecoverSnapshot(p, g)
        PROVE  DriversAskAsDrivers'
    BY <2>2, <1>1, SameRequestsKeep DEF CheckGuard, RecoverSnapshot
  <2>3. ASSUME NEW left, Leave(p, left) PROVE DriversAskAsDrivers'
    BY <2>3, <1>1, SameRequestsKeep DEF Leave
  <2>4. ASSUME NEW g \in todo[p], RefuseGuard(p, g) \/ RefuseSnapshot(p, g)
        PROVE  DriversAskAsDrivers'
    BY <2>4, <2>3 DEF RefuseGuard, RefuseSnapshot
  <2>5. CASE Decline(p)
    BY <2>5, <2>3 DEF Decline
  <2>6. CASE WriteIntent(p)
    BY <2>6, <1>1, SameRequestsKeep DEF WriteIntent, AtTarget
  <2>7. CASE Replace(p)
    BY <2>7, <1>1, SameRequestsKeep DEF Replace
  <2>8. CASE Finish(p)
    BY <2>8, <2>3 DEF Finish
  <2>9. CASE Freeze(p)
    BY <2>9, <1>1, SameRequestsKeep DEF Freeze
  <2> QED BY <1>6, <2>1, <2>2, <2>4, <2>5, <2>6, <2>7, <2>8, <2>9 DEF Serve
<1> QED BY <1>2, <1>3, <1>4, <1>5, <1>6 DEF Next

THEOREM HoldsInductive == Spec => []HInv
<1>1. Init => HInv
  <2>1. Init => DriversAskAsDrivers
    BY DEF Init, DriversAskAsDrivers, Procs
  <2> QED BY <2>1, InitEstablishes DEF HInv
<1>2. HInv /\ [Next]_vars => HInv'
  BY StepKeeps, HoldsStep DEF HInv, AskInv, IInv
<1> QED BY <1>1, <1>2, PTL DEF Spec

-----------------------------------------------------------------------------
(* What a replacement does to the fields.                                  *)

\* Writing a request's new bytes leaves every field it does not name.
LEMMA NewContentFields ==
  ASSUME NEW r, NEW c \in Contents
  PROVE  LET n == NewContent(r, c) IN
         /\ n.status = IF "status" \in DOMAIN r.to THEN r.to.status ELSE c.status
         /\ n.current_step = IF "current_step" \in DOMAIN r.to
                             THEN r.to.current_step ELSE c.current_step
         /\ n.hold = IF "hold" \in DOMAIN r.to THEN r.to.hold ELSE c.hold
         /\ n.auto_block_fails = IF "auto_block_fails" \in DOMAIN r.to
                                 THEN r.to.auto_block_fails ELSE c.auto_block_fails
  BY DEF NewContent, Project, Contents

\* A driver's permitted request does not change what a human holds, but for a
\* status that an integrity repair puts back.
LEMMA HeldIsKept ==
  ASSUME NEW r, NEW c \in Contents, NEW k, DriverRequest(r, k), r.op # "freeze",
         Permitted(r, c), c.hold = "human"
  PROVE  LET after == NewContent(r, c) IN
         \/ OwnedState(after) = OwnedState(c)
         \/ /\ r.actor = "integrity-repair"
            /\ OwnedState(after) = [OwnedState(c) EXCEPT !.status = after.status]
<1>1. Held(c)
  BY DEF Held
<1>2. CASE r.op = "projection"
  BY <1>2, NewContentFields DEF DriverRequest, OwnedState, OwnedFields
<1>3. CASE r.op = "transition"
  <2>1. Matches(c, r.from) /\ r.actor = "integrity-repair"
    BY <1>1, <1>3 DEF Permitted, Authorised, Releases, Repairs, DriverRequest
  <2> DEFINE after == NewContent(r, c)
  <2>2. DOMAIN r.to \subseteq {"status", "hold"} /\ ("hold" \in DOMAIN r.to => r.to.hold = "human")
    BY <1>3, <2>1 DEF Permitted, Authorised, Repairs
  <2>3. /\ after.current_step = c.current_step /\ after.hold = c.hold
        /\ after.auto_block_fails = c.auto_block_fails
    BY <2>2, NewContentFields
  <2> HIDE DEF after
  <2>4. OwnedState(after) = [OwnedState(c) EXCEPT !.status = after.status]
    BY <2>3 DEF OwnedState, OwnedFields
  <2> QED BY <2>1, <2>4 DEF after
<1> QED BY <1>2, <1>3 DEF DriverRequest

\* A driver's permitted request moves a pointer forward only where nothing is
\* held, and only under a guard on the frozen master.
LEMMA AdvanceIsGuarded ==
  ASSUME NEW r, NEW c \in Contents, NEW k, DriverRequest(r, k), r.op # "freeze",
         Permitted(r, c), Partial(r.to), Partial(r.from),
         NewContent(r, c).current_step > c.current_step
  PROVE  /\ ~Held(c) /\ r.actor # "human"
         /\ Master \in DOMAIN r.guards /\ r.guards[Master] = k.snap[Master]
<1>1. c.current_step \in Nat
  BY DEF Contents
<1>2. /\ "current_step" \in DOMAIN r.to
      /\ r.to.current_step > c.current_step /\ r.to.current_step \in Nat
  BY <1>1, NewContentFields DEF Partial
<1>3. r.op = "transition"
  BY <1>2 DEF DriverRequest
<1>4. Matches(c, r.from) /\ Authorised(r, c) /\ r.actor # "human"
  BY <1>3 DEF Permitted, DriverRequest
<1>5. ~ ("current_step" \in DOMAIN r.from /\ r.to.current_step < r.from.current_step)
  BY <1>1, <1>2, <1>4 DEF Matches
<1>6. ~Releases(r, c) /\ ~Repairs(r, c)
  BY <1>2 DEF Releases, Repairs
<1>7. ~Held(c)
  BY <1>4, <1>6 DEF Authorised
<1> QED BY <1>2, <1>4, <1>5, <1>7 DEF DriverRequest

\* Human holds are neither lifted nor progressed by a driver's transition, and
\* an integrity repair reaches no more than the status under one, whatever
\* parks, drivers, crashes and recoveries come in between.
THEOREM HoldsAreRespected == Spec => HoldsStand
<1> DEFINE Respected ==
      \A x \in Paths :
        /\ files[x].hold = "human" /\ OwnedState(files'[x]) # OwnedState(files[x])
             => \/ holder \in Humans
                \/ /\ req[holder].actor = "integrity-repair"
                   /\ OwnedState(files'[x]) = [OwnedState(files[x]) EXCEPT
                                                 !.status = files'[x].status]
        /\ x \in Subs /\ holder \in Drivers
           /\ files'[x].current_step > files[x].current_step
             => /\ ~Held(files[x]) /\ ~Held(files[Master])
                /\ Matches(files[Master], ctx[holder].snap[Master])
<1>1. HInv /\ [Next]_vars => [Respected]_vars
  <2> SUFFICES ASSUME HInv, [Next]_vars PROVE Respected
    OBVIOUS
  <2>1. CASE UNCHANGED files
    BY <2>1 DEF HInv, IInv, LockInv, TypeOK, Contents
  <2>2. ASSUME NEW p \in Procs, Replace(p) PROVE Respected
    <3> DEFINE r == req[p]
               c == files[r.path]
    <3>1. /\ pc[p] = "intended" /\ r.op # "freeze" /\ RequestOK(r)
          /\ r.path \in Paths /\ c \in Contents /\ Partial(r.from) /\ Partial(r.to)
      BY <2>2 DEF Replace, HInv, IInv, LockInv, RequestsOK, RequestOK, IntentIsLast, TypeOK
    <3>2. /\ Permitted(r, c) /\ \A g \in DOMAIN r.guards : GuardHolds(r, g)
          /\ log[mine[p]].after = NewContent(r, c)
      <4>1. /\ log[mine[p]] = Intent(r, c, Len(log)) /\ Permitted(r, c)
            /\ \A g \in DOMAIN r.guards : GuardHolds(r, g)
        BY <3>1 DEF HInv, IInv, LockInv, Checked, ChecksStillHold
      <4>2. Intent(r, c, Len(log)).after = NewContent(r, c)
        BY DEF Intent
      <4> QED BY <4>1, <4>2
    <3>3. /\ files \in [Paths -> Contents]
          /\ files' = [files EXCEPT ![r.path] = NewContent(r, c)]
      BY <2>2, <3>2 DEF Replace, HInv, IInv, LockInv, TypeOK
    <3>4. holder = p
      BY <3>1 DEF HInv, IInv, LockInv, MutualExclusion, InCriticalSection
    <3>5. p \in Drivers => DriverRequest(r, ctx[p])
      BY <3>1 DEF HInv, DriversAskAsDrivers
    <3>8. req[p] = r
      OBVIOUS
    <3> HIDE DEF r
    <3> SUFFICES ASSUME NEW x \in Paths
                 PROVE  /\ files[x].hold = "human"
                           /\ OwnedState(files'[x]) # OwnedState(files[x])
                             => \/ holder \in Humans
                                \/ /\ req[holder].actor = "integrity-repair"
                                   /\ OwnedState(files'[x]) = [OwnedState(files[x]) EXCEPT
                                                                 !.status = files'[x].status]
                        /\ x \in Subs /\ holder \in Drivers
                           /\ files'[x].current_step > files[x].current_step
                             => /\ ~Held(files[x]) /\ ~Held(files[Master])
                                /\ Matches(files[Master], ctx[holder].snap[Master])
      OBVIOUS
    <3>6. CASE x # r.path
      <4>1. files'[x] = files[x] /\ files[x].current_step \in Nat
        BY <3>3, <3>6 DEF Contents
      <4> QED BY <4>1
    <3>7. CASE x = r.path
      <4>1. files'[x] = NewContent(r, c) /\ files[x] = c
        BY <3>3, <3>7
      <4>2. ASSUME c.hold = "human", OwnedState(NewContent(r, c)) # OwnedState(c)
            PROVE  \/ p \in Humans
                   \/ /\ r.actor = "integrity-repair"
                      /\ OwnedState(NewContent(r, c)) = [OwnedState(c) EXCEPT
                                                           !.status = NewContent(r, c).status]
        BY <4>2, <3>1, <3>2, <3>5, HeldIsKept DEF Procs
      <4>3. ASSUME p \in Drivers, NewContent(r, c).current_step > c.current_step
            PROVE  /\ ~Held(c) /\ ~Held(files[Master])
                   /\ Matches(files[Master], ctx[p].snap[Master])
        <5>1. /\ ~Held(c) /\ r.actor # "human"
              /\ Master \in DOMAIN r.guards /\ r.guards[Master] = ctx[p].snap[Master]
          BY <4>3, <3>1, <3>2, <3>5, AdvanceIsGuarded
        <5>2. GuardHolds(r, Master)
          BY <3>2, <5>1
        <5> QED BY <5>1, <5>2 DEF GuardHolds
      <4> QED BY <3>4, <3>8, <4>1, <4>2, <4>3
    <3> QED BY <3>6, <3>7
  <2>3. UNCHANGED files \/ \E p \in Procs : Replace(p)
    BY FilesChangeByReplace
  <2> QED BY <2>1, <2>2, <2>3
<1> HIDE DEF Respected
<1>2. Spec => [][Respected]_vars
  BY <1>1, HoldsInductive, PTL DEF Spec
<1> QED BY <1>2 DEF HoldsStand, Respected

-----------------------------------------------------------------------------
(* The journal explains the files, and PlanState implements AtomicPlans.   *)
(*                                                                         *)
(* What carries the proof is the set of effective intents of a path.  An   *)
(* intent, its completion and its recovery leave that set as it is, since  *)
(* an open intent counts exactly when its new bytes are on disk; only the  *)
(* replacement of the file adds to it, and it adds the last row.           *)

\* Written, as an operator of a journal and the files.
Effects(rows, f, x) ==
  {i \in DOMAIN rows : /\ IsIntent(rows[i]) /\ rows[i].path = x
                       /\ \/ \E j \in DOMAIN rows : Completes(rows, i, j) /\ Wrote(rows[j])
                          \/ i \in Pending(rows, x) /\ f[x] = rows[i].after}

AtMostOne(rows) == \A x \in Paths : \A i, j \in Pending(rows, x) : i = j

IntentsChange(rows) ==
  \A i \in DOMAIN rows : IsIntent(rows[i]) => rows[i].before # rows[i].after

\* JournalExplainsFiles, as an operator of a journal and the files.
LastOf(rows, w, x) ==
  IF w = {} THEN Queued[x] ELSE rows[CHOOSE j \in w : \A k \in w : k <= j].after

Before(w, i) == {j \in w : j < i}

ExplainsPath(rows, w, c, x) ==
  /\ \A i \in w : rows[i].before = LastOf(rows, Before(w, i), x)
  /\ c = LastOf(rows, w, x)

Explains(rows, f) == \A x \in Paths : ExplainsPath(rows, Effects(rows, f, x), f[x], x)

-----------------------------------------------------------------------------
(* One more row.                                                           *)

\* What appending a row does to the open intents and to the effective ones.
LEMMA AppendIntent ==
  ASSUME NEW rows, JournalOK(rows), NEW row, IsIntent(row), NEW x, NEW f,
         row.path = x => f[x] # row.after,
         row.id = Len(rows) + 1
  PROVE  LET new == Append(rows, row) IN
         /\ Pending(new, x) = Pending(rows, x)
                              \cup (IF row.path = x THEN {Len(rows) + 1} ELSE {})
         /\ Effects(new, f, x) = Effects(rows, f, x)
<1> DEFINE new == Append(rows, row)
           n == Len(rows) + 1
<1>1. /\ Len(rows) \in Nat /\ DOMAIN rows = 1 .. Len(rows)
      /\ DOMAIN new = 1 .. n /\ new[n] = row
      /\ \A i \in 1 .. Len(rows) : new[i] = rows[i]
  BY AppendRow, JournalIsSeq DEF Extends
<1> HIDE DEF new
<1>2. \A i \in 1 .. Len(rows), j \in 1 .. n :
        Completes(new, i, j) <=> j # n /\ Completes(rows, i, j)
  BY <1>1 DEF Completes
<1>3. \A j \in 1 .. n : ~Completes(new, n, j)
  BY <1>1 DEF Completes
<1>4. Pending(new, x) = Pending(rows, x) \cup (IF row.path = x THEN {n} ELSE {})
  BY <1>1, <1>2, <1>3 DEF Pending
<1>5. ASSUME NEW i \in 1 .. Len(rows) PROVE i \in Effects(new, f, x) <=> i \in Effects(rows, f, x)
  <2>1. i \in Pending(new, x) <=> i \in Pending(rows, x)
    BY <1>1, <1>4
  <2>2. (\E j \in DOMAIN new : Completes(new, i, j) /\ Wrote(new[j]))
          <=> (\E j \in DOMAIN rows : Completes(rows, i, j) /\ Wrote(rows[j]))
    BY <1>1, <1>2
  <2> QED BY <1>1, <2>1, <2>2 DEF Effects
<1>6. n \notin Effects(new, f, x) /\ n \notin Effects(rows, f, x)
  BY <1>1, <1>3 DEF Effects
<1> QED BY <1>1, <1>4, <1>5, <1>6 DEF Effects, new

LEMMA AppendCompletion ==
  ASSUME NEW rows, JournalOK(rows), NEW y, NEW i \in Pending(rows, y),
         NEW phase \in Phases \ {"intent"}, NEW x, NEW f,
         Wrote(Completion(rows[i], phase)) <=> f[y] = rows[i].after
  PROVE  LET new == Append(rows, Completion(rows[i], phase)) IN
         /\ Pending(new, x) = Pending(rows, x) \ {i}
         /\ Effects(new, f, x) = Effects(rows, f, x)
<1> DEFINE row == Completion(rows[i], phase)
           new == Append(rows, row)
           n == Len(rows) + 1
<1>1. /\ Len(rows) \in Nat /\ DOMAIN rows = 1 .. Len(rows)
      /\ DOMAIN new = 1 .. n /\ new[n] = row
      /\ \A k \in 1 .. Len(rows) : new[k] = rows[k]
  BY AppendRow, JournalIsSeq DEF Extends
<1>2. i \in 1 .. Len(rows) /\ IsIntent(rows[i]) /\ rows[i].path = y /\ RowOK(rows, i)
  BY <1>1 DEF Pending, JournalOK
<1>3. ~IsIntent(row) /\ row.id = i
  BY <1>2 DEF RowOK, Completion, IsIntent, Phases
<1> HIDE DEF new, row
<1>4. \A k \in 1 .. Len(rows), j \in 1 .. n :
        Completes(new, k, j) <=> (j # n /\ Completes(rows, k, j)) \/ (j = n /\ k = i)
  BY <1>1, <1>2, <1>3 DEF Completes
<1>5. n \notin Pending(new, x) /\ n \notin Effects(new, f, x)
  BY <1>1, <1>3 DEF Pending, Effects
<1>6. Pending(new, x) = Pending(rows, x) \ {i}
  BY <1>1, <1>3, <1>4, <1>5 DEF Pending
<1>7. ASSUME NEW k \in 1 .. Len(rows), k # i
      PROVE  k \in Effects(new, f, x) <=> k \in Effects(rows, f, x)
  <2>1. k \in Pending(new, x) <=> k \in Pending(rows, x)
    BY <1>6, <1>7
  <2>2. (\E j \in DOMAIN new : Completes(new, k, j) /\ Wrote(new[j]))
          <=> (\E j \in DOMAIN rows : Completes(rows, k, j) /\ Wrote(rows[j]))
    BY <1>1, <1>4, <1>7
  <2> QED BY <1>1, <2>1, <2>2 DEF Effects
<1>8. i \in Effects(new, f, x) <=> i \in Effects(rows, f, x)
  <2>1. i \notin Pending(new, x)
    BY <1>6
  <2>2. (\E j \in DOMAIN new : Completes(new, i, j) /\ Wrote(new[j])) <=> Wrote(row)
    <3>1. \A j \in DOMAIN rows : ~Completes(rows, i, j)
      BY DEF Pending
    <3> QED BY <1>1, <1>2, <1>4, <3>1
  <2>3. ~ (\E j \in DOMAIN rows : Completes(rows, i, j) /\ Wrote(rows[j]))
    BY DEF Pending
  <2>4. Wrote(row) <=> f[y] = rows[i].after
    BY DEF row
  <2>5. y = x => i \in Pending(rows, x)
    OBVIOUS
  <2> QED BY <1>1, <1>2, <2>1, <2>2, <2>3, <2>4, <2>5 DEF Effects
<1> QED BY <1>1, <1>5, <1>6, <1>7, <1>8 DEF Effects, new, row

\* Recovery closes what is open on a path and changes no effect.
LEMMA RecoveredEffects ==
  ASSUME NEW rows, JournalOK(rows), AtMostOne(rows), NEW y \in Paths, NEW x, NEW f
  PROVE  LET new == Recovered(rows, y, f[y]) IN
         /\ Pending(new, x) = IF x = y THEN {} ELSE Pending(rows, x)
         /\ Effects(new, f, x) = Effects(rows, f, x)
<1>1. CASE Pending(rows, y) = {}
  BY <1>1 DEF Recovered
<1>2. CASE Pending(rows, y) # {}
  <2> DEFINE i == CHOOSE i \in Pending(rows, y) : TRUE
             phase == IF f[y] = rows[i].after THEN "recovered-applied"
                                               ELSE "recovered-not-applied"
  <2>1. i \in Pending(rows, y)
    BY <1>2
  <2>2. Recovered(rows, y, f[y]) = Append(rows, Completion(rows[i], phase))
    BY <1>2 DEF Recovered, RecoveryRow
  <2> HIDE DEF i
  <2>3. RowOK(rows, i)
    BY <2>1 DEF Pending, JournalOK
  <2>4. Wrote(Completion(rows[i], phase)) <=> f[y] = rows[i].after
    BY <2>3 DEF Wrote, Completion, RowOK
  <2>5. phase \in Phases \ {"intent"}
    BY DEF Phases
  <2> HIDE DEF phase
  <2>6. /\ Pending(Recovered(rows, y, f[y]), x) = Pending(rows, x) \ {i}
        /\ Effects(Recovered(rows, y, f[y]), f, x) = Effects(rows, f, x)
    BY <2>1, <2>2, <2>4, <2>5, AppendCompletion
  <2>7. Pending(rows, y) = {i}
    BY <2>1 DEF AtMostOne
  <2>8. x # y => i \notin Pending(rows, x)
    BY <2>1 DEF Pending
  <2> QED BY <2>6, <2>7, <2>8
<1> QED BY <1>1, <1>2

\* The files g are f after the replacement the open intent i announced.
Carries(rows, i, f, g) ==
  /\ AtMostOne(rows) /\ i \in Pending(rows, rows[i].path)
  /\ f[rows[i].path] # rows[i].after /\ g[rows[i].path] = rows[i].after
  /\ \A z \in Paths \ {rows[i].path} : g[z] = f[z]

\* A replacement makes exactly the open intent it carries out effective.
LEMMA ReplacedEffects ==
  ASSUME NEW rows, NEW i, NEW f, NEW g, Carries(rows, i, f, g), NEW x \in Paths
  PROVE  /\ x = rows[i].path => /\ Effects(rows, g, x) = Effects(rows, f, x) \cup {i}
                                /\ i \notin Effects(rows, f, x)
         /\ x # rows[i].path => Effects(rows, g, x) = Effects(rows, f, x)
<1> DEFINE y == rows[i].path
<1>1. /\ g[y] = rows[i].after /\ f[y] # rows[i].after
      /\ AtMostOne(rows) /\ i \in Pending(rows, y)
      /\ \A z \in Paths \ {y} : g[z] = f[z]
  BY DEF Carries
<1>2. CASE x # y
  BY <1>1, <1>2 DEF Effects
<1>3. CASE x = y
  <2>1. Pending(rows, x) = {i}
    BY <1>1, <1>3 DEF AtMostOne
  <2>2. \A j \in DOMAIN rows : ~Completes(rows, i, j)
    BY <1>1 DEF Pending
  <2>3. i \in DOMAIN rows /\ IsIntent(rows[i]) /\ rows[i].path = x
    BY <1>1, <1>3 DEF Pending
  <2>4. i \in Effects(rows, g, x) /\ i \notin Effects(rows, f, x)
    BY <1>1, <1>3, <2>1, <2>2, <2>3 DEF Effects
  <2>5. \A k \in DOMAIN rows : k # i => (k \in Effects(rows, g, x) <=> k \in Effects(rows, f, x))
    BY <2>1 DEF Effects
  <2> QED BY <1>3, <2>4, <2>5 DEF Effects
<1> QED BY <1>2, <1>3

-----------------------------------------------------------------------------
(* The chain of effective writes.                                          *)

LEMMA EffectsAreRows ==
  ASSUME NEW rows, JournalOK(rows), NEW f, NEW x
  PROVE  Effects(rows, f, x) \subseteq 1 .. Len(rows) /\ Len(rows) \in Nat
  BY JournalIsSeq DEF Effects

\* A set of rows that is not empty has a last one.
LEMMA MaximumOfRows ==
  ASSUME NEW n \in Nat, NEW v \in SUBSET (1 .. n), v # {}
  PROVE  \E j \in v : \A k \in v : k <= j
<1> DEFINE Above(j) == {k \in v : j <= k}
           T == {Above(j) : j \in v}
<1>1. T \subseteq FiniteSubsetsOf(v) /\ T # {}
  <2>1. 1 \in Int /\ n \in Int
    OBVIOUS
  <2>2. IsFiniteSet(1 .. n)
    BY <2>1, FS_Interval
  <2>3. IsFiniteSet(v)
    BY <2>2, FS_Subset
  <2>4. FiniteSubsetsOf(v) = SUBSET v
    BY <2>3, FS_FiniteSubsetsOfFinite
  <2>5. \A j \in v : Above(j) \in FiniteSubsetsOf(v)
    BY <2>4
  <2>6. T # {}
    OBVIOUS
  <2> HIDE DEF Above
  <2> QED BY <2>5, <2>6
<1>2. \E a \in T : \A b \in T : <<b, a>> \notin StrictSubsetOrdering(v)
  BY <1>1, FS_StrictSubsetOrderingWellFounded, WFMin
<1>3. PICK j \in v : \A k \in v : <<Above(k), Above(j)>> \notin StrictSubsetOrdering(v)
  BY <1>2
<1>4. ASSUME NEW k \in v, k > j PROVE FALSE
  <2>1. \A i \in v : i \in Int
    OBVIOUS
  <2> j \in Int /\ k \in Int /\ j < k /\ j <= j /\ ~(k <= j)
    BY <1>4, <2>1
  <2>2. Above(k) \subseteq Above(j) /\ j \in Above(j) /\ j \notin Above(k)
    <3>1. \A i \in v : k <= i => j <= i
      BY <2>1
    <3> QED BY <3>1
  <2>3. <<Above(k), Above(j)>> \in StrictSubsetOrdering(v)
    BY <2>2 DEF StrictSubsetOrdering
  <2> QED BY <1>3, <2>3
<1>5. \A i \in v : i \in Int
  OBVIOUS
<1> QED BY <1>3, <1>4, <1>5

LEMMA LastIsThere ==
  ASSUME NEW n \in Nat, NEW v \in SUBSET (1 .. n), v # {}
  PROVE  (CHOOSE j \in v : \A k \in v : k <= j) \in v
  BY MaximumOfRows

LEMMA GreatestIsLast ==
  ASSUME NEW n \in Nat, NEW v \in SUBSET (1 .. n), NEW m \in v, \A k \in v : k <= m
  PROVE  (CHOOSE j \in v : \A k \in v : k <= j) = m
<1> DEFINE l == CHOOSE j \in v : \A k \in v : k <= j
<1>1. l \in v /\ \A k \in v : k <= l
  OBVIOUS
<1> HIDE DEF l
<1>2. l <= m /\ m <= l /\ l \in Int /\ m \in Int
  BY <1>1
<1>3. l = m
  BY <1>2
<1> QED BY <1>3 DEF l

\* JournalExplainsFiles says what Explains says.
LEMMA ExplainsIsInvariant == JournalExplainsFiles <=> Explains(log, files)
  BY DEF JournalExplainsFiles, Explains, ExplainsPath, LastAfter, LastOf, Before, Written, Effects

\* Rows that change no effect leave the explanation standing.
LEMMA ExplanationExtends ==
  ASSUME NEW rows, JournalOK(rows), NEW new, Extends(new, rows), NEW f,
         \A x \in Paths : Effects(new, f, x) = Effects(rows, f, x),
         Explains(rows, f)
  PROVE  Explains(new, f)
<1> SUFFICES ASSUME NEW x \in Paths PROVE ExplainsPath(new, Effects(rows, f, x), f[x], x)
  BY DEF Explains
<1> DEFINE w == Effects(rows, f, x)
<1>1. /\ w \in SUBSET (1 .. Len(rows)) /\ Len(rows) \in Nat
      /\ \A i \in 1 .. Len(rows) : new[i] = rows[i]
  BY EffectsAreRows DEF Extends
<1>2. ExplainsPath(rows, w, f[x], x)
  BY DEF Explains
<1> HIDE DEF w
<1>3. ASSUME NEW v \in SUBSET w PROVE LastOf(new, v, x) = LastOf(rows, v, x)
  <2>1. CASE v = {}
    BY <2>1 DEF LastOf
  <2>2. CASE v # {}
    <3>1. (CHOOSE j \in v : \A k \in v : k <= j) \in 1 .. Len(rows)
      BY <1>1, <2>2, LastIsThere
    <3> QED BY <1>1, <2>2, <3>1 DEF LastOf
  <2> QED BY <2>1, <2>2
<1>4. \A i \in w : Before(w, i) \in SUBSET w
  BY DEF Before
<1>5. ExplainsPath(new, w, f[x], x)
  BY <1>1, <1>2, <1>3, <1>4 DEF ExplainsPath
<1> QED BY <1>5 DEF w

\* A replacement adds the last row to the chain, as the next link.
LEMMA ExplanationGrows ==
  ASSUME NEW rows, JournalOK(rows), AtMostOne(rows), NEW f, NEW g, NEW i,
         i = Len(rows), i \in Pending(rows, rows[i].path),
         rows[i].before = f[rows[i].path], rows[i].before # rows[i].after,
         g[rows[i].path] = rows[i].after,
         \A z \in Paths \ {rows[i].path} : g[z] = f[z],
         Explains(rows, f)
  PROVE  Explains(rows, g)
<1> DEFINE y == rows[i].path
<1> SUFFICES ASSUME NEW x \in Paths PROVE ExplainsPath(rows, Effects(rows, g, x), g[x], x)
  BY DEF Explains
<1>2. ExplainsPath(rows, Effects(rows, f, x), f[x], x)
  BY DEF Explains
<1>1. Carries(rows, i, f, g)
  BY DEF Carries
<1>5. /\ x = y => Effects(rows, g, x) = Effects(rows, f, x) \cup {i} /\ i \notin Effects(rows, f, x)
      /\ x # y => Effects(rows, g, x) = Effects(rows, f, x)
  BY <1>1, ReplacedEffects
<1>3. CASE x # y
  <2>1. Effects(rows, g, x) = Effects(rows, f, x)
    BY <1>3, <1>5
  <2> QED BY <1>1, <1>2, <1>3, <2>1
<1>4. CASE x = y
  <2> DEFINE w == Effects(rows, f, x)
  <2>1. Effects(rows, g, x) = w \cup {i} /\ i \notin w
    BY <1>4, <1>5
  <2>2. w \in SUBSET (1 .. Len(rows)) /\ Len(rows) \in Nat
    BY EffectsAreRows
  <2>3. i \in 1 .. Len(rows)
    BY JournalIsSeq DEF Pending
  <2> HIDE DEF w
  <2>4. \A k \in w : k < i /\ k \in Int
    BY <2>1, <2>2, <2>3
  <2>5. Before(w \cup {i}, i) = w /\ \A k \in w : Before(w \cup {i}, k) = Before(w, k)
    <3>1. i \in Int /\ ~(i < i) /\ \A k \in w : ~(i < k)
      BY <2>3, <2>4
    <3> QED BY <2>4, <3>1 DEF Before
  <2>6. LastOf(rows, w \cup {i}, x) = rows[i].after
    <3>1. (CHOOSE j \in w \cup {i} : \A k \in w \cup {i} : k <= j) = i
      <4>1. w \cup {i} \in SUBSET (1 .. Len(rows)) /\ \A k \in w \cup {i} : k <= i
        <5>1. \A k \in w : k <= i
          BY <2>3, <2>4
        <5>2. i <= i
          BY <2>3
        <5> QED BY <2>2, <2>3, <5>1, <5>2
      <4> QED BY <2>2, <4>1, GreatestIsLast
    <3> QED BY <3>1 DEF LastOf
  <2>7. /\ \A k \in w : rows[k].before = LastOf(rows, Before(w, k), x)
        /\ f[x] = LastOf(rows, w, x)
    BY <1>2 DEF ExplainsPath, w
  <2>8. ExplainsPath(rows, w \cup {i}, rows[i].after, x)
    BY <1>4, <2>5, <2>6, <2>7 DEF ExplainsPath
  <2> QED BY <1>1, <1>4, <2>1, <2>8
<1> QED BY <1>3, <1>4

-----------------------------------------------------------------------------
(* The invariant.                                                          *)

ReplacedIsOnDisk ==
  \A p \in Procs : pc[p] = "replaced" => files[log[mine[p]].path] = log[mine[p]].after

\* Who signs a request: an operator's commands in the operator's name, or for
\* return-reds as the legacy return, and a driver's never in a human's.
ActorsOK ==
  \A p \in Procs : pc[p] # "idle" /\ req[p].op # "freeze" =>
    /\ req[p].actor \in Atomic!Actors
    /\ p \in Humans => req[p].actor = "human" \/ req[p].op = "revise"

JInv ==
  /\ HInv /\ ActorsOK /\ ReplacedIsOnDisk
  /\ AtMostOne(log) /\ IntentsChange(log) /\ Explains(log, files)

\* What a step does to the journal and the files.
LEMMA StepKinds ==
  ASSUME LockInv, [Next]_vars
  PROVE  \/ UNCHANGED <<files, log>>
         \/ UNCHANGED files /\ \E x \in Paths : Explicable(log, x, files[x]) /\ log' = Recovered(log, x, files[x])
         \/ \E p \in Procs : WriteIntent(p) \/ Replace(p) \/ Finish(p)
<1> DEFINE Recovers == UNCHANGED files /\ \E x \in Paths : Explicable(log, x, files[x]) /\ log' = Recovered(log, x, files[x])
<1>1. CASE UNCHANGED vars
  BY <1>1 DEF vars
<1>2. ASSUME NEW d \in Drivers, DriverAsks(d) PROVE UNCHANGED <<files, log>>
  BY <1>2, DriverAskKinds DEF Ask, BeginFreeze, TakeSnapshot, Compare, AskRestore
<1>3. ASSUME NEW h \in Humans, HumanAsks(h) PROVE UNCHANGED <<files, log>>
  BY <1>3 DEF HumanAsks, AskPark, AskUnpark, AskReset, AskRevise, Ask
<1>4. ASSUME NEW p \in Procs, Crash(p) PROVE UNCHANGED <<files, log>>
  BY <1>4 DEF Crash
<1>5. ASSUME NEW p \in Procs, Serve(p)
      PROVE  \/ UNCHANGED <<files, log>>
             \/ Recovers
             \/ WriteIntent(p) \/ Replace(p) \/ Finish(p)
  <2>1. CASE Acquire(p) \/ Freeze(p)
    BY <2>1 DEF Acquire, Freeze
  <2>2. ASSUME NEW g \in todo[p],
               CheckGuard(p, g) \/ RefuseGuard(p, g) \/ RecoverSnapshot(p, g) \/ RefuseSnapshot(p, g)
        PROVE  UNCHANGED <<files, log>> \/ Recovers
    <3>1. g \in Paths
      BY DEF LockInv, TypeOK
    <3>2. UNCHANGED files /\ (UNCHANGED log \/ (Explicable(log, g, files[g]) /\ log' = Recovered(log, g, files[g])))
      BY <2>2 DEF CheckGuard, RefuseGuard, RecoverSnapshot, RefuseSnapshot, Leave
    <3> QED BY <3>1, <3>2
  <2>3. CASE Decline(p)
    <3>1. req[p].path \in Paths
      BY <2>3 DEF Decline, AtTarget, LockInv, RequestsOK, RequestOK
    <3>2. UNCHANGED files /\ (UNCHANGED log \/ (Explicable(log, req[p].path, files[req[p].path]) /\ log' = Recovered(log, req[p].path, files[req[p].path])))
      BY <2>3 DEF Decline, Leave
    <3> QED BY <3>1, <3>2
  <2> QED BY <1>5, <2>1, <2>2, <2>3 DEF Serve
<1> QED BY <1>1, <1>2, <1>3, <1>4, <1>5 DEF Next

\* Recovery appends, if anything, a completion.
LEMMA RecoveredExtends ==
  ASSUME NEW rows, JournalOK(rows), NEW y, NEW c
  PROVE  /\ Extends(Recovered(rows, y, c), rows)
         /\ IntentsChange(rows) => IntentsChange(Recovered(rows, y, c))
<1>1. CASE Pending(rows, y) = {}
  BY <1>1, JournalIsSeq DEF Recovered, Extends
<1>2. CASE Pending(rows, y) # {}
  <2> DEFINE i == CHOOSE i \in Pending(rows, y) : TRUE
             new == Append(rows, RecoveryRow(rows[i], c))
  <2>1. i \in Pending(rows, y)
    BY <1>2
  <2>2. Recovered(rows, y, c) = new
    BY <1>2 DEF Recovered
  <2> HIDE DEF i
  <2>3. RowOK(rows, i)
    BY <2>1 DEF Pending, JournalOK
  <2>4. ~IsIntent(RecoveryRow(rows[i], c))
    BY <2>3 DEF RecoveryRow, Completion, RowOK, IsIntent
  <2>5. /\ Len(rows) \in Nat /\ DOMAIN rows = 1 .. Len(rows)
        /\ Extends(new, rows) /\ DOMAIN new = 1 .. (Len(rows) + 1)
        /\ new[Len(rows) + 1] = RecoveryRow(rows[i], c)
    BY AppendRow, JournalIsSeq
  <2> HIDE DEF new
  <2>6. IntentsChange(rows) => IntentsChange(new)
    BY <2>4, <2>5 DEF IntentsChange, Extends
  <2> QED BY <2>2, <2>5, <2>6
<1> QED BY <1>1, <1>2

\* Every step but a replacement changes no effect and only adds rows.
Quiet ==
  /\ UNCHANGED files /\ Extends(log', log)
  /\ \A x \in Paths : Effects(log', files, x) = Effects(log, files, x)

LEMMA RecoveryIsQuiet ==
  ASSUME JInv, NEW y \in Paths, UNCHANGED files, log' = Recovered(log, y, files[y])
  PROVE  Quiet /\ AtMostOne(log') /\ IntentsChange(log')
<1>1. JournalOK(log) /\ AtMostOne(log) /\ IntentsChange(log)
  BY DEF JInv, HInv, IInv, LockInv, TypeOK
<1>2. \A x \in Paths : /\ Pending(log', x) = IF x = y THEN {} ELSE Pending(log, x)
                       /\ Effects(log', files, x) = Effects(log, files, x)
  BY <1>1, RecoveredEffects
<1>3. AtMostOne(log')
  BY <1>1, <1>2 DEF AtMostOne
<1> QED BY <1>1, <1>2, <1>3, RecoveredExtends DEF Quiet

LEMMA IntentIsQuiet ==
  ASSUME JInv, NEW p \in Procs, WriteIntent(p)
  PROVE  Quiet /\ AtMostOne(log') /\ IntentsChange(log')
<1> DEFINE r == req[p]
           c == files[r.path]
           rec == Recovered(log, r.path, c)
           row == Intent(r, c, Len(rec) + 1)
<1>1. JournalOK(log) /\ AtMostOne(log) /\ IntentsChange(log) /\ r.path \in Paths
  BY DEF JInv, HInv, IInv, LockInv, TypeOK, WriteIntent, AtTarget, RequestsOK, RequestOK
<1>2. UNCHANGED files /\ log' = Append(rec, row) /\ NewContent(r, c) # c
  BY DEF WriteIntent
<1>3. /\ IsIntent(row) /\ row.path = r.path /\ row.id = Len(rec) + 1
      /\ row.before = c /\ row.after = NewContent(r, c)
  BY DEF Intent, IsIntent
<1>4. JournalOK(rec) /\ Extends(rec, log) /\ IntentsChange(rec)
  BY <1>1, RecoveredKeepsJournal, RecoveredExtends
<1>5. \A x \in Paths : /\ Pending(rec, x) = IF x = r.path THEN {} ELSE Pending(log, x)
                       /\ Effects(rec, files, x) = Effects(log, files, x)
  BY <1>1, RecoveredEffects
<1> HIDE DEF rec, row, c
<1>6. ASSUME NEW x \in Paths
      PROVE  /\ Pending(log', x) = Pending(rec, x)
                                   \cup (IF row.path = x THEN {Len(rec) + 1} ELSE {})
             /\ Effects(log', files, x) = Effects(rec, files, x)
  <2>1. row.path = x => files[x] # row.after
    BY <1>2, <1>3 DEF c
  <2> QED BY <1>2, <1>3, <1>4, <2>1, AppendIntent
<1>7. AtMostOne(log')
  BY <1>1, <1>3, <1>5, <1>6 DEF AtMostOne
<1>8. /\ Extends(log', rec) /\ Len(log') = Len(rec) + 1 /\ DOMAIN log' = 1 .. Len(log')
      /\ log'[Len(rec) + 1] = row /\ Len(rec) \in Nat /\ DOMAIN rec = 1 .. Len(rec)
      /\ Len(log) \in Nat
  BY <1>1, <1>2, <1>4, AppendRow, JournalIsSeq
<1>9. Extends(log', log)
  BY <1>4, <1>8 DEF Extends
<1>10. IntentsChange(log')
  BY <1>2, <1>3, <1>4, <1>8 DEF IntentsChange, Extends, c
<1> QED BY <1>2, <1>5, <1>6, <1>7, <1>9, <1>10 DEF Quiet

LEMMA CompletionIsQuiet ==
  ASSUME JInv, NEW p \in Procs, Finish(p)
  PROVE  Quiet /\ AtMostOne(log') /\ IntentsChange(log')
<1> DEFINE i == mine[p]
           y == log[i].path
           row == Completion(log[i], "applied")
<1>1. /\ JournalOK(log) /\ AtMostOne(log) /\ IntentsChange(log)
      /\ i = Len(log) /\ i \in DOMAIN log /\ IsIntent(log[i])
      /\ files[y] = log[i].after /\ UNCHANGED files
      /\ log' = Append(log, row)
  BY DEF JInv, HInv, IInv, LockInv, TypeOK, IntentIsLast, Finish, Leave, ReplacedIsOnDisk
<1>2. /\ Len(log) \in Nat /\ DOMAIN log = 1 .. Len(log)
      /\ Extends(log', log) /\ DOMAIN log' = 1 .. (Len(log) + 1)
      /\ log'[Len(log) + 1] = row
  BY <1>1, AppendRow, JournalIsSeq
<1>3. RowOK(log, i)
  BY <1>1 DEF JournalOK
<1>4. row.phase = "applied" /\ Wrote(row) /\ ~IsIntent(row)
  BY <1>3 DEF RowOK, Completion, Wrote, IsIntent
<1>5. i \in Pending(log, y)
  BY <1>1, <1>2 DEF Pending, Completes
<1>6. "applied" \in Phases \ {"intent"}
  BY DEF Phases
<1>7. \A x \in Paths : /\ Pending(log', x) = Pending(log, x) \ {i}
                       /\ Effects(log', files, x) = Effects(log, files, x)
  BY <1>1, <1>4, <1>5, <1>6, AppendCompletion
<1> HIDE DEF row
<1>8. AtMostOne(log')
  BY <1>1, <1>7 DEF AtMostOne
<1>9. IntentsChange(log')
  BY <1>1, <1>2, <1>4 DEF IntentsChange, Extends
<1> QED BY <1>1, <1>2, <1>7, <1>8, <1>9 DEF Quiet

\* What holds of the journal and the files when a client replaces its file.
LEMMA ReplacementFacts ==
  ASSUME JInv, NEW p \in Procs, Replace(p)
  PROVE  LET r == req[p]
             i == mine[p] IN
         /\ JournalOK(log) /\ AtMostOne(log) /\ Explains(log, files)
         /\ i = Len(log) /\ i \in Pending(log, r.path)
         /\ r.path \in Paths /\ log[i].path = r.path /\ log[i].actor = r.actor
         /\ log[i].before = files[r.path] /\ log[i].after = NewContent(r, files[r.path])
         /\ log[i].before # log[i].after
         /\ files[r.path] \in Contents /\ Permitted(r, files[r.path])
         /\ pc[p] = "intended" /\ r.op # "freeze"
         /\ UNCHANGED log /\ files' = [files EXCEPT ![r.path] = log[i].after]
<1> DEFINE r == req[p]
           i == mine[p]
<1>1. /\ JournalOK(log) /\ AtMostOne(log) /\ Explains(log, files) /\ IntentsChange(log)
      /\ pc[p] = "intended" /\ i = Len(log) /\ i \in DOMAIN log /\ IsIntent(log[i])
      /\ r.op # "freeze" /\ RequestOK(r)
      /\ log[i] = Intent(r, files[r.path], Len(log)) /\ Permitted(r, files[r.path])
      /\ UNCHANGED log /\ files' = [files EXCEPT ![r.path] = log[i].after]
  BY DEF JInv, HInv, IInv, LockInv, Checked, TypeOK, IntentIsLast, ChecksStillHold, RequestsOK, Replace
<1>2. r.path \in Paths /\ files[r.path] \in Contents
  BY <1>1 DEF RequestOK, JInv, HInv, IInv, LockInv, TypeOK
<1>3. /\ log[i].path = r.path /\ log[i].actor = r.actor
      /\ log[i].before = files[r.path] /\ log[i].after = NewContent(r, files[r.path])
  BY <1>1 DEF Intent
<1>4. log[i].before # log[i].after
  BY <1>1 DEF IntentsChange
<1>5. Len(log) \in Nat /\ DOMAIN log = 1 .. Len(log)
  BY <1>1, JournalIsSeq
<1>6. i \in Pending(log, r.path)
  BY <1>1, <1>3, <1>5 DEF Pending, Completes
<1> QED BY <1>1, <1>2, <1>3, <1>4, <1>6

LEMMA ExplanationStep ==
  ASSUME JInv, [Next]_vars
  PROVE  AtMostOne(log') /\ IntentsChange(log') /\ Explains(log', files')
<1>1. CASE UNCHANGED <<files, log>>
  BY <1>1 DEF JInv
<1>2. CASE Quiet /\ AtMostOne(log') /\ IntentsChange(log')
  <2>1. Explains(log', files)
    BY <1>2, ExplanationExtends DEF Quiet, JInv, HInv, IInv, LockInv, TypeOK
  <2> QED BY <1>2, <2>1 DEF Quiet
<1>3. ASSUME NEW p \in Procs, Replace(p)
      PROVE  AtMostOne(log') /\ IntentsChange(log') /\ Explains(log', files')
  <2> DEFINE i == mine[p]
  <2>1. /\ JournalOK(log) /\ AtMostOne(log) /\ Explains(log, files)
        /\ i = Len(log) /\ i \in Pending(log, log[i].path)
        /\ log[i].path \in Paths
        /\ log[i].before = files[log[i].path] /\ log[i].before # log[i].after
        /\ UNCHANGED log /\ files' = [files EXCEPT ![log[i].path] = log[i].after]
    BY <1>3, ReplacementFacts
  <2>2. DOMAIN files = Paths /\ IntentsChange(log)
    BY DEF JInv, HInv, IInv, LockInv, TypeOK
  <2>3. files'[log[i].path] = log[i].after /\ \A z \in Paths \ {log[i].path} : files'[z] = files[z]
    BY <2>1, <2>2
  <2> HIDE DEF i
  <2>4. Explains(log, files')
    BY <2>1, <2>3, ExplanationGrows
  <2> QED BY <2>1, <2>2, <2>4
<1>4. \/ UNCHANGED <<files, log>>
      \/ UNCHANGED files /\ \E x \in Paths : log' = Recovered(log, x, files[x])
      \/ \E p \in Procs : WriteIntent(p) \/ Replace(p) \/ Finish(p)
  BY StepKinds DEF JInv, HInv, IInv
<1> QED BY <1>1, <1>2, <1>3, <1>4, RecoveryIsQuiet, IntentIsQuiet, CompletionIsQuiet

\* A client between intent and completion came there in this step, or nobody
\* touched its request, the journal, the files and the contexts.
LEMMA WritingStands ==
  ASSUME LockInv, [Next]_vars, NEW q \in Procs, pc'[q] \in {"intended", "replaced"}
  PROVE  \/ WriteIntent(q)
         \/ Replace(q)
         \/ /\ pc'[q] = pc[q] /\ mine'[q] = mine[q] /\ req'[q] = req[q]
            /\ UNCHANGED <<files, log, ctx>>
<1> DEFINE Stands == /\ pc'[q] = pc[q] /\ mine'[q] = mine[q] /\ req'[q] = req[q]
                     /\ UNCHANGED <<files, log, ctx>>
<1>1. /\ pc \in [Procs -> {"idle", "compared", "asked", "guards", "intended", "replaced"}]
      /\ mine \in [Procs -> Nat] /\ DOMAIN req = Procs
      /\ Drivers \subseteq Procs /\ Humans \subseteq Procs
  BY DEF LockInv, TypeOK, RequestsOK, Procs
<1>2. CASE UNCHANGED vars
  BY <1>2 DEF vars
<1>3. ASSUME NEW d \in Drivers, DriverAsks(d) PROVE Stands
  <2>1. /\ UNCHANGED <<files, log, mine, ctx>>
        /\ \/ UNCHANGED <<pc, req>>
           \/ /\ \E s \in {"compared", "asked", "guards"} : pc' = [pc EXCEPT ![d] = s]
              /\ \E r : req' = [req EXCEPT ![d] = r]
    BY <1>3, DriverAskKinds DEF Ask, BeginFreeze, TakeSnapshot, Compare, AskRestore
  <2> QED BY <1>1, <2>1
<1>4. ASSUME NEW h \in Humans, HumanAsks(h) PROVE Stands
  <2>1. /\ UNCHANGED <<files, log, mine, ctx>>
        /\ UNCHANGED <<pc, req>> \/ (/\ pc' = [pc EXCEPT ![h] = "asked"]
                                     /\ \E r : req' = [req EXCEPT ![h] = r])
    BY <1>4 DEF HumanAsks, AskPark, AskUnpark, AskReset, AskRevise, Ask
  <2> QED BY <1>1, <2>1
<1>5. ASSUME NEW p \in Procs, Crash(p) PROVE Stands
  <2>1. /\ UNCHANGED <<files, log, ctx>> /\ pc' = [pc EXCEPT ![p] = "idle"]
        /\ mine' = [mine EXCEPT ![p] = 0] /\ req' = [req EXCEPT ![p] = NoReq]
    BY <1>5 DEF Crash
  <2> QED BY <1>1, <2>1
<1>6. ASSUME NEW p \in Procs, Serve(p) PROVE Stands \/ WriteIntent(q) \/ Replace(q)
  <2>1. CASE Acquire(p)
    BY <1>1, <2>1 DEF Acquire
  <2>2. CASE ~Acquire(p) /\ ~Replace(p) /\ ~WriteIntent(p)
    <3>1. /\ pc[p] \in {"guards", "replaced"}
          /\ \/ UNCHANGED pc /\ pc[p] = "guards"
             \/ pc' = [pc EXCEPT ![p] = "idle"]
      <4>1. CASE \E g \in todo[p] : CheckGuard(p, g) \/ RecoverSnapshot(p, g)
        BY <4>1 DEF CheckGuard, RecoverSnapshot
      <4>2. CASE \E g \in todo[p] : RefuseGuard(p, g) \/ RefuseSnapshot(p, g)
        BY <4>2 DEF RefuseGuard, RefuseSnapshot, Leave
      <4>3. CASE Decline(p) \/ Finish(p)
        BY <4>3 DEF Decline, AtTarget, Finish, Leave
      <4>4. CASE Freeze(p)
        BY <4>4 DEF Freeze
      <4> QED BY <1>6, <2>2, <4>1, <4>2, <4>3, <4>4 DEF Serve
    <3>2. q # p => pc[q] \in {"idle", "compared", "asked"}
      BY <3>1, OthersOutside DEF LockInv, InCriticalSection
    <3> QED BY <1>1, <3>1, <3>2
  <2>3. CASE Replace(p) \/ WriteIntent(p)
    <3>1. /\ pc[p] \in {"guards", "intended"}
          /\ \E s \in {"intended", "replaced"} : pc' = [pc EXCEPT ![p] = s]
      BY <2>3 DEF Replace, WriteIntent, AtTarget
    <3>2. q # p => pc[q] \in {"idle", "compared", "asked"}
      BY <3>1, OthersOutside DEF LockInv, InCriticalSection
    <3> QED BY <1>1, <2>3, <3>1, <3>2
  <2> QED BY <2>1, <2>2, <2>3
<1> QED BY <1>2, <1>3, <1>4, <1>5, <1>6 DEF Next

\* Of its replacement the same.
LEMMA ReplacedStands ==
  ASSUME IInv, [Next]_vars, NEW q \in Procs, pc'[q] = "replaced"
  PROVE  \/ Replace(q)
         \/ pc[q] = "replaced" /\ mine'[q] = mine[q] /\ UNCHANGED <<files, log>>
<1>1. DOMAIN pc = Procs
  BY DEF IInv, LockInv, TypeOK
<1>2. ~WriteIntent(q)
  BY <1>1 DEF WriteIntent
<1> QED BY <1>2, WritingStands DEF IInv

LEMMA ReplacedStep == JInv /\ [Next]_vars => ReplacedIsOnDisk'
<1> SUFFICES ASSUME JInv, [Next]_vars, NEW q \in Procs, pc'[q] = "replaced"
             PROVE  files'[log'[mine'[q]].path] = log'[mine'[q]].after
  BY DEF ReplacedIsOnDisk
<1>1. CASE Replace(q)
  <2>1. /\ log[mine[q]].path = req[q].path /\ req[q].path \in Paths
        /\ UNCHANGED <<log, mine>>
        /\ files' = [files EXCEPT ![req[q].path] = log[mine[q]].after]
    BY <1>1, ReplacementFacts DEF Replace
  <2>2. DOMAIN files = Paths
    BY DEF JInv, HInv, IInv, LockInv, TypeOK
  <2> QED BY <2>1, <2>2
<1>2. CASE pc[q] = "replaced" /\ mine'[q] = mine[q] /\ UNCHANGED <<files, log>>
  BY <1>2 DEF JInv, ReplacedIsOnDisk
<1> QED BY <1>1, <1>2, ReplacedStands DEF JInv, HInv

\* A request under way was under way, or has just been asked.
LEMMA ActorsStep == JInv /\ [Next]_vars => ActorsOK'
<1> SUFFICES ASSUME JInv, [Next]_vars PROVE ActorsOK'
  OBVIOUS
<1> DEFINE Signed(p, r) == r.op # "freeze" => /\ r.actor \in Atomic!Actors
                                              /\ p \in Humans => r.actor = "human" \/ r.op = "revise"
<1>1. /\ DOMAIN pc = Procs /\ DOMAIN req = Procs
      /\ Drivers \subseteq Procs /\ Humans \subseteq Procs /\ Drivers \cap Humans = {}
  BY ProcsAssumption DEF JInv, HInv, IInv, LockInv, TypeOK, RequestsOK, Procs
<1>2. \A p \in Procs : pc[p] # "idle" => Signed(p, req[p])
  BY DEF JInv, ActorsOK
<1>3. ASSUME NEW p \in Procs,
             \/ pc'[p] = "idle"
             \/ pc[p] # "idle" /\ req'[p] = req[p]
             \/ Signed(p, req'[p]),
             \A q \in Procs \ {p} : pc'[q] = pc[q] /\ req'[q] = req[q]
      PROVE  ActorsOK'
  BY <1>2, <1>3 DEF ActorsOK
<1>4. ASSUME NEW p \in Procs, NEW r, Ask(p, r), Signed(p, r) PROVE ActorsOK'
  <2> HIDE DEF Signed
  <2>1. req'[p] = r /\ \A q \in Procs \ {p} : pc'[q] = pc[q] /\ req'[q] = req[q]
    BY <1>1, <1>4 DEF Ask
  <2> QED BY <1>3, <1>4, <2>1
<1>10. ASSUME NEW d \in Procs \ Humans, NEW x, NEW from, NEW to,
              req' = [req EXCEPT ![d] = Transition("integrity-repair", x, from, to)],
              NEW s, pc' = [pc EXCEPT ![d] = s]
       PROVE  ActorsOK'
  <2> DEFINE r == Transition("integrity-repair", x, from, to)
  <2>1. Signed(d, r)
    BY <1>10 DEF Transition, Atomic!Actors
  <2> HIDE DEF Signed, r
  <2>2. req'[d] = r /\ \A q \in Procs \ {d} : pc'[q] = pc[q] /\ req'[q] = req[q]
    BY <1>1, <1>10 DEF r
  <2> QED BY <1>3, <2>1, <2>2
<1>5. {"driver", "human", "integrity-repair", "legacy-verification-return"} = Atomic!Actors
  BY DEF Atomic!Actors
<1> HIDE DEF Signed
<1>6. CASE UNCHANGED vars
  BY <1>6 DEF vars, JInv, ActorsOK
<1>7. ASSUME NEW d \in Drivers, DriverAsks(d) PROVE ActorsOK'
  <2> d \in Procs /\ d \notin Humans
    BY <1>1
  <2> USE DEF Transition
  <2>1. CASE BeginFreeze(d)
    <3>1. Signed(d, req'[d]) /\ \A q \in Procs \ {d} : pc'[q] = pc[q] /\ req'[q] = req[q]
      BY <1>1, <2>1 DEF BeginFreeze, Signed
    <3> QED BY <1>3, <3>1
  <2>2. ASSUME NEW s \in Subs, AskAdvance(d, s) PROVE ActorsOK'
    BY <2>2, <1>4, <1>5 DEF AskAdvance, Signed
  <2>3. ASSUME NEW s \in Subs, AskShip(d, s) PROVE ActorsOK'
    BY <2>3, <1>4, <1>5 DEF AskShip, Signed
  <2>4. ASSUME NEW s \in Subs, AskStrike(d, s) PROVE ActorsOK'
    BY <2>4, <1>4, <1>5 DEF AskStrike, Signed
  <2>5. ASSUME NEW s \in Subs, AskPass(d, s) PROVE ActorsOK'
    BY <2>5, <1>4, <1>5 DEF AskPass, Signed
  <2>6. ASSUME NEW s \in Subs, NEW red \in 0 .. Steps, AskRollback(d, s, red) PROVE ActorsOK'
    BY <2>6, <1>4, <1>5 DEF AskRollback, Signed
  <2>7. ASSUME NEW x \in Frozen, AskNote(d, x) PROVE ActorsOK'
    BY <2>7, <1>4, <1>5 DEF AskNote, Signed
  <2>8. CASE AskComplete(d)
    BY <2>8, <1>4, <1>5 DEF AskComplete, Signed
  <2>9. CASE AskAutoPark(d)
    BY <2>9, <1>4, <1>5 DEF AskAutoPark, Signed
  <2>10. CASE AskProjection(d)
    BY <2>10, <1>4, <1>5 DEF AskProjection, Signed
  <2>11. ASSUME NEW x \in Frozen, TakeSnapshot(d, x) PROVE ActorsOK'
    BY <2>11, <1>2 DEF TakeSnapshot, ActorsOK, Signed
  <2>12. CASE AskRestore(d) \/ \E x \in Frozen : CompareWithSnapshot(d, x)
    <3>1. ASSUME NEW x, NEW to, Compare(d, x, to) PROVE ActorsOK'
      <4>1. /\ req' = [req EXCEPT ![d] = Transition("integrity-repair", x, Nothing, to)]
            /\ pc' = [pc EXCEPT ![d] = "compared"]
        BY <3>1 DEF Compare
      <4> QED BY <1>10, <4>1
    <3>2. CASE AskRestore(d)
      <4>1. PICK from : req' = [req EXCEPT ![d] =
                   Transition("integrity-repair", req[d].path, from, req[d].to)]
        BY <3>2 DEF AskRestore
      <4>2. pc' = [pc EXCEPT ![d] = "asked"]
        BY <3>2 DEF AskRestore
      <4> QED BY <1>10, <4>1, <4>2
    <3> QED BY <2>12, <3>1, <3>2 DEF CompareWithSnapshot
  <2> QED BY <1>7, <2>1, <2>2, <2>3, <2>4, <2>5, <2>6, <2>7, <2>8, <2>9, <2>10, <2>11, <2>12
      DEF DriverAsks
<1>8. ASSUME NEW h \in Humans, HumanAsks(h) PROVE ActorsOK'
  <2> h \in Procs
    BY <1>1
  <2> USE DEF Transition
  <2>1. ASSUME NEW m, AskPark(h, m) \/ AskUnpark(h, m) PROVE ActorsOK'
    BY <2>1, <1>4, <1>5 DEF AskPark, AskUnpark, Signed
  <2>2. ASSUME NEW s \in Subs, AskRevise(h, s) PROVE ActorsOK'
    BY <2>2, <1>4, <1>5 DEF AskRevise, Signed
  <2>3. ASSUME NEW s \in Subs, AskReset(h, s) PROVE ActorsOK'
    <3>1. CASE UNCHANGED <<req, pc>>
      BY <3>1, <1>1, <1>2 DEF ActorsOK, Signed
    <3>2. CASE ~UNCHANGED <<req, pc>>
      <4>1. /\ Signed(h, req'[h])
            /\ \A q \in Procs \ {h} : pc'[q] = pc[q] /\ req'[q] = req[q]
        BY <2>3, <3>2, <1>1, <1>5 DEF AskReset, Signed
      <4> QED BY <4>1, <1>3
    <3> QED BY <3>1, <3>2
  <2> QED BY <1>8, <2>1, <2>2, <2>3 DEF HumanAsks
<1>9. ASSUME NEW p \in Procs, Serve(p) \/ Crash(p) PROVE ActorsOK'
  <2>1. /\ pc'[p] = "idle" \/ (pc[p] # "idle" /\ req'[p] = req[p])
        /\ \A q \in Procs \ {p} : pc'[q] = pc[q] /\ req'[q] = req[q]
    <3>1. CASE Crash(p) \/ Acquire(p) \/ Freeze(p)
      BY <1>1, <3>1 DEF Crash, Acquire, Freeze
    <3>2. ASSUME NEW left, Leave(p, left)
          PROVE  pc'[p] = "idle" /\ \A q \in Procs \ {p} : pc'[q] = pc[q] /\ req'[q] = req[q]
      BY <1>1, <3>2 DEF Leave
    <3>3. CASE Decline(p) \/ Finish(p) \/ \E g \in todo[p] : RefuseGuard(p, g) \/ RefuseSnapshot(p, g)
      BY <3>2, <3>3 DEF Decline, Finish, RefuseGuard, RefuseSnapshot
    <3>4. CASE WriteIntent(p) \/ Replace(p) \/ \E g \in todo[p] : CheckGuard(p, g) \/ RecoverSnapshot(p, g)
      BY <1>1, <3>4 DEF WriteIntent, AtTarget, Replace, CheckGuard, RecoverSnapshot
    <3> QED BY <1>9, <3>1, <3>3, <3>4 DEF Serve
  <2> QED BY <1>3, <2>1
<1> QED BY <1>6, <1>7, <1>8, <1>9 DEF Next

THEOREM JournalInductive == Spec => []JInv
<1>1. Init => JInv
  <2> SUFFICES ASSUME Init PROVE JInv
    OBVIOUS
  <2>1. HInv
    <3>1. DriversAskAsDrivers
      BY DEF Init, DriversAskAsDrivers, Procs
    <3> QED BY <3>1, InitEstablishes DEF HInv
  <2>2. \A x \in Paths : Effects(log, files, x) = {} /\ Pending(log, x) = {}
    BY DEF Init, Effects, Pending
  <2>3. AtMostOne(log) /\ IntentsChange(log)
    BY <2>2 DEF Init, AtMostOne, IntentsChange
  <2>4. Explains(log, files)
    BY <2>2 DEF Init, Explains, ExplainsPath, LastOf
  <2>5. ActorsOK /\ ReplacedIsOnDisk
    BY DEF Init, ActorsOK, ReplacedIsOnDisk
  <2> QED BY <2>1, <2>3, <2>4, <2>5 DEF JInv
<1>2. JInv /\ [Next]_vars => JInv'
  <2>1. HInv /\ [Next]_vars => HInv'
    BY StepKeeps, HoldsStep DEF HInv, AskInv, IInv
  <2> QED BY <2>1, ExplanationStep, ReplacedStep, ActorsStep DEF JInv
<1> QED BY <1>1, <1>2, PTL DEF Spec

\* A path never has two intents open, whoever crashes and recovers.
THEOREM OneIntentPending == Spec => []OnePending
<1>1. JInv => OnePending
  BY DEF JInv, AtMostOne, OnePending
<1> QED BY <1>1, JournalInductive, PTL

\* No update is lost and none invented: the effective intents of a path lead
\* from the queued plan to the bytes on disk, one link after the other.
THEOREM JournalIsExplanation == Spec => []JournalExplainsFiles
<1>1. JInv => JournalExplainsFiles
  BY ExplainsIsInvariant DEF JInv
<1> QED BY <1>1, JournalInductive, PTL

-----------------------------------------------------------------------------
(* The refinement.                                                         *)

\* History, as an operator of a journal and the files.
EffectiveOf(rows, f) == UNION {Effects(rows, f, x) : x \in Paths}

HistoryOf(rows, f) == [n \in EffectiveOf(rows, f) |-> Changed(rows[n])]

LEMMA HistoryIs == /\ History = HistoryOf(log, files)
                   /\ History' = HistoryOf(log', files')
<1>1. \A x \in Paths : Written(x) = Effects(log, files, x)
  BY DEF Written, Effects
<1>2. \A x \in Paths : Written(x)' = Effects(log', files', x)
  BY DEF Written, Effects
<1>3. Effective = EffectiveOf(log, files) /\ Effective' = EffectiveOf(log', files')
  BY <1>1, <1>2 DEF Effective, EffectiveOf
<1> QED BY <1>3 DEF History, HistoryOf, Changed

\* A step that changes no effect is no step of the atomic store.
LEMMA QuietStutters ==
  ASSUME JournalOK(log), Quiet
  PROVE  UNCHANGED <<files, History>>
<1>1. EffectiveOf(log', files) = EffectiveOf(log, files)
  BY DEF Quiet, EffectiveOf
<1>2. \A n \in EffectiveOf(log, files) : log'[n] = log[n]
  <2>1. \A x \in Paths : Effects(log, files, x) \subseteq 1 .. Len(log)
    BY EffectsAreRows
  <2> QED BY <2>1 DEF Quiet, Extends, EffectiveOf
<1>3. HistoryOf(log', files) = HistoryOf(log, files)
  BY <1>1, <1>2 DEF HistoryOf
<1> QED BY <1>3, HistoryIs DEF Quiet

\* A request that is no human's and meets a held plan leaves its owned state,
\* lifts a quarantine, or repairs what a worker changed.
LEMMA HeldIsKeptOrLifted ==
  ASSUME JInv, NEW p \in Procs, pc[p] # "idle", req[p].op # "freeze",
         NEW c \in Contents, Permitted(req[p], c), Held(c), req[p].actor # "human"
  PROVE  LET after == NewContent(req[p], c) IN
         \/ OwnedState(after) = OwnedState(c)
         \/ Atomic!Lifts(c, after)
         \/ Atomic!Repairs(req[p].actor, c, after)
<1> DEFINE r == req[p]
           after == NewContent(r, c)
<1>1. r.op \in {"transition", "revise", "projection"}
  BY DEF JInv, HInv, IInv, LockInv, RequestsOK, RequestOK
<1>2. r.op # "revise"
  BY DEF Permitted
<1>3. p \in Drivers /\ DriverRequest(r, ctx[p])
  BY <1>2 DEF JInv, HInv, DriversAskAsDrivers, ActorsOK, Procs
<1>4. CASE r.op = "projection"
  BY <1>3, <1>4, NewContentFields DEF DriverRequest, OwnedState, OwnedFields
<1>5. CASE r.op = "transition"
  <2>1. Matches(c, r.from) /\ (Releases(r, c) \/ Repairs(r, c))
    BY <1>5 DEF Permitted, Authorised
  <2>2. CASE Repairs(r, c)
    <3>1. /\ r.actor = "integrity-repair" /\ DOMAIN r.to \subseteq {"status", "hold"}
          /\ c.hold = "human" => ("hold" \in DOMAIN r.to => r.to.hold = "human")
      BY <2>2 DEF Repairs
    <3>2. /\ after.current_step = c.current_step
          /\ after.auto_block_fails = c.auto_block_fails
          /\ c.hold = "human" => after.hold = "human"
      BY <3>1, NewContentFields
    <3> HIDE DEF after
    <3>3. OwnedState(after) = [OwnedState(c) EXCEPT !.status = after.status,
                                                    !.hold = after.hold]
      BY <3>2 DEF OwnedState, OwnedFields
    <3> QED BY <3>1, <3>2, <3>3
        DEF Atomic!Repairs, Atomic!OwnedState, Atomic!OwnedFields, OwnedState, OwnedFields, after
  <2>3. CASE Releases(r, c)
    <3>1. /\ c.status = "blocked" /\ c.hold # "human" /\ c.auto_block_fails > 0
          /\ r.to = [status |-> "in-progress", auto_block_fails |-> 0]
      BY <2>3 DEF Releases
    <3>2. /\ after.status = "in-progress" /\ after.auto_block_fails = 0
          /\ after.current_step = c.current_step /\ after.hold = c.hold
      BY <3>1, NewContentFields
    <3> HIDE DEF after
    <3>3. OwnedState(after) = [OwnedState(c) EXCEPT !.status = "in-progress", !.auto_block_fails = 0]
      BY <3>2 DEF OwnedState, OwnedFields
    <3> QED BY <3>1, <3>3 DEF Atomic!Lifts, Atomic!OwnedState, Atomic!OwnedFields, OwnedState, OwnedFields, after
  <2> QED BY <2>1, <2>2, <2>3
<1> QED BY <1>1, <1>2, <1>4, <1>5

\* os.replace is the atomic change.
LEMMA ReplacementIsAtomic ==
  ASSUME JInv, NEW p \in Procs, Replace(p)
  PROVE  Atomic!Change(req[p].path)
<1> DEFINE r == req[p]
           x == r.path
           n == mine[p]
           c == files[x]
           change == [path |-> x, actor |-> r.actor, before |-> c, after |-> files'[x]]
<1>1. /\ JournalOK(log) /\ AtMostOne(log)
      /\ n = Len(log) /\ n \in Pending(log, x) /\ x \in Paths
      /\ log[n].path = x /\ log[n].actor = r.actor
      /\ log[n].before = c /\ log[n].after = NewContent(r, c)
      /\ log[n].before # log[n].after
      /\ c \in Contents /\ Permitted(r, c) /\ pc[p] = "intended" /\ r.op # "freeze"
      /\ UNCHANGED log /\ files' = [files EXCEPT ![x] = log[n].after]
  BY ReplacementFacts
<1>2. DOMAIN files = Paths /\ Len(log) \in Nat /\ DOMAIN log = 1 .. Len(log)
  BY <1>1, JournalIsSeq DEF JInv, HInv, IInv, LockInv, TypeOK
<1>3. files'[x] = log[n].after /\ \A z \in Paths \ {x} : files'[z] = files[z]
  BY <1>1, <1>2
<1>4. \A z \in Paths : /\ z = x => Effects(log, files', z) = Effects(log, files, z) \cup {n}
                       /\ z # x => Effects(log, files', z) = Effects(log, files, z)
  <2>1. Carries(log, n, files, files') /\ log[n].path = x
    BY <1>1, <1>3 DEF Carries
  <2> HIDE DEF n, x, c
  <2>2. \A z \in Paths :
          /\ z = log[n].path => Effects(log, files', z) = Effects(log, files, z) \cup {n}
          /\ z # log[n].path => Effects(log, files', z) = Effects(log, files, z)
    BY <2>1, ReplacedEffects
  <2> QED BY <2>1, <2>2
<1>5. EffectiveOf(log, files') = EffectiveOf(log, files) \cup {n}
  <2> HIDE DEF n, x
  <2>1. x \in Paths
    BY <1>1
  <2>2. ASSUME NEW k PROVE k \in EffectiveOf(log, files') <=> k \in EffectiveOf(log, files) \/ k = n
    BY <1>4, <2>1 DEF EffectiveOf
  <2> QED BY <2>2
<1>6. \A k \in EffectiveOf(log, files) : k \in Int /\ k < n
  <2>1. \A z \in Paths : Effects(log, files, z) \subseteq 1 .. Len(log)
    BY <1>1, EffectsAreRows
  <2>2. n \notin EffectiveOf(log, files)
    <3>1. n \in DOMAIN log /\ ~ \E j \in DOMAIN log : Completes(log, n, j)
      BY <1>1 DEF Pending
    <3>2. \A z \in Paths : n \in Effects(log, files, z) => z = x /\ files[z] = log[n].after
      BY <1>1, <3>1 DEF Effects
    <3> QED BY <1>1, <3>2 DEF EffectiveOf
  <2>3. \A k \in EffectiveOf(log, files) : k \in 1 .. n /\ k # n
    BY <1>1, <2>1, <2>2 DEF EffectiveOf
  <2> QED BY <1>1, <1>2, <2>3
<1>7. Changed(log[n]) = change
  BY <1>1, <1>3 DEF Changed
<1> HIDE DEF n, x, c, change, r
<1>8. /\ DOMAIN History = EffectiveOf(log, files)
      /\ DOMAIN History' = EffectiveOf(log, files')
      /\ History' = [k \in DOMAIN History \cup {n} |->
                       IF k = n THEN change ELSE History[k]]
  BY <1>1, <1>5, <1>7, HistoryIs DEF HistoryOf
<1>9. Atomic!Record(n, change)
  BY <1>6, <1>8 DEF Atomic!Record
<1>10. n \in DOMAIN History'
  BY <1>5, <1>8
<1>11. r.actor # "human" /\ Held(c) =>
         \/ OwnedState(files'[x]) = OwnedState(c)
         \/ Atomic!Lifts(c, files'[x])
         \/ Atomic!Repairs(r.actor, c, files'[x])
  BY <1>1, <1>3, HeldIsKeptOrLifted DEF r
<1>12. r.actor \in Atomic!Actors
  BY <1>1 DEF JInv, ActorsOK, r
<1>13. files'[x] # files[x] /\ files' = [files EXCEPT ![x] = files'[x]]
  BY <1>1, <1>3 DEF c
<1> QED BY <1>9, <1>10, <1>11, <1>12, <1>13
    DEF Atomic!Change, Atomic!Held, Held, Atomic!HeldStatuses, HeldStatuses,
        Atomic!OwnedState, Atomic!OwnedFields, OwnedState, OwnedFields, change, c, x, r

\* transition() is atomic for its callers: whatever crashes between intent,
\* replacement and completion, and whoever recovers, the plans change as the
\* store of AtomicPlans lets them.
THEOREM PlanStateImplementsAtomic == Spec => TransitionsAreAtomic
<1>1. Init => Atomic!Init
  <2> SUFFICES ASSUME Init PROVE Atomic!Init
    OBVIOUS
  <2>1. EffectiveOf(log, files) = {}
    BY DEF Init, EffectiveOf, Effects
  <2>2. History = <<>>
    BY <2>1, HistoryIs DEF HistoryOf
  <2> QED BY <2>2 DEF Init, Atomic!Init
<1>2. JInv /\ [Next]_vars => [Atomic!Next]_<<files, History>>
  <2> SUFFICES ASSUME JInv, [Next]_vars PROVE Atomic!Next \/ UNCHANGED <<files, History>>
    OBVIOUS
  <2>1. JournalOK(log)
    BY DEF JInv, HInv, IInv, LockInv, TypeOK
  <2>2. CASE UNCHANGED <<files, log>>
    <3>1. Quiet
      BY <2>1, <2>2, JournalIsSeq DEF Quiet, Extends
    <3> QED BY <2>1, <3>1, QuietStutters
  <2>3. CASE Quiet
    BY <2>1, <2>3, QuietStutters
  <2>4. ASSUME NEW p \in Procs, Replace(p) PROVE Atomic!Next
    BY <2>4, ReplacementIsAtomic, ReplacementFacts DEF Atomic!Next
  <2>5. \/ UNCHANGED <<files, log>>
        \/ UNCHANGED files /\ \E x \in Paths : log' = Recovered(log, x, files[x])
        \/ \E p \in Procs : WriteIntent(p) \/ Replace(p) \/ Finish(p)
    BY StepKinds DEF JInv, HInv, IInv
  <2> QED BY <2>2, <2>3, <2>4, <2>5, RecoveryIsQuiet, IntentIsQuiet, CompletionIsQuiet
<1> QED BY <1>1, <1>2, JournalInductive, PTL DEF Spec, TransitionsAreAtomic, Atomic!Spec

-----------------------------------------------------------------------------
(* What the audit computes.  Replay is a recursive function: that there is *)
(* one, and that a longer journal leaves its cells as they are, holds by   *)
(* induction over the rows, which is made here with the first row at which *)
(* it would fail.  From these two facts follows what one more row does to  *)
(* the replayed state, to the orphans and to the transitions that do not   *)
(* start where the replay is: all the proofs about audits rest on that.    *)

\* A set of naturals that is not empty has a least element.
LEMMA LeastOfNaturals ==
  ASSUME NEW S \in SUBSET Nat, S # {}
  PROVE  \E n \in S : \A k \in S : n <= k
<1> DEFINE Less == {ss \in Nat \X Nat : ss[1] < ss[2]}
<1>1. IsWellFoundedOn(Less, Nat)
  BY NatLessThanWellFounded DEF OpToRel
<1>2. PICK n \in S : \A k \in S : ~ (<<k, n>> \in Less)
  <2> HIDE DEF Less
  <2> QED BY <1>1, WFMin
<1>3. ASSUME NEW k \in S PROVE n <= k
  <2>1. k \in Nat /\ n \in Nat
    OBVIOUS
  <2>2. k < n => <<k, n>> \in Less
    BY <2>1
  <2> QED BY <1>2, <2>1, <2>2
<1> QED BY <1>3

\* The state after row n, given the one before it.
ReplayRow(rows, c, before, n) ==
  IF Wrote(rows[n]) /\ rows[n].path \in DOMAIN c.snap
  THEN [before EXCEPT ![rows[n].path] = Project(@, rows[n].to)]
  ELSE before

\* f replays the rows up to k.
Replays(f, rows, c, k) ==
  f = [n \in c.cursor .. k |->
         IF n = c.cursor THEN c.snap ELSE ReplayRow(rows, c, f[n - 1], n)]

\* The rows up to any k can be replayed.
LEMMA ReplayExists ==
  ASSUME NEW rows, NEW c, c.cursor \in Nat, NEW k \in Nat, c.cursor <= k
  PROVE  \E f : Replays(f, rows, c, k)
<1> DEFINE Bad == {n \in Nat : c.cursor <= n /\ ~ \E f : Replays(f, rows, c, n)}
<1>1. SUFFICES ASSUME Bad # {} PROVE FALSE
  OBVIOUS
<1>2. PICK n \in Bad : \A i \in Bad : n <= i
  <2> HIDE DEF Bad
  <2>1. Bad \in SUBSET Nat
    BY DEF Bad
  <2> QED BY <1>1, <2>1, LeastOfNaturals
<1>3. n \in Nat /\ c.cursor <= n /\ ~ \E f : Replays(f, rows, c, n)
  OBVIOUS
<1>4. CASE n = c.cursor
  <2> DEFINE f == [i \in c.cursor .. n |-> c.snap]
  <2>1. \A i \in c.cursor .. n : i = c.cursor
    BY <1>4
  <2>2. f = [i \in c.cursor .. n |->
               IF i = c.cursor THEN c.snap ELSE ReplayRow(rows, c, f[i - 1], i)]
    BY <2>1
  <2> HIDE DEF f
  <2> QED BY <1>3, <2>2 DEF Replays
<1>5. CASE n # c.cursor
  <2>1. n - 1 \in Nat /\ c.cursor <= n - 1 /\ ~(n <= n - 1)
    BY <1>3, <1>5
  <2>2. PICK g : Replays(g, rows, c, n - 1)
    BY <1>2, <2>1
  <2> DEFINE cell(i) == IF i = c.cursor THEN c.snap ELSE ReplayRow(rows, c, g[i - 1], i)
             f == [i \in c.cursor .. n |-> cell(i)]
  <2>3. \A i \in c.cursor .. (n - 1) : g[i] = cell(i)
    BY <2>2 DEF Replays
  <2> HIDE DEF cell
  <2>4. \A i \in c.cursor .. (n - 1) : i \in c.cursor .. n /\ f[i] = g[i]
    BY <2>1, <2>3
  <2>5. \A i \in c.cursor .. n : i # c.cursor => i - 1 \in c.cursor .. (n - 1)
    BY <1>3
  <2>6. \A i \in c.cursor .. n : cell(i) =
          IF i = c.cursor THEN c.snap ELSE ReplayRow(rows, c, f[i - 1], i)
    BY <2>4, <2>5 DEF cell
  <2>7. f = [i \in c.cursor .. n |->
               IF i = c.cursor THEN c.snap ELSE ReplayRow(rows, c, f[i - 1], i)]
    BY <2>6
  <2> HIDE DEF f
  <2> QED BY <1>3, <2>7 DEF Replays
<1> QED BY <1>4, <1>5

\* So Replay is what its recursion says.
LEMMA ReplayEquation ==
  ASSUME NEW rows, Len(rows) \in Nat, NEW c, c.cursor \in Nat, c.cursor <= Len(rows)
  PROVE  /\ Replay(rows, c)[c.cursor] = c.snap
         /\ \A n \in (c.cursor + 1) .. Len(rows) :
              Replay(rows, c)[n] = ReplayRow(rows, c, Replay(rows, c)[n - 1], n)
<1> DEFINE F == Replay(rows, c)
<1>1. F = CHOOSE f : f = [n \in c.cursor .. Len(rows) |->
             IF n = c.cursor THEN c.snap
             ELSE IF Wrote(rows[n]) /\ rows[n].path \in DOMAIN c.snap
                  THEN [f[n - 1] EXCEPT ![rows[n].path] = Project(@, rows[n].to)]
                  ELSE f[n - 1]]
  BY DEF Replay
<1>2. F = CHOOSE f : Replays(f, rows, c, Len(rows))
  BY <1>1 DEF Replays, ReplayRow
<1>3. Replays(F, rows, c, Len(rows))
  BY <1>2, ReplayExists
<1> HIDE DEF F
<1>4. \A n \in c.cursor .. Len(rows) :
        F[n] = IF n = c.cursor THEN c.snap ELSE ReplayRow(rows, c, F[n - 1], n)
  BY <1>3 DEF Replays
<1>5. F[c.cursor] = c.snap
  BY <1>4
<1>6. \A n \in (c.cursor + 1) .. Len(rows) : F[n] = ReplayRow(rows, c, F[n - 1], n)
  BY <1>4
<1> QED BY <1>5, <1>6 DEF F

\* new is a journal rows and one row more.
OneMore(new, rows) ==
  /\ Len(rows) \in Nat /\ Len(new) = Len(rows) + 1
  /\ \A n \in 1 .. Len(rows) : new[n] = rows[n]

\* A context frozen at a row of the journal, or before its first.
FrozenIn(c, rows) == Len(rows) \in Nat /\ c.cursor \in Nat /\ c.cursor <= Len(rows)

\* One more row leaves the replay of the others as it was.
LEMMA ReplayIsStable ==
  ASSUME NEW rows, NEW c, FrozenIn(c, rows), NEW new, OneMore(new, rows)
  PROVE  \A n \in c.cursor .. Len(rows) : Replay(new, c)[n] = Replay(rows, c)[n]
<1> DEFINE F == Replay(rows, c)
           G == Replay(new, c)
           Bad == {n \in c.cursor .. Len(rows) : G[n] # F[n]}
<1>1. /\ F[c.cursor] = c.snap
      /\ \A n \in (c.cursor + 1) .. Len(rows) : F[n] = ReplayRow(rows, c, F[n - 1], n)
  BY ReplayEquation DEF FrozenIn
<1>2. Len(new) \in Nat /\ c.cursor \in Nat /\ c.cursor <= Len(new) /\ Len(rows) \in Nat
  BY DEF FrozenIn, OneMore
<1>3. /\ G[c.cursor] = c.snap
      /\ \A n \in (c.cursor + 1) .. Len(new) : G[n] = ReplayRow(new, c, G[n - 1], n)
  BY <1>2, ReplayEquation
<1>4. \A n \in (c.cursor + 1) .. Len(rows) : n \in (c.cursor + 1) .. Len(new) /\ new[n] = rows[n]
  BY <1>2 DEF OneMore
<1> HIDE DEF F, G
<1>5. SUFFICES ASSUME Bad # {} PROVE FALSE
  BY DEF F, G
<1>6. PICK n \in Bad : \A k \in Bad : n <= k
  <2>1. Bad \in SUBSET Nat
    BY <1>2
  <2> HIDE DEF Bad
  <2> QED BY <1>5, <2>1, LeastOfNaturals
<1>7. n \in (c.cursor + 1) .. Len(rows) /\ G[n] # F[n]
  BY <1>1, <1>2, <1>3
<1>8. n - 1 \in c.cursor .. Len(rows) /\ ~(n <= n - 1)
  BY <1>2, <1>7
<1>9. G[n - 1] = F[n - 1]
  BY <1>6, <1>8
<1>10. ReplayRow(new, c, G[n - 1], n) = ReplayRow(rows, c, F[n - 1], n)
  BY <1>4, <1>7, <1>9 DEF ReplayRow
<1> QED BY <1>1, <1>3, <1>4, <1>7, <1>10

\* The replayed state of the whole journal.
Replayed(rows, c) == Replay(rows, c)[Len(rows)]

\* Every replayed state has the plans and the fields of the snapshot.
IsSnapshot(state, plans) ==
  /\ DOMAIN state = plans
  /\ \A x \in plans : /\ DOMAIN state[x] = OwnedFields
                      /\ state[x] = [k \in OwnedFields |-> state[x][k]]

LEMMA ReplayedIsSnapshot ==
  ASSUME NEW rows, NEW c, FrozenIn(c, rows), NEW plans, IsSnapshot(c.snap, plans)
  PROVE  IsSnapshot(Replayed(rows, c), plans)
<1> DEFINE F == Replay(rows, c)
           Bad == {n \in c.cursor .. Len(rows) : ~IsSnapshot(F[n], plans)}
<1>1. /\ F[c.cursor] = c.snap
      /\ \A n \in (c.cursor + 1) .. Len(rows) : F[n] = ReplayRow(rows, c, F[n - 1], n)
  BY ReplayEquation DEF FrozenIn
<1>2. Len(rows) \in Nat /\ c.cursor \in Nat /\ Len(rows) \in c.cursor .. Len(rows)
  BY DEF FrozenIn
<1>3. ASSUME NEW s, IsSnapshot(s, plans), NEW n PROVE IsSnapshot(ReplayRow(rows, c, s, n), plans)
  BY <1>3 DEF IsSnapshot, ReplayRow, Project
<1> HIDE DEF F
<1>4. ASSUME Bad # {} PROVE FALSE
  <2>1. PICK n \in Bad : \A k \in Bad : n <= k
    <3>1. Bad \in SUBSET Nat
      BY <1>2
    <3> HIDE DEF Bad
    <3> QED BY <1>4, <3>1, LeastOfNaturals
  <2>2. n \in (c.cursor + 1) .. Len(rows) /\ ~IsSnapshot(F[n], plans)
    BY <1>1, <1>2
  <2>3. n - 1 \in c.cursor .. Len(rows) /\ ~(n <= n - 1)
    BY <1>2, <2>2
  <2>4. IsSnapshot(F[n - 1], plans)
    BY <2>1, <2>3
  <2> QED BY <1>1, <1>3, <2>2, <2>4
<1> QED BY <1>2, <1>4 DEF F, Replayed

\* What one more row does to the replayed state: nothing but the set half of
\* a transition that was carried out, on the plan it names.
LEMMA ReplayedGrows ==
  ASSUME NEW rows, NEW c, FrozenIn(c, rows), NEW new, OneMore(new, rows),
         NEW plans, IsSnapshot(c.snap, plans)
  PROVE  LET row == new[Len(new)] IN
         \A x \in plans :
           Replayed(new, c)[x] = IF Wrote(row) /\ row.path = x
                                 THEN Project(Replayed(rows, c)[x], row.to)
                                 ELSE Replayed(rows, c)[x]
<1> DEFINE row == new[Len(new)]
<1>1. /\ Len(new) \in Nat /\ Len(rows) \in Nat /\ c.cursor \in Nat /\ c.cursor <= Len(new)
      /\ Len(new) \in (c.cursor + 1) .. Len(new) /\ Len(new) - 1 = Len(rows)
      /\ Len(rows) \in c.cursor .. Len(rows)
  BY DEF FrozenIn, OneMore
<1>2. \A n \in (c.cursor + 1) .. Len(new) :
        Replay(new, c)[n] = ReplayRow(new, c, Replay(new, c)[n - 1], n)
  BY <1>1, ReplayEquation
<1>3. Replay(new, c)[Len(new)] = ReplayRow(new, c, Replay(new, c)[Len(rows)], Len(new))
  BY <1>1, <1>2
<1>4. Replay(new, c)[Len(rows)] = Replay(rows, c)[Len(rows)]
  BY <1>1, ReplayIsStable
<1>5. Replayed(new, c) = ReplayRow(new, c, Replayed(rows, c), Len(new))
  BY <1>3, <1>4 DEF Replayed
<1>6. IsSnapshot(Replayed(rows, c), plans)
  BY ReplayedIsSnapshot
<1> QED BY <1>5, <1>6 DEF ReplayRow, IsSnapshot

\* An audit that found a transition out of place goes on finding it, and finds
\* no other but the row that was added.
LEMMA UnexplainedGrows ==
  ASSUME NEW rows, NEW c, FrozenIn(c, rows), NEW new, OneMore(new, rows)
  PROVE  LET row == new[Len(new)] IN
         StartsUnexplained(new, c) <=>
           \/ StartsUnexplained(rows, c)
           \/ /\ Wrote(row) /\ row.path \in DOMAIN c.snap
              /\ ~Matches(Replayed(rows, c)[row.path], row.from)
<1> DEFINE row == new[Len(new)]
           Out(seq, n) == /\ Wrote(seq[n]) /\ seq[n].path \in DOMAIN c.snap
                           /\ ~Matches(Replay(seq, c)[n - 1][seq[n].path], seq[n].from)
<1>1. /\ Len(new) \in Nat /\ Len(rows) \in Nat /\ c.cursor \in Nat
      /\ Len(new) = Len(rows) + 1 /\ c.cursor <= Len(rows)
      /\ Len(rows) \in c.cursor .. Len(rows)
  BY DEF FrozenIn, OneMore
<1>2. \A n \in (c.cursor + 1) .. Len(rows) :
        n - 1 \in c.cursor .. Len(rows) /\ new[n] = rows[n]
  BY <1>1 DEF OneMore
<1>3. \A n \in (c.cursor + 1) .. Len(rows) : Out(new, n) <=> Out(rows, n)
  BY <1>2, ReplayIsStable
<1>4. Out(new, Len(new)) <=> /\ Wrote(row) /\ row.path \in DOMAIN c.snap
                             /\ ~Matches(Replayed(rows, c)[row.path], row.from)
  <2>1. Len(new) - 1 = Len(rows)
    BY <1>1
  <2>2. Replay(new, c)[Len(rows)] = Replayed(rows, c)
    BY <1>1, ReplayIsStable DEF Replayed
  <2> QED BY <2>1, <2>2
<1>5. /\ StartsUnexplained(new, c) <=> \E n \in (c.cursor + 1) .. Len(new) : Out(new, n)
      /\ StartsUnexplained(rows, c) <=> \E n \in (c.cursor + 1) .. Len(rows) : Out(rows, n)
  BY DEF StartsUnexplained
<1> HIDE DEF Out, row
<1>6. \A n \in Int : n \in (c.cursor + 1) .. Len(new)
                        <=> n \in (c.cursor + 1) .. Len(rows) \/ n = Len(new)
  BY <1>1
<1>7. StartsUnexplained(new, c) <=> StartsUnexplained(rows, c) \/ Out(new, Len(new))
  BY <1>1, <1>3, <1>5, <1>6
<1> QED BY <1>4, <1>7 DEF row

\* A completion is an orphan when its intent is not after the cursor.
LEMMA OrphansGrow ==
  ASSUME NEW rows, NEW c, FrozenIn(c, rows), NEW new, OneMore(new, rows)
  PROVE  LET row == new[Len(new)] IN
         Orphans(new, c) = Orphans(rows, c)
           \cup (IF ~IsIntent(row) /\ row.id <= c.cursor THEN {Len(new)} ELSE {})
<1>1. /\ Len(new) \in Nat /\ Len(rows) \in Nat /\ c.cursor \in Nat
      /\ Len(new) = Len(rows) + 1 /\ c.cursor <= Len(rows)
  BY DEF FrozenIn, OneMore
<1>2. \A n \in (c.cursor + 1) .. Len(rows) : new[n] = rows[n]
  BY <1>1 DEF OneMore
<1>3. \A n \in Int : n \in (c.cursor + 1) .. Len(new)
                        <=> n \in (c.cursor + 1) .. Len(rows) \/ n = Len(new)
  BY <1>1
<1>4. Len(new) \notin (c.cursor + 1) .. Len(rows)
  BY <1>1
<1> QED BY <1>1, <1>2, <1>3, <1>4 DEF Orphans

\* A context frozen at the end of the journal has replayed nothing yet.
LEMMA ReplayStarts ==
  ASSUME NEW rows, Len(rows) \in Nat, NEW c, c.cursor = Len(rows)
  PROVE  /\ Replayed(rows, c) = c.snap
         /\ ~StartsUnexplained(rows, c) /\ Orphans(rows, c) = {}
<1>1. (c.cursor + 1) .. Len(rows) = {}
  OBVIOUS
<1>2. Replay(rows, c)[c.cursor] = c.snap
  BY ReplayEquation
<1> QED BY <1>1, <1>2 DEF Replayed, StartsUnexplained, Orphans

-----------------------------------------------------------------------------
(* The audit of a frozen iteration.                                        *)

\* Every intent of the journal is compare-and-set of owned fields.
Applies(row) ==
  /\ Matches(row.before, row.from)
  /\ OwnedState(row.after) = Project(OwnedState(row.before), row.to)

RowsApply(rows) == \A i \in DOMAIN rows : IsIntent(rows[i]) => Applies(rows[i])

Explicables(rows, f) == \A x \in Paths : Explicable(rows, x, f[x])

\* The replay is at the plan's owned state, an open intent being still to come.
Follows(rows, c, f, x) ==
  /\ Pending(rows, x) = {} => Replayed(rows, c)[x] = OwnedState(f[x])
  /\ \A i \in Pending(rows, x) : i > c.cursor /\ Replayed(rows, c)[x] = OwnedState(rows[i].before)

Tracks(rows, c, f) ==
  /\ FrozenIn(c, rows) /\ IsSnapshot(c.snap, Frozen)
  /\ ~StartsUnexplained(rows, c)
  /\ \A x \in Frozen : Follows(rows, c, f, x)

\* Nothing the cursor covers is open, nor was it when it was closed.
Covered(rows, c) ==
  /\ Orphans(rows, c) = {}
  /\ \A x \in Paths : \A i \in Pending(rows, x) : i > c.cursor

\* A projection applied to a plan is seen in its owned state.
LEMMA OwnedStateOfProjection ==
  ASSUME NEW c \in Contents, NEW to, Partial(to)
  PROVE  /\ OwnedState(Project(c, to)) = Project(OwnedState(c), to)
         /\ DOMAIN OwnedState(c) = OwnedFields
         /\ Matches(c, to) => Matches(OwnedState(c), to)
<1>1. OwnedFields \subseteq DOMAIN c
  BY DEF Contents, OwnedFields
<1> QED BY <1>1 DEF OwnedState, Project, Matches, Partial

LEMMA OwnedStateOfNewContent ==
  ASSUME NEW r, NEW c \in Contents, Partial(r.to)
  PROVE  OwnedState(NewContent(r, c)) = Project(OwnedState(c), r.to)
<1>1. \A k \in OwnedFields : NewContent(r, c)[k] = Project(c, r.to)[k]
  BY NewContentFields DEF OwnedFields, Project, Contents
<1>2. OwnedState(NewContent(r, c)) = OwnedState(Project(c, r.to))
  BY <1>1 DEF OwnedState
<1> QED BY <1>2, OwnedStateOfProjection

LEMMA AppendIsOneMore ==
  ASSUME NEW rows, JournalOK(rows), NEW row
  PROVE  LET new == Append(rows, row) IN
         /\ OneMore(new, rows) /\ new[Len(new)] = row /\ Len(new) = Len(rows) + 1
         /\ Len(rows) \in Nat
         /\ DOMAIN rows = 1 .. Len(rows) /\ DOMAIN new = 1 .. Len(new)
  BY AppendRow, JournalIsSeq DEF OneMore, Extends

\* Completing an open intent, as what the bytes say it was, keeps the replay
\* in step.
LEMMA CompletionTracks ==
  ASSUME NEW rows, JournalOK(rows), AtMostOne(rows), RowsApply(rows),
         NEW f, NEW c, Tracks(rows, c, f),
         NEW y \in Paths, NEW i \in Pending(rows, y), NEW phase \in Phases \ {"intent"},
         Wrote(Completion(rows[i], phase)) <=> f[y] = rows[i].after,
         f[y] \in {rows[i].before, rows[i].after}
  PROVE  Tracks(Append(rows, Completion(rows[i], phase)), c, f)
<1> DEFINE row == Completion(rows[i], phase)
           new == Append(rows, row)
<1>1. /\ FrozenIn(c, rows) /\ IsSnapshot(c.snap, Frozen) /\ ~StartsUnexplained(rows, c)
      /\ \A x \in Frozen : Follows(rows, c, f, x)
  BY DEF Tracks
<1>2. /\ OneMore(new, rows) /\ new[Len(new)] = row
      /\ Len(rows) \in Nat /\ DOMAIN rows = 1 .. Len(rows) /\ Len(new) = Len(rows) + 1
      /\ \A k \in 1 .. Len(rows) : new[k] = rows[k]
  BY AppendIsOneMore DEF OneMore
<1>3. i \in 1 .. Len(rows) /\ IsIntent(rows[i]) /\ rows[i].path = y /\ RowOK(rows, i)
  BY <1>2 DEF Pending, JournalOK
<1>4. row.path = y /\ row.from = rows[i].from /\ row.to = rows[i].to
  BY <1>3 DEF RowOK, Completion
<1>5. /\ rows[i].before \in Contents /\ Partial(rows[i].from) /\ Partial(rows[i].to)
      /\ Matches(rows[i].before, rows[i].from)
      /\ OwnedState(rows[i].after) = Project(OwnedState(rows[i].before), rows[i].to)
  BY <1>2, <1>3 DEF RowOK, RowsApply, Applies
<1>6. Matches(OwnedState(rows[i].before), rows[i].from)
  BY <1>5, OwnedStateOfProjection
<1>7. \A x \in Paths : Pending(new, x) = Pending(rows, x) \ {i}
  BY AppendCompletion
<1>8. Pending(rows, y) = {i} /\ \A x \in Paths : x # y => i \notin Pending(rows, x)
  BY <1>3 DEF AtMostOne, Pending
<1>9. y \in Frozen => i > c.cursor /\ Replayed(rows, c)[y] = OwnedState(rows[i].before)
  BY <1>1 DEF Follows
<1>10. Wrote(row) <=> f[y] = rows[i].after
  OBVIOUS
<1> HIDE DEF new, row
<1>11. FrozenIn(c, new)
  BY <1>1, <1>2 DEF FrozenIn
<1>12. ~StartsUnexplained(new, c)
  BY <1>1, <1>2, <1>4, <1>6, <1>9, UnexplainedGrows DEF IsSnapshot
<1>13. \A x \in Frozen : Replayed(new, c)[x] = IF Wrote(row) /\ y = x
                                              THEN Project(Replayed(rows, c)[x], rows[i].to)
                                              ELSE Replayed(rows, c)[x]
  BY <1>1, <1>2, <1>4, ReplayedGrows
<1>14. ASSUME NEW x \in Frozen PROVE Follows(new, c, f, x)
  <2>1. x \in Paths /\ Follows(rows, c, f, x)
    BY <1>1 DEF Paths
  <2>2. CASE x # y
    <3>1. Pending(new, x) = Pending(rows, x) /\ Replayed(new, c)[x] = Replayed(rows, c)[x]
      BY <1>7, <1>8, <1>13, <2>1, <2>2
    <3>2. \A k \in Pending(rows, x) : new[k] = rows[k]
      BY <1>2 DEF Pending
    <3> QED BY <2>1, <3>1, <3>2 DEF Follows
  <2>3. CASE x = y
    <3>1. Pending(new, x) = {}
      BY <1>7, <1>8, <2>1, <2>3
    <3>2. CASE f[y] = rows[i].after
      <4>1. Replayed(new, c)[x] = Project(OwnedState(rows[i].before), rows[i].to)
        BY <1>9, <1>10, <1>13, <2>3, <3>2
      <4> QED BY <1>5, <2>3, <3>1, <3>2, <4>1 DEF Follows
    <3>3. CASE f[y] # rows[i].after
      <4>1. Replayed(new, c)[x] = OwnedState(f[x])
        BY <1>9, <1>10, <1>13, <2>3, <3>3
      <4> QED BY <3>1, <4>1 DEF Follows
    <3> QED BY <3>2, <3>3
  <2> QED BY <2>2, <2>3
<1> QED BY <1>1, <1>11, <1>12, <1>14 DEF Tracks, new, row

\* An intent on a path that has none open is still to come.
LEMMA IntentTracks ==
  ASSUME NEW rows, JournalOK(rows), NEW f, NEW c, Tracks(rows, c, f),
         NEW row, IsIntent(row), row.path \in Paths, row.id = Len(rows) + 1,
         Pending(rows, row.path) = {},
         row.before = f[row.path], row.after # f[row.path]
  PROVE  Tracks(Append(rows, row), c, f)
<1> DEFINE new == Append(rows, row)
<1>1. /\ FrozenIn(c, rows) /\ IsSnapshot(c.snap, Frozen) /\ ~StartsUnexplained(rows, c)
      /\ \A x \in Frozen : Follows(rows, c, f, x)
  BY DEF Tracks
<1>2. /\ OneMore(new, rows) /\ new[Len(new)] = row
      /\ Len(rows) \in Nat /\ DOMAIN rows = 1 .. Len(rows) /\ Len(new) = Len(rows) + 1
      /\ \A k \in 1 .. Len(rows) : new[k] = rows[k]
  BY AppendIsOneMore DEF OneMore
<1>3. ~Wrote(row)
  BY DEF IsIntent, Wrote
<1>4. ASSUME NEW x \in Paths
      PROVE  Pending(new, x) = Pending(rows, x) \cup (IF row.path = x THEN {Len(rows) + 1} ELSE {})
  BY AppendIntent
<1> HIDE DEF new
<1>5. FrozenIn(c, new)
  BY <1>1, <1>2 DEF FrozenIn
<1>6. ~StartsUnexplained(new, c)
  BY <1>1, <1>2, <1>3, UnexplainedGrows
<1>7. \A x \in Frozen : Replayed(new, c)[x] = Replayed(rows, c)[x]
  BY <1>1, <1>2, <1>3, ReplayedGrows
<1>8. ASSUME NEW x \in Frozen PROVE Follows(new, c, f, x)
  <2>1. x \in Paths /\ Follows(rows, c, f, x) /\ Replayed(new, c)[x] = Replayed(rows, c)[x]
    BY <1>1, <1>7 DEF Paths
  <2>2. CASE x # row.path
    <3>1. Pending(new, x) = Pending(rows, x)
      BY <1>4, <2>1, <2>2
    <3>2. \A k \in Pending(rows, x) : new[k] = rows[k]
      BY <1>2 DEF Pending
    <3> QED BY <2>1, <3>1, <3>2 DEF Follows
  <2>3. CASE x = row.path
    <3>1. Pending(new, x) = {Len(rows) + 1}
      BY <1>4, <2>1, <2>3
    <3>2. Len(rows) + 1 > c.cursor /\ new[Len(rows) + 1] = row
      BY <1>1, <1>2 DEF FrozenIn
    <3>3. Replayed(new, c)[x] = OwnedState(row.before)
      BY <2>1, <2>3 DEF Follows
    <3> QED BY <3>1, <3>2, <3>3 DEF Follows
  <2> QED BY <2>2, <2>3
<1> QED BY <1>1, <1>5, <1>6, <1>8 DEF Tracks, new

\* What one more row does to the two facts about every intent.
LEMMA AppendApplies ==
  ASSUME NEW rows, JournalOK(rows), RowsApply(rows), NEW row, IsIntent(row) => Applies(row)
  PROVE  RowsApply(Append(rows, row))
<1> DEFINE new == Append(rows, row)
<1>1. /\ Len(rows) \in Nat /\ DOMAIN rows = 1 .. Len(rows) /\ DOMAIN new = 1 .. (Len(rows) + 1)
      /\ new[Len(rows) + 1] = row /\ \A k \in 1 .. Len(rows) : new[k] = rows[k]
  BY AppendIsOneMore DEF OneMore
<1> HIDE DEF new
<1>2. \A k \in DOMAIN new : k \in 1 .. Len(rows) \/ k = Len(rows) + 1
  BY <1>1
<1>3. RowsApply(new)
  BY <1>1, <1>2 DEF RowsApply
<1> QED BY <1>3 DEF new

\* Rows are kept, and with them what explains the bytes.
LEMMA ExplicablesKept ==
  ASSUME NEW rows, JournalOK(rows), NEW new, Extends(new, rows), NEW f, Explicables(rows, f),
         \A x \in Paths : Pending(new, x) \subseteq Pending(rows, x)
  PROVE  Explicables(new, f)
<1>1. \A x \in Paths : \A i \in Pending(rows, x) : new[i] = rows[i]
  BY JournalIsSeq DEF Pending, Extends
<1> QED BY <1>1 DEF Explicables, Explicable

\* A journal in step with the files, and every frozen context with both.
InStep(rows, f) ==
  /\ RowsApply(rows) /\ Explicables(rows, f)
  /\ \A d \in Drivers : Dispatched(d) => Tracks(rows, ctx[d], f)

LEMMA CompletionInStep ==
  ASSUME NEW rows, JournalOK(rows), AtMostOne(rows), NEW f, InStep(rows, f),
         NEW y \in Paths, NEW i \in Pending(rows, y), NEW phase \in Phases \ {"intent"},
         Wrote(Completion(rows[i], phase)) <=> f[y] = rows[i].after
  PROVE  InStep(Append(rows, Completion(rows[i], phase)), f)
<1> DEFINE row == Completion(rows[i], phase)
           new == Append(rows, row)
<1>1. RowsApply(rows) /\ Explicables(rows, f)
  BY DEF InStep
<1>2. RowOK(rows, i) /\ f[y] \in {rows[i].before, rows[i].after}
  BY <1>1 DEF Pending, JournalOK, Explicables, Explicable
<1>3. ~IsIntent(row)
  BY <1>2 DEF RowOK, Completion, IsIntent, Phases
<1>4. RowsApply(new)
  BY <1>1, <1>3, AppendApplies
<1>5. Explicables(new, f)
  <2>1. Extends(new, rows)
    BY AppendRow
  <2>2. \A x \in Paths : Pending(new, x) = Pending(rows, x) \ {i}
    BY AppendCompletion
  <2> HIDE DEF new
  <2> QED BY <1>1, <2>1, <2>2, ExplicablesKept
<1>6. \A d \in Drivers : Dispatched(d) => Tracks(new, ctx[d], f)
  BY <1>1, <1>2, CompletionTracks DEF InStep
<1> QED BY <1>4, <1>5, <1>6 DEF InStep

\* Recovery keeps the journal in step.
LEMMA RecoveredInStep ==
  ASSUME NEW rows, JournalOK(rows), AtMostOne(rows), NEW f, InStep(rows, f), NEW y \in Paths
  PROVE  InStep(Recovered(rows, y, f[y]), f)
<1>1. CASE Pending(rows, y) = {}
  BY <1>1 DEF Recovered
<1>2. CASE Pending(rows, y) # {}
  <2> DEFINE i == CHOOSE i \in Pending(rows, y) : TRUE
             phase == IF f[y] = rows[i].after THEN "recovered-applied"
                                               ELSE "recovered-not-applied"
  <2>1. i \in Pending(rows, y)
    BY <1>2
  <2>2. Recovered(rows, y, f[y]) = Append(rows, Completion(rows[i], phase))
    BY <1>2 DEF Recovered, RecoveryRow
  <2> HIDE DEF i
  <2>3. RowOK(rows, i)
    BY <2>1 DEF Pending, JournalOK
  <2>4. Wrote(Completion(rows[i], phase)) <=> f[y] = rows[i].after
    BY <2>3 DEF Wrote, Completion, RowOK
  <2>5. phase \in Phases \ {"intent"}
    BY DEF Phases
  <2> HIDE DEF phase
  <2>6. InStep(Append(rows, Completion(rows[i], phase)), f)
    BY <2>1, <2>4, <2>5, CompletionInStep
  <2> QED BY <2>2, <2>6
<1> QED BY <1>1, <1>2

LEMMA IntentInStep ==
  ASSUME NEW rows, JournalOK(rows), NEW f, InStep(rows, f),
         NEW row, IsIntent(row), row.path \in Paths, row.id = Len(rows) + 1,
         Pending(rows, row.path) = {}, Applies(row),
         row.before = f[row.path], row.after # f[row.path]
  PROVE  InStep(Append(rows, row), f)
<1> DEFINE new == Append(rows, row)
<1>1. RowsApply(new)
  BY AppendApplies DEF InStep
<1>2. Explicables(new, f)
  <2>1. /\ Len(rows) \in Nat /\ DOMAIN rows = 1 .. Len(rows)
        /\ new[Len(rows) + 1] = row /\ \A k \in 1 .. Len(rows) : new[k] = rows[k]
    BY AppendIsOneMore DEF OneMore
  <2>2. ASSUME NEW x \in Paths
        PROVE  Pending(new, x) = Pending(rows, x) \cup (IF row.path = x THEN {Len(rows) + 1} ELSE {})
    BY AppendIntent
  <2> HIDE DEF new
  <2>3. SUFFICES ASSUME NEW x \in Paths, NEW i \in Pending(new, x)
                 PROVE  f[x] \in {new[i].before, new[i].after}
    BY DEF Explicables, Explicable
  <2>4. CASE i \in Pending(rows, x)
    <3>1. new[i] = rows[i]
      BY <2>1, <2>4 DEF Pending
    <3> QED BY <2>4, <3>1 DEF InStep, Explicables, Explicable
  <2>5. CASE row.path = x /\ i = Len(rows) + 1
    BY <2>1, <2>5
  <2> QED BY <2>2, <2>4, <2>5
<1>3. \A d \in Drivers : Dispatched(d) => Tracks(new, ctx[d], f)
  BY IntentTracks DEF InStep
<1> QED BY <1>1, <1>2, <1>3 DEF InStep

\* A replacement is what its open intent announced.
LEMMA ReplacementInStep ==
  ASSUME NEW rows, JournalOK(rows), NEW i, NEW f, NEW g, Carries(rows, i, f, g), InStep(rows, f),
         rows[i].path \in Paths
  PROVE  InStep(rows, g)
<1> DEFINE y == rows[i].path
<1>1. /\ AtMostOne(rows) /\ i \in Pending(rows, y)
      /\ g[y] = rows[i].after /\ \A z \in Paths \ {y} : g[z] = f[z]
  BY DEF Carries
<1>2. Pending(rows, y) = {i}
  BY <1>1 DEF AtMostOne
<1> HIDE DEF y
<1>3. Explicables(rows, g)
  <2>1. \A z \in Paths \ {y} : Explicable(rows, z, g[z])
    BY <1>1 DEF InStep, Explicables
  <2>2. Explicable(rows, y, g[y])
    BY <1>1, <1>2 DEF Explicable
  <2> QED BY <2>1, <2>2 DEF Explicables
<1>4. ASSUME NEW c, Tracks(rows, c, f) PROVE Tracks(rows, c, g)
  <2>1. ASSUME NEW x \in Frozen, Follows(rows, c, f, x) PROVE Follows(rows, c, g, x)
    <3>1. x \in Paths
      BY DEF Paths
    <3>2. Pending(rows, x) = {} => g[x] = f[x]
      BY <1>1, <1>2, <3>1
    <3> QED BY <2>1, <3>2 DEF Follows
  <2> QED BY <1>4, <2>1 DEF Tracks
<1> QED BY <1>3, <1>4 DEF InStep

-----------------------------------------------------------------------------
(* The requests under way.                                                 *)

\* A request under way was under way, or has just been asked.
LEMMA RequestsStand ==
  ASSUME LockInv, [Next]_vars, NEW p \in Procs
  PROVE  \/ pc'[p] = "idle"
         \/ pc[p] # "idle" /\ req'[p] = req[p]
         \/ p \in Drivers /\ DriverAsks(p)
         \/ p \in Humans /\ HumanAsks(p)
<1> DEFINE Stands == \/ pc'[p] = "idle"
                     \/ (pc'[p] = pc[p] \/ pc[p] # "idle") /\ req'[p] = req[p]
<1>1. DOMAIN pc = Procs /\ DOMAIN req = Procs
  BY DEF LockInv, TypeOK, RequestsOK
<1>2. CASE UNCHANGED vars
  BY <1>2 DEF vars
<1>3. ASSUME NEW d \in Drivers, DriverAsks(d), d # p PROVE Stands
  <2>1. \/ UNCHANGED <<pc, req>>
        \/ \E r, s : req' = [req EXCEPT ![d] = r] /\ pc' = [pc EXCEPT ![d] = s]
    <3>1. CASE \E r : Ask(d, r)
      BY <3>1 DEF Ask
    <3>2. CASE BeginFreeze(d)
      BY <3>2 DEF BeginFreeze
    <3>3. CASE \E x \in Frozen : TakeSnapshot(d, x)
      BY <3>3 DEF TakeSnapshot
    <3>4. CASE \E x \in Frozen : \E to : Compare(d, x, to)
      BY <3>4 DEF Compare
    <3>5. CASE AskRestore(d)
      BY <3>5 DEF AskRestore
    <3> QED BY <1>3, <3>1, <3>2, <3>3, <3>4, <3>5, DriverAskKinds
  <2> QED BY <1>1, <1>3, <2>1
<1>4. ASSUME NEW h \in Humans, HumanAsks(h), h # p PROVE Stands
  <2>1. \/ \E r : Ask(h, r)
        \/ \E s \in Subs : AskReset(h, s)
    BY <1>4 DEF HumanAsks, AskPark, AskUnpark, AskRevise
  <2> QED BY <1>1, <1>4, <2>1 DEF Ask, AskReset
<1>5. ASSUME NEW q \in Procs, Serve(q) \/ Crash(q)
      PROVE  Stands
  <2>1. CASE Crash(q) \/ Acquire(q) \/ Freeze(q)
    <3>1. CASE p = q
      BY <1>1, <2>1, <3>1 DEF Crash, Acquire, Freeze
    <3>2. CASE p # q
      BY <1>1, <2>1, <3>2 DEF Crash, Acquire, Freeze
    <3> QED BY <3>1, <3>2
  <2>2. ASSUME NEW left, Leave(q, left) PROVE Stands
    <3>1. CASE p = q
      BY <1>1, <2>2, <3>1 DEF Leave
    <3>2. CASE p # q
      BY <1>1, <2>2, <3>2 DEF Leave
    <3> QED BY <3>1, <3>2
  <2>3. CASE Decline(q) \/ Finish(q) \/ \E g \in todo[q] : RefuseGuard(q, g) \/ RefuseSnapshot(q, g)
    BY <2>2, <2>3 DEF Decline, Finish, RefuseGuard, RefuseSnapshot
  <2>4. CASE WriteIntent(q) \/ Replace(q) \/ \E g \in todo[q] : CheckGuard(q, g) \/ RecoverSnapshot(q, g)
    BY <1>1, <2>4 DEF WriteIntent, AtTarget, Replace, CheckGuard, RecoverSnapshot
  <2> QED BY <1>5, <2>1, <2>3, <2>4 DEF Serve
<1> QED BY <1>2, <1>3, <1>4, <1>5 DEF Next

\* Where a request names the bytes it was read from, these have its `from`.
DigestMatches(r) == r.op \in {"revise", "projection"} => Matches(r.digest, r.from)

DigestsMatch == \A p \in Procs : pc[p] # "idle" => DigestMatches(req[p])

LEMMA DigestsStep ==
  ASSUME LockInv, DigestsMatch, [Next]_vars
  PROVE  DigestsMatch'
<1> SUFFICES ASSUME NEW p \in Procs, pc'[p] # "idle" PROVE DigestMatches(req'[p])
  BY DEF DigestsMatch, DigestMatches
<1>1. DOMAIN req = Procs /\ Drivers \subseteq Procs /\ Humans \subseteq Procs
  BY DEF LockInv, RequestsOK, Procs
<1>2. ASSUME NEW r, Ask(p, r) PROVE req'[p] = r
  BY <1>1, <1>2 DEF Ask
<1>3. CASE pc[p] # "idle" /\ req'[p] = req[p]
  BY <1>3 DEF DigestsMatch
<1>4. CASE DriverAsks(p)
  <2>1. ASSUME NEW r, r.op = "transition", Ask(p, r) PROVE DigestMatches(req'[p])
    BY <1>2, <2>1 DEF DigestMatches
  <2>2. CASE BeginFreeze(p)
    BY <1>1, <2>2 DEF BeginFreeze, DigestMatches
  <2> USE DEF Transition
  <2>3. ASSUME NEW s \in Subs, AskAdvance(p, s) PROVE DigestMatches(req'[p])
    BY <2>1, <2>3 DEF AskAdvance
  <2>4. ASSUME NEW s \in Subs, AskShip(p, s) PROVE DigestMatches(req'[p])
    BY <2>1, <2>4 DEF AskShip
  <2>5. ASSUME NEW s \in Subs, AskStrike(p, s) PROVE DigestMatches(req'[p])
    BY <2>1, <2>5 DEF AskStrike
  <2>6. ASSUME NEW s \in Subs, AskPass(p, s) PROVE DigestMatches(req'[p])
    BY <2>1, <2>6 DEF AskPass
  <2>7. ASSUME NEW s \in Subs, NEW red \in 0 .. Steps, AskRollback(p, s, red)
        PROVE  DigestMatches(req'[p])
    BY <2>1, <2>7 DEF AskRollback
  <2>8. ASSUME NEW x \in Frozen, AskNote(p, x) PROVE DigestMatches(req'[p])
    BY <2>1, <2>8 DEF AskNote
  <2>9. CASE AskComplete(p) \/ AskAutoPark(p)
    BY <2>1, <2>9 DEF AskComplete, AskAutoPark
  <2>10. CASE AskProjection(p)
    <3>1. req'[p].from = Nothing
      BY <1>2, <2>10 DEF AskProjection
    <3>2. DOMAIN Nothing = {}
      BY DEF Nothing
    <3> QED BY <3>1, <3>2 DEF DigestMatches, Matches
  <2>11. CASE \E x \in Frozen : TakeSnapshot(p, x)
    BY <2>11, <1>3 DEF TakeSnapshot, DigestsMatch
  <2>12. CASE AskRestore(p) \/ \E x \in Frozen : CompareWithSnapshot(p, x)
    <3>1. PICK x, from, to : req' = [req EXCEPT ![p] = Transition("integrity-repair", x, from, to)]
      BY <2>12 DEF CompareWithSnapshot, Compare, AskRestore
    <3>2. req'[p].op = "transition"
      BY <1>1, <3>1
    <3> QED BY <3>2 DEF DigestMatches
  <2> QED BY <1>4, <2>2, <2>3, <2>4, <2>5, <2>6, <2>7, <2>8, <2>9, <2>10, <2>11, <2>12 DEF DriverAsks
<1>5. CASE HumanAsks(p)
  <2>1. ASSUME NEW r, r.op = "transition", req'[p] = r PROVE DigestMatches(req'[p])
    BY <2>1 DEF DigestMatches
  <2>2. ASSUME NEW m, AskPark(p, m) \/ AskUnpark(p, m) PROVE DigestMatches(req'[p])
    BY <1>2, <2>1, <2>2 DEF AskPark, AskUnpark, Transition
  <2>3. ASSUME NEW s \in Subs, AskReset(p, s) PROVE DigestMatches(req'[p])
    <3>1. ~UNCHANGED <<req, pc>>
      BY <2>3 DEF AskReset
    <3> QED BY <1>1, <2>1, <2>3, <3>1 DEF AskReset, Transition
  <2>4. ASSUME NEW s \in Subs, AskRevise(p, s) PROVE DigestMatches(req'[p])
    <3> DEFINE c == files[s]
               after == [c EXCEPT !.status = "in-progress", !.current_step = Steps - 1]
               changed == {k \in {"status", "current_step"} : c[k] # after[k]}
               keys == IF changed = {} THEN {"status"} ELSE changed
    <3>1. Ask(p, [Transition("legacy-verification-return", s,
                    [k \in keys |-> c[k]], [k \in keys |-> after[k]])
                  EXCEPT !.op = "revise", !.digest = c])
      BY <2>4 DEF AskRevise
    <3> HIDE DEF keys, after
    <3>2. /\ req'[p].from = [k \in keys |-> files[s][k]]
          /\ req'[p].digest = files[s]
      BY <1>2, <3>1 DEF Transition
    <3> QED BY <3>2 DEF DigestMatches, Matches
  <2> QED BY <1>5, <2>2, <2>3, <2>4 DEF HumanAsks
<1> QED BY <1>3, <1>4, <1>5, RequestsStand

\* So whatever is permitted is compare-and-set.
LEMMA PermittedMatches ==
  ASSUME NEW r, RequestOK(r), r.op # "freeze", DigestMatches(r), NEW c, Permitted(r, c)
  PROVE  Matches(c, r.from)
  BY DEF RequestOK, DigestMatches, Permitted

-----------------------------------------------------------------------------
(* The context a driver freezes.                                           *)

\* What a driver has read under the lock, and recovered, stays so.
Observed ==
  \A d \in Drivers : pc[d] = "guards" /\ req[d].op = "freeze" =>
    /\ req[d].snap = [x \in Frozen |-> OwnedState(files[x])]
    /\ \A x \in Frozen : x \in todo[d] \/ Pending(log, x) = {}

\* A driver that freezes was freezing, or begins to: while it holds the lock
\* only its own recoveries touch the journal.
LEMMA FreezingStands ==
  ASSUME LockInv, [Next]_vars, NEW d \in Drivers, pc'[d] = "guards", req'[d].op = "freeze"
  PROVE  \/ BeginFreeze(d)
         \/ /\ pc[d] = "guards" /\ req'[d] = req[d] /\ UNCHANGED files
            /\ \/ todo'[d] = todo[d] /\ UNCHANGED log
               \/ \E x \in todo[d] : todo'[d] = todo[d] \ {x} /\ log' = Recovered(log, x, files[x])
<1> DEFINE Goes == /\ pc[d] = "guards" /\ req'[d] = req[d] /\ UNCHANGED files
                   /\ \/ todo'[d] = todo[d] /\ UNCHANGED log
                      \/ \E x \in todo[d] : todo'[d] = todo[d] \ {x} /\ log' = Recovered(log, x, files[x])
<1>1. /\ d \in Procs /\ DOMAIN req = Procs
      /\ pc \in [Procs -> {"idle", "compared", "asked", "guards", "intended", "replaced"}]
      /\ todo \in [Procs -> SUBSET Paths]
      /\ pc[d] = "asked" => req[d].op # "freeze"
  BY DEF LockInv, TypeOK, RequestsOK, Procs
<1>2. CASE UNCHANGED vars
  BY <1>2 DEF vars
<1>3. ASSUME NEW q \in Procs, NEW r, Ask(q, r) PROVE Goes
  BY <1>1, <1>3 DEF Ask
<1>4. ASSUME NEW q \in Drivers, DriverAsks(q), ~BeginFreeze(d) PROVE Goes
  <2>1. q \in Procs
    BY DEF Procs
  <2>3. CASE BeginFreeze(q)
    BY <1>1, <1>4, <2>3 DEF BeginFreeze
  <2>4. ASSUME UNCHANGED <<files, log, todo>>, NEW s, s # "guards",
               pc' = [pc EXCEPT ![q] = s], NEW r, req' = [req EXCEPT ![q] = r]
        PROVE  Goes
    BY <1>1, <2>1, <2>4
  <2>5. CASE AskRestore(q) \/ \E x \in Frozen : \E to : Compare(q, x, to)
    BY <2>4, <2>5 DEF AskRestore, Compare
  <2>6. CASE \E x \in Frozen : TakeSnapshot(q, x)
    BY <2>6 DEF TakeSnapshot
  <2> QED BY <1>3, <1>4, <2>1, <2>3, <2>5, <2>6, DriverAskKinds
<1>5. ASSUME NEW h \in Humans, HumanAsks(h) PROVE Goes
  <2>1. h \in Procs
    BY DEF Procs
  <2>2. (\E r : Ask(h, r)) \/ \E s \in Subs : AskReset(h, s)
    BY <1>5 DEF HumanAsks, AskPark, AskUnpark, AskRevise
  <2>3. ASSUME NEW s \in Subs, AskReset(h, s) PROVE Goes
    BY <1>1, <2>1, <2>3 DEF AskReset
  <2> QED BY <1>3, <2>1, <2>2, <2>3
<1>6. ASSUME NEW q \in Procs, Crash(q) PROVE Goes
  BY <1>1, <1>6 DEF Crash
<1>7. ASSUME NEW q \in Procs, Serve(q) PROVE Goes
  <2>1. CASE Acquire(q)
    BY <1>1, <2>1 DEF Acquire
  <2>2. CASE pc[q] \in {"guards", "intended", "replaced"}
    <3>2. CASE q # d
      <4>1. ~InCriticalSection(d)
        BY <1>1, <2>2, <3>2, OthersOutside DEF LockInv, InCriticalSection
      <4>2. UNCHANGED pc \/ \E s : pc' = [pc EXCEPT ![q] = s]
        <5>1. CASE \E g \in todo[q] : CheckGuard(q, g) \/ RefuseGuard(q, g)
                                      \/ RecoverSnapshot(q, g) \/ RefuseSnapshot(q, g)
          BY <5>1 DEF CheckGuard, RefuseGuard, RecoverSnapshot, RefuseSnapshot, Leave
        <5>2. CASE Acquire(q) \/ Decline(q) \/ Finish(q) \/ WriteIntent(q) \/ Replace(q) \/ Freeze(q)
          BY <5>2 DEF Acquire, Decline, WriteIntent, Replace, Finish, Freeze, Leave
        <5> QED BY <1>7, <5>1, <5>2 DEF Serve
      <4>3. pc'[d] = pc[d]
        BY <1>1, <3>2, <4>2
      <4> QED BY <4>1, <4>3 DEF InCriticalSection
    <3>3. CASE q = d
      <4>1. ASSUME NEW left, Leave(d, left) PROVE FALSE
        BY <1>1, <4>1 DEF Leave
      <4>2. ~Decline(d) /\ ~Finish(d) /\ ~Freeze(d)
        BY <1>1, <4>1 DEF Decline, Finish, Freeze
      <4>3. ~WriteIntent(d) /\ ~Replace(d) /\ ~Acquire(d)
        BY <1>1 DEF WriteIntent, Replace, Acquire
      <4>4. \A g \in todo[d] : ~CheckGuard(d, g) /\ ~RefuseGuard(d, g) /\ ~RefuseSnapshot(d, g)
        BY <1>1, <4>1 DEF CheckGuard, RefuseGuard, RefuseSnapshot
      <4>5. PICK g \in todo[d] : RecoverSnapshot(d, g)
        BY <1>7, <3>3, <4>2, <4>3, <4>4 DEF Serve
      <4> QED BY <1>1, <4>5 DEF RecoverSnapshot
    <3> QED BY <3>2, <3>3
  <2>3. Acquire(q) \/ pc[q] \in {"guards", "intended", "replaced"}
    BY <1>7 DEF Serve, CheckGuard, RefuseGuard, RecoverSnapshot, RefuseSnapshot,
                Decline, AtTarget, WriteIntent, Replace, Finish, Freeze
  <2> QED BY <2>1, <2>2, <2>3
<1> QED BY <1>2, <1>4, <1>5, <1>6, <1>7 DEF Next

LEMMA ObservedStep ==
  ASSUME IInv, AtMostOne(log), Observed, [Next]_vars
  PROVE  Observed'
<1> SUFFICES ASSUME NEW d \in Drivers, pc'[d] = "guards", req'[d].op = "freeze"
             PROVE  /\ req'[d].snap = [x \in Frozen |-> OwnedState(files'[x])]
                    /\ \A x \in Frozen : x \in todo'[d] \/ Pending(log', x) = {}
  BY DEF Observed
<1>1. d \in Procs /\ DOMAIN req = Procs /\ todo \in [Procs -> SUBSET Paths] /\ JournalOK(log)
  BY DEF IInv, LockInv, TypeOK, RequestsOK, Procs
<1>2. CASE BeginFreeze(d)
  BY <1>1, <1>2 DEF BeginFreeze
<1>3. CASE pc[d] = "guards" /\ req'[d] = req[d] /\ UNCHANGED files /\ todo'[d] = todo[d] /\ UNCHANGED log
  BY <1>3 DEF Observed
<1>4. ASSUME pc[d] = "guards", req'[d] = req[d], UNCHANGED files,
             NEW y \in todo[d], todo'[d] = todo[d] \ {y}, log' = Recovered(log, y, files[y])
      PROVE  /\ req'[d].snap = [x \in Frozen |-> OwnedState(files'[x])]
             /\ \A x \in Frozen : x \in todo'[d] \/ Pending(log', x) = {}
  <2>1. y \in Paths
    BY <1>1
  <2>2. \A x \in Paths : Pending(log', x) = IF x = y THEN {} ELSE Pending(log, x)
    BY <1>1, <1>4, <2>1, RecoveredEffects
  <2> QED BY <1>4, <2>2 DEF Observed, Paths
<1> QED BY <1>2, <1>3, <1>4, FreezingStands DEF IInv

-----------------------------------------------------------------------------
(* The audit's invariant.                                                  *)

\* The contexts change only where one is frozen.
LEMMA OnlyFreezes ==
  ASSUME [Next]_vars
  PROVE  UNCHANGED ctx \/ \E p \in Procs : Freeze(p)
<1>1. ASSUME NEW p \in Procs, Serve(p), ~Freeze(p) PROVE UNCHANGED ctx
  BY <1>1 DEF Serve, Acquire, CheckGuard, RefuseGuard, RecoverSnapshot, RefuseSnapshot,
              Decline, WriteIntent, Replace, Finish, Leave
<1>2. ASSUME NEW d \in Drivers, DriverAsks(d) PROVE UNCHANGED ctx
  BY <1>2, DriverAskKinds DEF Ask, BeginFreeze, TakeSnapshot, Compare, AskRestore
<1>3. ASSUME NEW h \in Humans, HumanAsks(h) PROVE UNCHANGED ctx
  BY <1>3 DEF HumanAsks, AskPark, AskUnpark, AskReset, AskRevise, Ask
<1>4. ASSUME NEW p \in Procs, Crash(p) PROVE UNCHANGED ctx
  BY <1>4 DEF Crash
<1>5. CASE UNCHANGED vars
  BY <1>5 DEF vars
<1> QED BY <1>1, <1>2, <1>3, <1>4, <1>5 DEF Next

\* A context is made by a freeze and stays as it is.
LEMMA ContextsStand ==
  ASSUME DOMAIN ctx = Drivers, [Next]_vars, NEW d \in Drivers
  PROVE  ctx'[d] = ctx[d] \/ Freeze(d)
<1>1. ASSUME NEW p \in Procs, Freeze(p) PROVE ctx'[d] = ctx[d] \/ Freeze(d)
  BY <1>1 DEF Freeze
<1> QED BY <1>1, OnlyFreezes

AuditInv ==
  /\ JInv /\ DigestsMatch /\ Observed
  /\ InStep(log, files)

\* A step that leaves the contexts leaves the journal in step with the files.
LEMMA JournalInStep ==
  ASSUME AuditInv, [Next]_vars
  PROVE  InStep(log', files')
<1>1. /\ JournalOK(log) /\ AtMostOne(log) /\ InStep(log, files) /\ DOMAIN files = Paths
      /\ IInv
  BY DEF AuditInv, JInv, HInv, IInv, LockInv, TypeOK
<1>2. CASE UNCHANGED <<files, log>>
  BY <1>1, <1>2
<1>3. ASSUME NEW x \in Paths, UNCHANGED files, log' = Recovered(log, x, files[x])
      PROVE  InStep(log', files')
  BY <1>1, <1>3, RecoveredInStep
<1>4. ASSUME NEW p \in Procs, WriteIntent(p) PROVE InStep(log', files')
  <2> DEFINE r == req[p]
             c == files[r.path]
             rec == Recovered(log, r.path, c)
             row == Intent(r, c, Len(rec) + 1)
  <2>1. /\ UNCHANGED files /\ log' = Append(rec, row) /\ NewContent(r, c) # c /\ Permitted(r, c)
        /\ pc[p] = "guards" /\ r.op # "freeze"
    BY <1>4 DEF WriteIntent, AtTarget
  <2>2. RequestOK(r) /\ r.path \in Paths /\ Partial(r.from) /\ Partial(r.to) /\ DigestMatches(r)
    BY <2>1 DEF IInv, LockInv, RequestsOK, RequestOK, AuditInv, DigestsMatch, JInv, HInv
  <2>3. c \in Contents
    BY <1>1, <2>2 DEF IInv, LockInv, TypeOK
  <2>4. /\ IsIntent(row) /\ row.path = r.path /\ row.id = Len(rec) + 1
        /\ row.before = c /\ row.after = NewContent(r, c) /\ row.from = r.from /\ row.to = r.to
    BY DEF Intent, IsIntent
  <2>5. JournalOK(rec) /\ InStep(rec, files) /\ Pending(rec, r.path) = {}
    BY <1>1, <2>2, RecoveredKeepsJournal, RecoveredInStep, RecoveredEffects
  <2>6. Matches(c, r.from)
    BY <2>1, <2>2, PermittedMatches
  <2> HIDE DEF row, rec
  <2>7. Applies(row)
    BY <2>2, <2>3, <2>4, <2>6, OwnedStateOfNewContent DEF Applies
  <2>8. InStep(Append(rec, row), files)
    BY <2>1, <2>2, <2>4, <2>5, <2>7, IntentInStep
  <2> QED BY <2>1, <2>8
<1>5. ASSUME NEW p \in Procs, Finish(p) PROVE InStep(log', files')
  <2> DEFINE i == mine[p]
             y == log[i].path
  <2>1. /\ i = Len(log) /\ i \in DOMAIN log /\ IsIntent(log[i])
        /\ files[y] = log[i].after /\ UNCHANGED files
        /\ log' = Append(log, Completion(log[i], "applied"))
    BY <1>1, <1>5 DEF AuditInv, JInv, IntentIsLast, Finish, Leave, ReplacedIsOnDisk, IInv, LockInv
  <2>2. /\ Len(log) \in Nat /\ DOMAIN log = 1 .. Len(log) /\ RowOK(log, i) /\ y \in Paths
    BY <1>1, <2>1, JournalIsSeq DEF JournalOK, RowOK
  <2>3. i \in Pending(log, y)
    BY <2>1, <2>2 DEF Pending, Completes
  <2>4. Wrote(Completion(log[i], "applied")) /\ "applied" \in Phases \ {"intent"}
    BY <2>2 DEF RowOK, Completion, Wrote, Phases
  <2> HIDE DEF i, y
  <2> QED BY <1>1, <2>1, <2>2, <2>3, <2>4, CompletionInStep
<1>6. ASSUME NEW p \in Procs, Replace(p) PROVE InStep(log', files')
  <2> DEFINE i == mine[p]
  <2>1. /\ i \in Pending(log, log[i].path) /\ log[i].path \in Paths
        /\ log[i].before = files[log[i].path] /\ log[i].before # log[i].after
        /\ UNCHANGED log /\ files' = [files EXCEPT ![log[i].path] = log[i].after]
    BY <1>6, ReplacementFacts DEF AuditInv
  <2> HIDE DEF i
  <2>2. Carries(log, i, files, files')
    BY <1>1, <2>1 DEF Carries
  <2> QED BY <1>1, <2>1, <2>2, ReplacementInStep
<1>7. \/ UNCHANGED <<files, log>>
      \/ UNCHANGED files /\ \E x \in Paths : log' = Recovered(log, x, files[x])
      \/ \E p \in Procs : WriteIntent(p) \/ Replace(p) \/ Finish(p)
  BY <1>1, StepKinds DEF IInv
<1> QED BY <1>2, <1>3, <1>4, <1>5, <1>6, <1>7

\* A context is frozen in step with the files.
LEMMA FreezeInStep ==
  ASSUME AuditInv, NEW d \in Drivers, Freeze(d)
  PROVE  /\ UNCHANGED <<files, log>> /\ Tracks(log, ctx'[d], files)
         /\ ctx'[d].cursor = Len(log)
<1>1. /\ pc[d] = "guards" /\ req[d].op = "freeze" /\ todo[d] = {} /\ UNCHANGED <<files, log>>
      /\ DOMAIN ctx = Drivers /\ JournalOK(log)
      /\ ctx' = [ctx EXCEPT ![d] = [cursor |-> Len(log), snap |-> req[d].snap,
                                    contract |-> req[d].contract]]
  BY DEF Freeze, AuditInv, JInv, HInv, IInv, LockInv, TypeOK, DriversAskAsDrivers
<1>2. /\ req[d].snap = [x \in Frozen |-> OwnedState(files[x])]
      /\ \A x \in Frozen : Pending(log, x) = {}
  BY <1>1 DEF AuditInv, Observed
<1> DEFINE c == ctx'[d]
<1>3. c.cursor = Len(log) /\ c.snap = req[d].snap /\ Len(log) \in Nat
  BY <1>1, JournalIsSeq
<1> HIDE DEF c
<1>4. FrozenIn(c, log)
  BY <1>3 DEF FrozenIn
<1>5. IsSnapshot(c.snap, Frozen)
  BY <1>2, <1>3 DEF IsSnapshot, OwnedState
<1>6. Replayed(log, c) = c.snap /\ ~StartsUnexplained(log, c)
  BY <1>3, ReplayStarts
<1>7. \A x \in Frozen : Follows(log, c, files, x)
  BY <1>2, <1>3, <1>6 DEF Follows
<1>8. Tracks(log, c, files)
  BY <1>4, <1>5, <1>6, <1>7 DEF Tracks
<1> QED BY <1>1, <1>3, <1>8 DEF c

LEMMA AuditStep == AuditInv /\ [Next]_vars => AuditInv'
<1> SUFFICES ASSUME AuditInv, [Next]_vars PROVE AuditInv'
  OBVIOUS
<1>1. JInv /\ IInv /\ AtMostOne(log) /\ DigestsMatch /\ Observed /\ DOMAIN ctx = Drivers
  BY DEF AuditInv, JInv, HInv, DriversAskAsDrivers
<1>2. JInv'
  <2>1. HInv'
    BY <1>1, StepKeeps, HoldsStep DEF HInv, AskInv, IInv, JInv
  <2> QED BY <1>1, <2>1, ExplanationStep, ReplacedStep, ActorsStep DEF JInv
<1>3. DigestsMatch' /\ Observed'
  BY <1>1, DigestsStep, ObservedStep DEF IInv
<1>4. InStep(log, files)'
  <2>1. RowsApply(log') /\ Explicables(log', files')
    BY JournalInStep DEF InStep
  <2>2. ASSUME NEW d \in Drivers, Dispatched(d)' PROVE Tracks(log', ctx'[d], files')
    <3>1. CASE ctx'[d] = ctx[d]
      BY <2>2, <3>1, JournalInStep DEF InStep, Dispatched
    <3>2. CASE Freeze(d)
      BY <3>2, FreezeInStep
    <3> QED BY <1>1, <3>1, <3>2, ContextsStand
  <2> QED BY <2>1, <2>2 DEF InStep
<1> QED BY <1>2, <1>3, <1>4 DEF AuditInv

THEOREM AuditInductive == Spec => []AuditInv
<1>1. Init /\ JInv => AuditInv
  <2> SUFFICES ASSUME Init, JInv PROVE AuditInv
    OBVIOUS
  <2>1. DigestsMatch /\ Observed
    BY DEF Init, DigestsMatch, Observed, Procs
  <2>2. log = <<>> /\ DOMAIN log = {} /\ \A x \in Paths : Pending(log, x) = {}
    BY DEF Init, Pending
  <2>3. RowsApply(log) /\ Explicables(log, files)
    BY <2>2 DEF RowsApply, Explicables, Explicable
  <2>4. \A d \in Drivers : ~Dispatched(d)
    BY DEF Init, Dispatched
  <2> QED BY <2>1, <2>3, <2>4 DEF AuditInv, InStep
<1>2. AuditInv /\ [Next]_vars => AuditInv'
  BY AuditStep
<1>3. Spec => JInv
  BY JournalInductive, PTL
<1> QED BY <1>1, <1>2, <1>3, PTL DEF Spec

-----------------------------------------------------------------------------
(* Without a crash nothing is left open.                                   *)

OpenIsUnderWay ==
  \A x \in Paths : \A i \in Pending(log, x) :
    \E p \in Procs : pc[p] \in {"intended", "replaced"} /\ mine[p] = i

CrashFree ==
  crashes = 0 =>
    /\ OpenIsUnderWay
    /\ \A d \in Drivers : Dispatched(d) => Covered(log, ctx[d])

\* A client that looks at guards or snapshots sees no open intent.
LEMMA NothingOpen ==
  ASSUME IInv, OpenIsUnderWay, NEW p \in Procs, pc[p] = "guards"
  PROVE  \A x \in Paths : Pending(log, x) = {}
<1>1. \A q \in Procs : pc[q] \notin {"intended", "replaced"}
  BY OthersOutside DEF IInv, LockInv, InCriticalSection
<1> QED BY <1>1 DEF OpenIsUnderWay

LEMMA CompletionCovered ==
  ASSUME NEW rows, JournalOK(rows), NEW c, FrozenIn(c, rows), Covered(rows, c),
         NEW y \in Paths, NEW i \in Pending(rows, y), NEW phase \in Phases \ {"intent"}
  PROVE  LET new == Append(rows, Completion(rows[i], phase)) IN
         /\ Covered(new, c)
         /\ \A x \in Paths : Pending(new, x) = Pending(rows, x) \ {i}
<1> DEFINE row == Completion(rows[i], phase)
           new == Append(rows, row)
           f == [x \in {y} |-> IF Wrote(row) THEN rows[i].after ELSE CHOOSE v : v # rows[i].after]
<1>1. \A x \in Paths : Pending(new, x) = Pending(rows, x) \ {i}
  <2>1. (CHOOSE v : v # rows[i].after) # rows[i].after
    <3>1. \E v : v # rows[i].after
      <4>1. rows[i].after # {rows[i].after} \/ rows[i].after # {}
        OBVIOUS
      <4> QED BY <4>1
    <3> QED BY <3>1
  <2>2. Wrote(row) <=> f[y] = rows[i].after
    BY <2>1
  <2> HIDE DEF f
  <2> QED BY <2>2, AppendCompletion
<1>2. OneMore(new, rows) /\ new[Len(new)] = row
  BY AppendIsOneMore
<1>3. RowOK(rows, i) /\ IsIntent(rows[i])
  BY DEF Pending, JournalOK
<1>4. row.id = i /\ i > c.cursor /\ i \in Int
  <2>1. row.id = i
    BY <1>3 DEF RowOK, Completion
  <2>2. i > c.cursor
    BY DEF Covered
  <2>3. i \in 1 .. Len(rows) /\ Len(rows) \in Nat
    BY JournalIsSeq DEF Pending
  <2> QED BY <2>1, <2>2, <2>3
<1> HIDE DEF new, row
<1>5. ~(row.id <= c.cursor)
  BY <1>4 DEF FrozenIn
<1>6. Orphans(new, c) = Orphans(rows, c)
  <2>1. Orphans(new, c) = Orphans(rows, c)
          \cup (IF ~IsIntent(new[Len(new)]) /\ new[Len(new)].id <= c.cursor THEN {Len(new)} ELSE {})
    BY <1>2, OrphansGrow
  <2> QED BY <1>2, <1>5, <2>1
<1>7. Covered(new, c)
  BY <1>1, <1>6 DEF Covered
<1> QED BY <1>1, <1>7 DEF new, row

LEMMA IntentCovered ==
  ASSUME NEW rows, JournalOK(rows), NEW c, FrozenIn(c, rows), Covered(rows, c),
         NEW row, IsIntent(row), row.id = Len(rows) + 1,
         NEW f, \A x \in Paths : row.path = x => f[x] # row.after
  PROVE  Covered(Append(rows, row), c)
<1> DEFINE new == Append(rows, row)
<1>1. \A x \in Paths : Pending(new, x) = Pending(rows, x) \cup (IF row.path = x THEN {Len(rows) + 1} ELSE {})
  BY AppendIntent
<1>2. OneMore(new, rows) /\ new[Len(new)] = row
  BY AppendIsOneMore
<1>3. Len(rows) + 1 > c.cursor
  BY DEF FrozenIn
<1> HIDE DEF new
<1>4. Orphans(new, c) = Orphans(rows, c)
  <2>1. Orphans(new, c) = Orphans(rows, c)
          \cup (IF ~IsIntent(new[Len(new)]) /\ new[Len(new)].id <= c.cursor THEN {Len(new)} ELSE {})
    BY <1>2, OrphansGrow
  <2> QED BY <1>2, <2>1
<1>5. Covered(new, c)
  BY <1>1, <1>3, <1>4 DEF Covered
<1> QED BY <1>5 DEF new

\* What the journal keeps while nobody dies.
Kept ==
  /\ OpenIsUnderWay'
  /\ \A c : FrozenIn(c, log) /\ Covered(log, c) => Covered(log', c)

LEMMA CrashFreeStep ==
  ASSUME AuditInv, CrashFree, [Next]_vars
  PROVE  CrashFree'
<1> SUFFICES ASSUME crashes' = 0
             PROVE  /\ OpenIsUnderWay'
                    /\ \A d \in Drivers : Dispatched(d)' => Covered(log', ctx'[d])
  BY DEF CrashFree
<1>1. /\ IInv /\ JournalOK(log) /\ AtMostOne(log) /\ DOMAIN ctx = Drivers
      /\ pc \in [Procs -> {"idle", "compared", "asked", "guards", "intended", "replaced"}]
      /\ mine \in [Procs -> Nat] /\ DOMAIN files = Paths /\ DOMAIN req = Procs
      /\ crashes \in Nat /\ Drivers \subseteq Procs /\ Humans \subseteq Procs
  BY DEF AuditInv, JInv, HInv, IInv, LockInv, TypeOK, RequestsOK, DriversAskAsDrivers, Procs
<1>2. crashes = 0 /\ \A p \in Procs : ~Crash(p)
  <2>1. ASSUME NEW p \in Procs, Crash(p) PROVE FALSE
    BY <1>1, <2>1 DEF Crash
  <2>2. ASSUME NEW d \in Drivers, DriverAsks(d) PROVE UNCHANGED crashes
    BY <2>2, DriverAskKinds DEF Ask, BeginFreeze, TakeSnapshot, Compare, AskRestore
  <2>3. ASSUME NEW h \in Humans, HumanAsks(h) PROVE UNCHANGED crashes
    BY <2>3 DEF HumanAsks, AskPark, AskUnpark, AskReset, AskRevise, Ask
  <2>4. ASSUME NEW p \in Procs, Serve(p) PROVE UNCHANGED crashes
    BY <2>4 DEF Serve, Acquire, CheckGuard, RefuseGuard, RecoverSnapshot, RefuseSnapshot,
                Decline, WriteIntent, Replace, Finish, Freeze, Leave
  <2>5. UNCHANGED vars => UNCHANGED crashes
    BY DEF vars
  <2> QED BY <2>1, <2>2, <2>3, <2>4, <2>5 DEF Next
<1>3. OpenIsUnderWay /\ \A d \in Drivers : Dispatched(d) => Covered(log, ctx[d])
  BY <1>2 DEF CrashFree
<1>4. ASSUME UNCHANGED log,
             \A p \in Procs : pc[p] \in {"intended", "replaced"} =>
                              pc'[p] \in {"intended", "replaced"} /\ mine'[p] = mine[p]
      PROVE  Kept
  BY <1>3, <1>4 DEF Kept, OpenIsUnderWay
<1>5. ASSUME UNCHANGED vars PROVE Kept
  BY <1>4, <1>5 DEF vars
<1>6. ASSUME NEW q \in Procs, pc[q] \in {"idle", "compared", "asked"}, UNCHANGED <<log, mine>>,
             NEW s, pc' = [pc EXCEPT ![q] = s]
      PROVE  Kept
  BY <1>1, <1>4, <1>6
<1>7. ASSUME NEW d \in Drivers, DriverAsks(d) PROVE Kept
  <2>1. d \in Procs
    BY <1>1
  <2>2. CASE (\E r : Ask(d, r)) \/ BeginFreeze(d) \/ AskRestore(d)
             \/ \E x \in Frozen : \E to : Compare(d, x, to)
    BY <1>6, <2>1, <2>2 DEF Ask, BeginFreeze, AskRestore, Compare
  <2>3. CASE \E x \in Frozen : TakeSnapshot(d, x)
    BY <1>4, <2>3 DEF TakeSnapshot
  <2> QED BY <1>7, <2>2, <2>3, DriverAskKinds
<1>8. ASSUME NEW h \in Humans, HumanAsks(h) PROVE Kept
  <2>1. h \in Procs
    BY <1>1
  <2>2. (\E r : Ask(h, r)) \/ \E s \in Subs : AskReset(h, s)
    BY <1>8 DEF HumanAsks, AskPark, AskUnpark, AskRevise
  <2>3. ASSUME NEW s \in Subs, AskReset(h, s) PROVE Kept
    BY <1>4, <1>6, <2>1, <2>3 DEF AskReset
  <2> QED BY <1>6, <2>1, <2>2, <2>3 DEF Ask
<1>9. ASSUME NEW p \in Procs, Acquire(p) PROVE Kept
  BY <1>6, <1>9 DEF Acquire
<1>10. ASSUME NEW p \in Procs, pc[p] = "guards", UNCHANGED log \/ \E y \in Paths : \E c : log' = Recovered(log, y, c)
       PROVE  Kept
  <2>1. \A x \in Paths : Pending(log, x) = {}
    BY <1>1, <1>3, <1>10, NothingOpen
  <2>2. UNCHANGED log
    BY <1>10, <2>1 DEF Recovered
  <2> QED BY <2>1, <2>2 DEF Kept, OpenIsUnderWay
<1>11. ASSUME NEW p \in Procs, WriteIntent(p) PROVE Kept
  <2> DEFINE r == req[p]
             c == files[r.path]
             row == Intent(r, c, Len(log) + 1)
  <2>1. pc[p] = "guards" /\ r.op # "freeze"
    BY <1>11 DEF WriteIntent, AtTarget
  <2>2. r.path \in Paths
    BY <1>1, <2>1 DEF IInv, LockInv, RequestsOK, RequestOK
  <2>3. \A x \in Paths : Pending(log, x) = {}
    BY <1>1, <1>3, <2>1, NothingOpen
  <2>4. Recovered(log, r.path, c) = log
    BY <2>2, <2>3 DEF Recovered
  <2>5. /\ log' = Append(log, row) /\ NewContent(r, c) # c
        /\ mine' = [mine EXCEPT ![p] = Len(log) + 1] /\ pc' = [pc EXCEPT ![p] = "intended"]
    BY <1>11, <2>4 DEF WriteIntent
  <2>6. IsIntent(row) /\ row.path = r.path /\ row.id = Len(log) + 1 /\ row.after = NewContent(r, c)
    BY DEF Intent, IsIntent
  <2>7. \A x \in Paths : row.path = x => files[x] # row.after
    BY <2>5, <2>6
  <2> HIDE DEF row, r, c
  <2>8. \A x \in Paths : Pending(log', x) \subseteq {Len(log) + 1}
    <3>1. \A x \in Paths : Pending(Append(log, row), x) =
            Pending(log, x) \cup (IF row.path = x THEN {Len(log) + 1} ELSE {})
      BY <1>1, <2>6, <2>7, AppendIntent
    <3> QED BY <2>3, <2>5, <3>1
  <2>9. mine'[p] = Len(log) + 1 /\ pc'[p] = "intended"
    BY <1>1, <2>5
  <2>10. OpenIsUnderWay'
    BY <2>8, <2>9 DEF OpenIsUnderWay
  <2>11. ASSUME NEW k, FrozenIn(k, log), Covered(log, k) PROVE Covered(log', k)
    BY <1>1, <2>5, <2>6, <2>7, <2>11, IntentCovered
  <2> QED BY <2>10, <2>11 DEF Kept
<1>12. ASSUME NEW p \in Procs, Replace(p) PROVE Kept
  <2>1. /\ UNCHANGED <<log, mine>> /\ pc' = [pc EXCEPT ![p] = "replaced"]
    BY <1>12 DEF Replace
  <2> QED BY <1>1, <1>4, <2>1
<1>13. ASSUME NEW p \in Procs, Finish(p) PROVE Kept
  <2> DEFINE i == mine[p]
             y == log[i].path
  <2>1. /\ pc[p] = "replaced" /\ i = Len(log) /\ i \in DOMAIN log /\ IsIntent(log[i])
        /\ log' = Append(log, Completion(log[i], "applied"))
    BY <1>1, <1>13 DEF IInv, LockInv, IntentIsLast, Finish
  <2>2. /\ Len(log) \in Nat /\ DOMAIN log = 1 .. Len(log) /\ RowOK(log, i) /\ y \in Paths
    BY <1>1, <2>1, JournalIsSeq DEF JournalOK, RowOK
  <2>3. i \in Pending(log, y) /\ "applied" \in Phases \ {"intent"}
    BY <2>1, <2>2 DEF Pending, Completes, Phases
  <2>4. \A q \in Procs : pc[q] \in {"intended", "replaced"} => q = p
    BY <1>1, <2>1, OthersOutside DEF IInv, LockInv, InCriticalSection
  <2> HIDE DEF i, y
  <2>5. \A x \in Paths : Pending(log, x) \subseteq {i}
    BY <1>3, <2>4 DEF OpenIsUnderWay, i
  <2>6. ASSUME NEW x \in Paths PROVE Pending(log', x) = Pending(log, x) \ {i}
    <3> DEFINE f == [z \in {y} |-> log[i].after]
    <3>1. Wrote(Completion(log[i], "applied")) <=> f[y] = log[i].after
      BY <2>2 DEF Wrote, Completion, RowOK
    <3> HIDE DEF f
    <3>2. Pending(Append(log, Completion(log[i], "applied")), x) = Pending(log, x) \ {i}
      BY <1>1, <2>3, <3>1, AppendCompletion
    <3> QED BY <2>1, <3>2
  <2>7. OpenIsUnderWay'
    BY <2>5, <2>6 DEF OpenIsUnderWay
  <2>8. ASSUME NEW k, FrozenIn(k, log), Covered(log, k) PROVE Covered(log', k)
    BY <1>1, <2>1, <2>2, <2>3, <2>8, CompletionCovered
  <2> QED BY <2>7, <2>8 DEF Kept
<1>14. ASSUME NEW p \in Procs, Serve(p), ~Acquire(p), ~WriteIntent(p), ~Replace(p), ~Finish(p)
       PROVE  Kept
  <2>1. pc[p] = "guards"
    BY <1>14 DEF Serve, CheckGuard, RefuseGuard, RecoverSnapshot, RefuseSnapshot, Decline, AtTarget, Freeze
  <2>2. CASE Freeze(p)
    BY <1>10, <2>1, <2>2 DEF Freeze
  <2>3. CASE Decline(p)
    <3>1. req[p].path \in Paths
      BY <2>1, <2>3 DEF Decline, AtTarget, IInv, LockInv, RequestsOK, RequestOK, AuditInv, JInv, HInv
    <3> QED BY <1>10, <2>1, <2>3, <3>1 DEF Decline
  <2>4. ASSUME NEW g \in todo[p],
               CheckGuard(p, g) \/ RefuseGuard(p, g) \/ RecoverSnapshot(p, g) \/ RefuseSnapshot(p, g)
        PROVE  Kept
    <3>1. g \in Paths
      BY <1>1 DEF IInv, LockInv, TypeOK
    <3>2. UNCHANGED log \/ log' = Recovered(log, g, files[g])
      BY <2>4 DEF CheckGuard, RefuseGuard, RecoverSnapshot, RefuseSnapshot
    <3> QED BY <1>10, <2>1, <3>1, <3>2
  <2> QED BY <1>14, <2>2, <2>3, <2>4 DEF Serve
<1>15. Kept
  BY <1>2, <1>5, <1>7, <1>8, <1>9, <1>11, <1>12, <1>13, <1>14 DEF Next
<1>16. ASSUME NEW d \in Drivers, Dispatched(d)' PROVE Covered(log', ctx'[d])
  <2>1. CASE ctx'[d] = ctx[d]
    <3>1. Dispatched(d) /\ FrozenIn(ctx[d], log) /\ Covered(log, ctx[d])
      BY <1>3, <1>16, <2>1 DEF Dispatched, AuditInv, InStep, Tracks
    <3> QED BY <1>15, <2>1, <3>1 DEF Kept
  <2>2. CASE Freeze(d)
    <3>1. UNCHANGED log /\ ctx'[d].cursor = Len(log) /\ Len(log) \in Nat /\ pc[d] = "guards"
      BY <1>1, <2>2, FreezeInStep, JournalIsSeq DEF Freeze
    <3>2. \A x \in Paths : Pending(log, x) = {}
      BY <1>1, <1>3, <3>1, NothingOpen
    <3>3. Orphans(log, ctx'[d]) = {}
      BY <3>1, ReplayStarts
    <3> QED BY <3>1, <3>2, <3>3 DEF Covered
  <2> QED BY <1>1, <2>1, <2>2, ContextsStand
<1> QED BY <1>15, <1>16 DEF Kept

\* The audit of a frozen iteration never accuses a state that only
\* transitions made, and without a crash it explains every such state.
THEOREM AuditsExplain == Spec => []AuditExplains
<1>1. Init => CrashFree
  <2> SUFFICES ASSUME Init PROVE CrashFree
    OBVIOUS
  <2>1. \A x \in Paths : Pending(log, x) = {}
    BY DEF Init, Pending
  <2> QED BY <2>1 DEF Init, CrashFree, OpenIsUnderWay, Dispatched
<1>2. AuditInv /\ CrashFree /\ [Next]_vars => CrashFree'
  BY CrashFreeStep
<1>3. AuditInv /\ CrashFree => AuditExplains
  <2> SUFFICES ASSUME AuditInv, CrashFree, holder = Nobody, NEW d \in Drivers, Dispatched(d)
               PROVE  /\ AuditResult(log, ctx[d], files) # "unexplained"
                      /\ crashes = 0 => AuditResult(log, ctx[d], files) = "explained"
    BY DEF AuditExplains
  <2> DEFINE c == ctx[d]
  <2>1. IInv /\ JournalOK(log) /\ Tracks(log, c, files)
    BY DEF AuditInv, JInv, HInv, IInv, LockInv, TypeOK, InStep
  <2>2. /\ ~StartsUnexplained(log, c) /\ DOMAIN c.snap = Frozen /\ c.cursor \in Nat
        /\ \A x \in Frozen : Follows(log, c, files, x)
    BY <2>1 DEF Tracks, FrozenIn, IsSnapshot
  <2>3. Len(log) \in Nat /\ DOMAIN log = 1 .. Len(log)
    BY <2>1, JournalIsSeq
  <2> HIDE DEF c
  <2>4. ASSUME Unclosed(log, c) = {}, NEW x \in Frozen PROVE Matches(files[x], Replay(log, c)[Len(log)][x])
    <3>1. Pending(log, x) = {}
      <4> SUFFICES ASSUME NEW i \in Pending(log, x) PROVE FALSE
        OBVIOUS
      <4>1. i > c.cursor /\ i \in 1 .. Len(log) /\ IsIntent(log[i])
            /\ ~ \E j \in DOMAIN log : Completes(log, i, j)
        BY <2>2, <2>3 DEF Follows, Pending
      <4>2. i \in (c.cursor + 1) .. Len(log)
        BY <2>2, <2>3, <4>1
      <4> QED BY <2>4, <4>1, <4>2 DEF Unclosed
    <3>2. Replay(log, c)[Len(log)][x] = OwnedState(files[x])
      BY <2>2, <3>1 DEF Follows, Replayed
    <3> QED BY <3>2 DEF Matches, OwnedState
  <2>5. AuditResult(log, c, files) # "unexplained"
    BY <2>2, <2>4 DEF AuditResult
  <2>6. ASSUME crashes = 0 PROVE AuditResult(log, c, files) = "explained"
    <3>1. Orphans(log, c) = {}
      BY <2>6 DEF CrashFree, Covered, c
    <3>2. \A x \in Paths : Pending(log, x) = {}
      <4>1. \A p \in Procs : pc[p] \notin {"intended", "replaced"}
        BY <2>1, ProcsAssumption DEF IInv, LockInv, MutualExclusion, InCriticalSection
      <4> QED BY <2>6, <4>1 DEF CrashFree, OpenIsUnderWay
    <3>3. Unclosed(log, c) = {}
      <4> SUFFICES ASSUME NEW i \in Unclosed(log, c) PROVE FALSE
        OBVIOUS
      <4>1. i \in 1 .. Len(log)
        BY <2>2, <2>3 DEF Unclosed
      <4>2. RowOK(log, i)
        BY <2>1, <2>3, <4>1 DEF JournalOK
      <4>3. i \in Pending(log, log[i].path) /\ log[i].path \in Paths
        BY <2>3, <4>1, <4>2 DEF Unclosed, Pending, RowOK
      <4> QED BY <3>2, <4>3
    <3> QED BY <2>2, <2>4, <3>1, <3>3 DEF AuditResult
  <2> QED BY <2>5, <2>6 DEF c
<1> QED BY <1>1, <1>2, <1>3, AuditInductive, PTL DEF Spec
=============================================================================

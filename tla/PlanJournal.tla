---------------------------- MODULE PlanJournal ----------------------------
(***************************************************************************)
(* The durable side of skills/ilk-loop/scripts/plan_state.py: the bytes of *)
(* a plan file, and the transition journal state-transitions.jsonl kept    *)
(* beside the plan files of one plans directory.                           *)
(*                                                                         *)
(* A plan file is a record: the frontmatter fields the transitions write,  *)
(* and `body`, a revision number for all the other bytes.  Two contents    *)
(* are equal iff the files have the same bytes, so a content stands for    *)
(* its own sha256 digest.  An expectation (`from_`) or a change (`to`) is  *)
(* a partial record over the fields.                                       *)
(*                                                                         *)
(* A journal is a sequence of rows.  A row's id is the position of its     *)
(* intent, which the uuid of the code makes equally unique.                *)
(***************************************************************************)
EXTENDS Integers, Sequences, FiniteSets

\* The statuses transition() refuses to let a driver leave.
HeldStatuses == {"draft", "parked", "blocked"}

Statuses == HeldStatuses \cup
            {"pending", "in-progress", "queued", "active", "shipped"}

\* plan_snapshot's owned_state, less the stamps that only say when and why.
OwnedFields == {"status", "current_step", "hold", "auto_block_fails"}

Holds == {"none", "human"}

Phases == {"intent", "applied", "recovered-applied", "recovered-not-applied"}

Held(c) == c.status \in HeldStatuses \/ c.hold = "human"

\* The compare half of compare-and-set: every expected value is the current one.
Matches(c, expected) == \A k \in DOMAIN expected : c[k] = expected[k]

\* The set half: only the requested scalar fields change.
Project(c, to) == [k \in DOMAIN c |-> IF k \in DOMAIN to THEN to[k] ELSE c[k]]

OwnedState(c) == [k \in OwnedFields |-> c[k]]

-----------------------------------------------------------------------------

IsIntent(row) == row.phase = "intent"

\* Position j of the journal is the completion of the intent at position i.
Completes(log, i, j) == j > i /\ log[j].id = i /\ ~IsIntent(log[j])

\* The intents of a path that no later row completes.
Pending(log, path) ==
  {i \in DOMAIN log : /\ IsIntent(log[i])
                      /\ log[i].path = path
                      /\ ~ \E j \in DOMAIN log : Completes(log, i, j)}

\* _recover raises when the bytes are neither the intent's before nor its after.
Explicable(log, path, c) ==
  \A i \in Pending(log, path) : c \in {log[i].before, log[i].after}

Completion(row, phase) == [row EXCEPT !.phase = phase]

\* Mutants of RecoveryRow: a phase the audit does not know, and a recovery
\* that takes every interrupted replacement for a finished one.
RecoveryRowUnknown(row, c) == Completion(row, "recovered")
RecoveryRowApplied(row, c) == Completion(row, "recovered-applied")

\* The row _recover appends for a pending intent, given the bytes it finds.
RecoveryRow(row, c) ==
  Completion(row, IF c = row.after THEN "recovered-applied"
                                   ELSE "recovered-not-applied")

\* Mutant of Recovered: a transition that does not look for interrupted ones.
Unrecovered(log, path, c) == log

\* The journal after _recover.  Its loop runs over every pending intent of
\* the path; there is never more than one (OnePending in PlanState).
Recovered(log, path, c) ==
  IF Pending(log, path) = {} THEN log
  ELSE LET i == CHOOSE i \in Pending(log, path) : TRUE
       IN  Append(log, RecoveryRow(log[i], c))

-----------------------------------------------------------------------------
\* audit_context: a frozen context is [cursor, snap], the length of the
\* journal and the owned states when the iteration was dispatched.

Wrote(row) == row.phase \in {"applied", "recovered-applied"}

\* Completions after the cursor whose intent the cursor already covers.
Orphans(log, ctx) ==
  {j \in (ctx.cursor + 1) .. Len(log) :
      ~IsIntent(log[j]) /\ log[j].id <= ctx.cursor}

Unclosed(log, ctx) ==
  {i \in (ctx.cursor + 1) .. Len(log) :
      IsIntent(log[i]) /\ ~ \E j \in DOMAIN log : Completes(log, i, j)}

\* The owned states the completed transitions lead to, row by row.
Replay(log, ctx) ==
  LET state[n \in ctx.cursor .. Len(log)] ==
        IF n = ctx.cursor THEN ctx.snap
        ELSE LET row == log[n] IN
             IF Wrote(row) /\ row.path \in DOMAIN ctx.snap
             THEN [state[n - 1] EXCEPT ![row.path] = Project(@, row.to)]
             ELSE state[n - 1]
  IN  state

StartsUnexplained(log, ctx) ==
  \E n \in (ctx.cursor + 1) .. Len(log) :
     /\ Wrote(log[n]) /\ log[n].path \in DOMAIN ctx.snap
     /\ ~Matches(Replay(log, ctx)[n - 1][log[n].path], log[n].from)

\* Mutant of AuditResult: only the final states are compared.
AuditFinalState(log, ctx, files) ==
  IF Orphans(log, ctx) # {} THEN "orphan completion"
  ELSE IF Unclosed(log, ctx) # {} THEN "unclosed transition"
  ELSE IF \E p \in DOMAIN ctx.snap :
             ~Matches(files[p], Replay(log, ctx)[Len(log)][p])
       THEN "unexplained"
       ELSE "explained"

AuditResult(log, ctx, files) ==
  IF Orphans(log, ctx) # {} THEN "orphan completion"
  ELSE IF Unclosed(log, ctx) # {} THEN "unclosed transition"
  ELSE IF \/ StartsUnexplained(log, ctx)
          \/ \E p \in DOMAIN ctx.snap :
                ~Matches(files[p], Replay(log, ctx)[Len(log)][p])
       THEN "unexplained"
       ELSE "explained"
=============================================================================

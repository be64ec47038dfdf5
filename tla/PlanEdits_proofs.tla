-------------------------- MODULE PlanEdits_proofs --------------------------
(***************************************************************************)
(* Proof of EditsSurface: what a writer outside the journal changes is     *)
(* never explained by the audit of an iteration.                           *)
(*                                                                         *)
(* A raw edit can fall anywhere, also between an intent and whoever closes *)
(* it.  Nothing the clients checked holds then, so the proof rests on the  *)
(* lock and the journal alone (LockInv) and on one fact about bytes: an    *)
(* edit leaves a note that no later edit takes back.  From the bytes of a  *)
(* plan with an open intent one can therefore still tell whether the       *)
(* replacement happened, unless the transition changes no owned field, or  *)
(* nobody can explain them.                                                *)
(***************************************************************************)
EXTENDS PlanEdits, PlanState_proofs

\* An intent of the journal: compare-and-set, and stamped with a note only if
\* it counts a strike, which no edit does, or changes no field.
Fits(row) ==
  /\ Applies(row) /\ row.before # row.after
  /\ row.before.notes <= row.after.notes
  /\ row.before.notes # row.after.notes =>
       row.from = row.to \/ row.before.auto_block_fails # row.after.auto_block_fails

RowsFit(rows) == \A i \in DOMAIN rows : IsIntent(rows[i]) => Fits(rows[i])

NoteFits(r) ==
  r.note # 0 =>
    \/ r.from = r.to
    \/ /\ "auto_block_fails" \in DOMAIN r.from \cap DOMAIN r.to
       /\ r.from.auto_block_fails # r.to.auto_block_fails

NotesFit == \A p \in Procs : pc[p] # "idle" /\ req[p].op # "freeze" => NoteFits(req[p])

\* The bytes of a plan before and after the replacement an intent announces,
\* with the edits that may have come since.
Untouched(c, row) ==
  \/ c = row.before
  \/ c.notes > row.before.notes /\ c.auto_block_fails = row.before.auto_block_fails

Overwritten(c, row) == c = row.after \/ c.notes > row.after.notes

\* A plan whose owned state `state` is replayed and `known` is accounted for,
\* with the intent row open.
IsLeft(state, known, c, row) == known = state /\ Untouched(c, row)
IsDone(state, known, c, row) == known = After(state, row) /\ Overwritten(c, row)

Accounted(rows, c, f, known, x) ==
  /\ Pending(rows, x) = {} => known[x] = Replayed(rows, c)[x]
  /\ \A i \in Pending(rows, x) :
       /\ i > c.cursor
       /\ \/ IsLeft(Replayed(rows, c)[x], known[x], f[x], rows[i])
          \/ IsDone(Replayed(rows, c)[x], known[x], f[x], rows[i])

\* The books of an iteration, right until a transition is out of place.
Books(rows, c, f, known) ==
  /\ FrozenIn(c, rows) /\ IsSnapshot(c.snap, Frozen)
  /\ StartsUnexplained(rows, c) \/ \A x \in Frozen : Accounted(rows, c, f, known, x)

\* What a client at work knows of its own intent.
InHand(d, p) ==
  LET x == req[p].path IN
  x \in Frozen /\ ~StartsUnexplained(log, ctx[d]) =>
    /\ pc[p] = "intended" =>
         IsLeft(Replayed(log, ctx[d])[x], shadow[d][x], files[x], log[mine[p]])
    /\ pc[p] = "replaced" =>
         IsDone(Replayed(log, ctx[d])[x], shadow[d][x], files[x], log[mine[p]])

\* What a freezing driver has read and recovered.
Reading ==
  \A d \in Drivers : pc[d] = "guards" /\ req[d].op = "freeze" =>
    /\ IsSnapshot(req[d].snap, Frozen)
    /\ \A x \in Frozen : x \in todo[d] \/ Pending(log, x) = {}

BooksInv ==
  \A d \in Drivers : Dispatched(d) =>
    /\ Books(log, ctx[d], files, shadow[d])
    /\ \A p \in Procs : InHand(d, p)

\* An intent announces what the bytes its client read permit.
IntentsPermitted ==
  \A p \in Procs : pc[p] = "intended" => Permitted(req[p], log[mine[p]].before)

EditInv ==
  /\ AskInv /\ IntentsPermitted /\ DigestsMatch /\ NotesFit /\ Reading
  /\ AtMostOne(log) /\ RowsFit(log)
  /\ BooksInv

-----------------------------------------------------------------------------
(* Rows.                                                                   *)

\* After on a snapshot, which is never the taint.
LEMMA AfterSnapshot ==
  ASSUME NEW state, DOMAIN state = OwnedFields, NEW row
  PROVE  /\ Matches(state, row.from) => After(state, row) = Project(state, row.to)
<1>1. DOMAIN Tainted = {"status"}
  BY DEF Tainted
<1>2. "hold" \in OwnedFields /\ "hold" # "status"
  BY DEF OwnedFields
<1>3. state # Tainted
  BY <1>1, <1>2
<1> QED BY <1>3 DEF After

\* Projecting what is already there changes nothing.
LEMMA ProjectSame ==
  ASSUME NEW state, NEW keys, state = [k \in keys |-> state[k]], NEW to, Matches(state, to)
  PROVE  Project(state, to) = state
<1>1. Project(state, to) = [k \in keys |-> state[k]]
  BY DEF Project, Matches
<1> QED BY <1>1

\* What the bytes say of an open intent, when anybody can explain them.
LEMMA BytesTell ==
  ASSUME NEW row, Fits(row), row.before \in Contents, row.after \in Contents,
         NEW c, c \in {row.before, row.after}
  PROVE  /\ Untouched(c, row) => c = row.before \/ row.from = row.to
         /\ Overwritten(c, row) => c = row.after
<1>1. /\ row.before.notes \in Nat /\ row.after.notes \in Nat
      /\ row.before # row.after /\ row.before.notes <= row.after.notes
      /\ row.before.notes # row.after.notes =>
           row.from = row.to \/ row.before.auto_block_fails # row.after.auto_block_fails
  BY DEF Contents, Fits
<1>2. Untouched(c, row) => c = row.before \/ row.from = row.to
  BY <1>1 DEF Untouched
<1>3. Overwritten(c, row) => c = row.after
  BY <1>1 DEF Overwritten
<1> QED BY <1>2, <1>3

LEMMA AppendFits ==
  ASSUME NEW rows, JournalOK(rows), RowsFit(rows), NEW row, IsIntent(row) => Fits(row)
  PROVE  RowsFit(Append(rows, row))
<1> DEFINE new == Append(rows, row)
<1>1. /\ Len(rows) \in Nat /\ DOMAIN rows = 1 .. Len(rows) /\ DOMAIN new = 1 .. (Len(rows) + 1)
      /\ new[Len(rows) + 1] = row /\ \A k \in 1 .. Len(rows) : new[k] = rows[k]
  BY AppendIsOneMore DEF OneMore
<1> HIDE DEF new
<1>2. \A k \in DOMAIN new : k \in 1 .. Len(rows) \/ k = Len(rows) + 1
  BY <1>1
<1>3. RowsFit(new)
  BY <1>1, <1>2 DEF RowsFit
<1> QED BY <1>3 DEF new

\* The intent of a permitted request fits.
LEMMA IntentFits ==
  ASSUME NEW r, RequestOK(r), r.op # "freeze", DigestMatches(r), NoteFits(r),
         NEW c \in Contents, Permitted(r, c), NewContent(r, c) # c, NEW n
  PROVE  Fits(Intent(r, c, n))
<1> DEFINE row == Intent(r, c, n)
           after == NewContent(r, c)
<1>1. row.before = c /\ row.after = after /\ row.from = r.from /\ row.to = r.to
  BY DEF Intent
<1>2. Partial(r.to) /\ Partial(r.from) /\ r.note \in {0, 1} /\ Matches(c, r.from)
  BY PermittedMatches DEF RequestOK
<1>3. OwnedState(after) = Project(OwnedState(c), r.to)
  BY <1>2, OwnedStateOfNewContent
<1>4. c.notes \in Nat /\ DOMAIN c = {"status", "current_step", "hold", "auto_block_fails", "contract", "notes"}
  BY DEF Contents
<1>5. after.notes = c.notes + r.note
  BY <1>2, <1>4 DEF NewContent, Project, Partial, OwnedFields
<1>6. ASSUME r.note # 0, r.from # r.to PROVE c.auto_block_fails # after.auto_block_fails
  <2>1. /\ "auto_block_fails" \in DOMAIN r.from /\ "auto_block_fails" \in DOMAIN r.to
        /\ r.from.auto_block_fails # r.to.auto_block_fails
    BY <1>6 DEF NoteFits
  <2>2. c.auto_block_fails = r.from.auto_block_fails
    BY <1>2, <2>1 DEF Matches
  <2>3. after.auto_block_fails = r.to.auto_block_fails
    BY <2>1, NewContentFields
  <2> QED BY <2>1, <2>2, <2>3
<1> HIDE DEF row, after
<1>7. Fits(row)
  BY <1>1, <1>2, <1>3, <1>4, <1>5, <1>6 DEF Fits, Applies, after
<1> QED BY <1>7 DEF row

-----------------------------------------------------------------------------
(* The books under one step of the journal or the files.                   *)

\* A completion closes the intent it names and no other.
LEMMA ClosesOne ==
  ASSUME NEW rows, JournalOK(rows), RowsFit(rows), NEW y, NEW i \in Pending(rows, y),
         NEW phase \in Phases \ {"intent"}, NEW x
  PROVE  Pending(Append(rows, Completion(rows[i], phase)), x) = Pending(rows, x) \ {i}
<1> DEFINE row == Completion(rows[i], phase)
           g == [z \in {y} |-> IF Wrote(row) THEN rows[i].after ELSE rows[i].before]
<1>1. rows[i].before # rows[i].after
  BY DEF RowsFit, Fits, Pending
<1>2. Wrote(row) <=> g[y] = rows[i].after
  BY <1>1
<1> HIDE DEF g
<1> QED BY <1>2, AppendCompletion

\* Closing an intent as what it is accounted for.
LEMMA CompletionBooks ==
  ASSUME NEW rows, JournalOK(rows), AtMostOne(rows), RowsFit(rows),
         NEW f, NEW c, NEW known, Books(rows, c, f, known),
         NEW y \in Paths, NEW i \in Pending(rows, y), NEW phase \in Phases \ {"intent"},
         y \in Frozen /\ ~StartsUnexplained(rows, c) =>
           IF Wrote(Completion(rows[i], phase))
           THEN Matches(Replayed(rows, c)[y], rows[i].from)
                  => known[y] = Project(Replayed(rows, c)[y], rows[i].to)
           ELSE known[y] = Replayed(rows, c)[y]
  PROVE  Books(Append(rows, Completion(rows[i], phase)), c, f, known)
<1> DEFINE row == Completion(rows[i], phase)
           new == Append(rows, row)
<1>1. /\ FrozenIn(c, rows) /\ IsSnapshot(c.snap, Frozen)
      /\ StartsUnexplained(rows, c) \/ \A x \in Frozen : Accounted(rows, c, f, known, x)
  BY DEF Books
<1>2. /\ OneMore(new, rows) /\ new[Len(new)] = row
      /\ Len(rows) \in Nat /\ DOMAIN rows = 1 .. Len(rows) /\ Len(new) = Len(rows) + 1
      /\ \A k \in 1 .. Len(rows) : new[k] = rows[k]
  BY AppendIsOneMore DEF OneMore
<1>3. i \in 1 .. Len(rows) /\ rows[i].path = y /\ RowOK(rows, i)
  BY <1>2 DEF Pending, JournalOK
<1>4. row.path = y /\ row.from = rows[i].from /\ row.to = rows[i].to
  BY <1>3 DEF RowOK, Completion
<1>5. \A x \in Paths : Pending(new, x) = Pending(rows, x) \ {i}
  BY ClosesOne
<1>6. Pending(rows, y) = {i} /\ \A x \in Paths : x # y => i \notin Pending(rows, x)
  BY <1>3 DEF AtMostOne, Pending
<1>7. y \in Frozen /\ ~StartsUnexplained(rows, c) =>
        IF Wrote(row)
        THEN Matches(Replayed(rows, c)[y], rows[i].from)
               => known[y] = Project(Replayed(rows, c)[y], rows[i].to)
        ELSE known[y] = Replayed(rows, c)[y]
  OBVIOUS
<1> HIDE DEF new, row
<1>8. FrozenIn(c, new)
  BY <1>1, <1>2 DEF FrozenIn
<1>9. StartsUnexplained(new, c) <=>
        \/ StartsUnexplained(rows, c)
        \/ Wrote(row) /\ y \in Frozen /\ ~Matches(Replayed(rows, c)[y], rows[i].from)
  BY <1>1, <1>2, <1>4, UnexplainedGrows DEF IsSnapshot
<1>10. \A x \in Frozen : Replayed(new, c)[x] = IF Wrote(row) /\ y = x
                                              THEN Project(Replayed(rows, c)[x], rows[i].to)
                                              ELSE Replayed(rows, c)[x]
  BY <1>1, <1>2, <1>4, ReplayedGrows
<1>11. ASSUME ~StartsUnexplained(new, c), NEW x \in Frozen PROVE Accounted(new, c, f, known, x)
  <2>1. x \in Paths /\ Accounted(rows, c, f, known, x) /\ ~StartsUnexplained(rows, c)
    BY <1>1, <1>9, <1>11 DEF Paths
  <2>2. CASE x # y
    <3>1. Pending(new, x) = Pending(rows, x) /\ Replayed(new, c)[x] = Replayed(rows, c)[x]
      BY <1>5, <1>6, <1>10, <2>1, <2>2
    <3>2. \A k \in Pending(rows, x) : new[k] = rows[k]
      BY <1>2 DEF Pending
    <3> QED BY <2>1, <3>1, <3>2 DEF Accounted
  <2>3. CASE x = y
    <3>1. Pending(new, x) = {}
      BY <1>5, <1>6, <2>1, <2>3
    <3>2. known[x] = Replayed(new, c)[x]
      BY <1>7, <1>9, <1>10, <1>11, <2>1, <2>3
    <3> QED BY <3>1, <3>2 DEF Accounted
  <2> QED BY <2>2, <2>3
<1>12. Books(new, c, f, known)
  BY <1>1, <1>8, <1>11 DEF Books
<1> QED BY <1>12 DEF new, row

\* Recovery closes an intent only if it can explain the bytes, and then as
\* what it is accounted for.
LEMMA RecoveryBooks ==
  ASSUME NEW rows, JournalOK(rows), AtMostOne(rows), RowsFit(rows),
         NEW f, NEW c, NEW known, Books(rows, c, f, known),
         NEW y \in Paths, Explicable(rows, y, f[y])
  PROVE  Books(Recovered(rows, y, f[y]), c, f, known)
<1>1. CASE Pending(rows, y) = {}
  BY <1>1 DEF Recovered
<1>2. CASE Pending(rows, y) # {}
  <2> DEFINE i == CHOOSE i \in Pending(rows, y) : TRUE
             phase == IF f[y] = rows[i].after THEN "recovered-applied"
                                               ELSE "recovered-not-applied"
             R == Replayed(rows, c)
  <2>1. i \in Pending(rows, y)
    BY <1>2
  <2>2. Recovered(rows, y, f[y]) = Append(rows, Completion(rows[i], phase))
    BY <1>2 DEF Recovered, RecoveryRow
  <2> HIDE DEF i
  <2>3. RowOK(rows, i) /\ Fits(rows[i]) /\ f[y] \in {rows[i].before, rows[i].after}
    BY <2>1 DEF Pending, JournalOK, RowsFit, Explicable
  <2>4. Wrote(Completion(rows[i], phase)) <=> f[y] = rows[i].after
    BY <2>3 DEF Wrote, Completion, RowOK
  <2>5. phase \in Phases \ {"intent"}
    BY DEF Phases
  <2>6. rows[i].before # rows[i].after
    BY <2>3 DEF Fits
  <2>7. /\ Untouched(f[y], rows[i]) => f[y] = rows[i].before \/ rows[i].from = rows[i].to
        /\ Overwritten(f[y], rows[i]) => f[y] = rows[i].after
    BY <2>3, BytesTell DEF RowOK
  <2> HIDE DEF phase
  <2>8. ASSUME y \in Frozen, ~StartsUnexplained(rows, c)
        PROVE  IF Wrote(Completion(rows[i], phase))
               THEN Matches(R[y], rows[i].from) => known[y] = Project(R[y], rows[i].to)
               ELSE known[y] = R[y]
    <3>1. IsSnapshot(R, Frozen)
      BY ReplayedIsSnapshot DEF Books
    <3>2. DOMAIN R[y] = OwnedFields /\ R[y] = [k \in OwnedFields |-> R[y][k]]
      BY <2>8, <3>1 DEF IsSnapshot
    <3>3. \/ IsLeft(R[y], known[y], f[y], rows[i])
          \/ IsDone(R[y], known[y], f[y], rows[i])
      BY <2>1, <2>8 DEF Books, Accounted
    <3> HIDE DEF R
    <3>4. CASE IsLeft(R[y], known[y], f[y], rows[i])
      <4>1. known[y] = R[y] /\ (f[y] = rows[i].before \/ rows[i].from = rows[i].to)
        BY <2>7, <3>4 DEF IsLeft
      <4>2. rows[i].from = rows[i].to /\ Matches(R[y], rows[i].from) => Project(R[y], rows[i].to) = R[y]
        BY <3>2, ProjectSame
      <4> QED BY <2>4, <2>6, <4>1, <4>2
    <3>5. CASE IsDone(R[y], known[y], f[y], rows[i])
      <4>1. known[y] = After(R[y], rows[i]) /\ f[y] = rows[i].after
        BY <2>7, <3>5 DEF IsDone
      <4> QED BY <2>4, <3>2, <4>1, AfterSnapshot
    <3> QED BY <3>3, <3>4, <3>5
  <2>9. Books(Append(rows, Completion(rows[i], phase)), c, f, known)
    BY <2>1, <2>5, <2>8, CompletionBooks
  <2> QED BY <2>2, <2>9
<1> QED BY <1>1, <1>2

\* An intent on a path that has none open is left to do.
LEMMA IntentBooks ==
  ASSUME NEW rows, JournalOK(rows), NEW f, NEW c, NEW known, Books(rows, c, f, known),
         NEW row, IsIntent(row), row.path \in Paths, row.id = Len(rows) + 1,
         Pending(rows, row.path) = {},
         row.before = f[row.path], row.after # f[row.path]
  PROVE  LET new == Append(rows, row) IN
         /\ Books(new, c, f, known)
         /\ row.path \in Frozen /\ ~StartsUnexplained(new, c) =>
              IsLeft(Replayed(new, c)[row.path], known[row.path], f[row.path], row)
<1> DEFINE new == Append(rows, row)
<1>1. /\ FrozenIn(c, rows) /\ IsSnapshot(c.snap, Frozen)
      /\ StartsUnexplained(rows, c) \/ \A x \in Frozen : Accounted(rows, c, f, known, x)
  BY DEF Books
<1>2. /\ OneMore(new, rows) /\ new[Len(new)] = row
      /\ Len(rows) \in Nat /\ DOMAIN rows = 1 .. Len(rows) /\ Len(new) = Len(rows) + 1
      /\ \A k \in 1 .. Len(rows) : new[k] = rows[k]
  BY AppendIsOneMore DEF OneMore
<1>3. ~Wrote(row)
  BY DEF IsIntent, Wrote
<1>4. ASSUME NEW x \in Paths
      PROVE  Pending(new, x) = Pending(rows, x) \cup (IF row.path = x THEN {Len(rows) + 1} ELSE {})
  BY AppendIntent
<1> HIDE DEF new
<1>5. FrozenIn(c, new)
  BY <1>1, <1>2 DEF FrozenIn
<1>6. StartsUnexplained(new, c) <=> StartsUnexplained(rows, c)
  BY <1>1, <1>2, <1>3, UnexplainedGrows
<1>7. \A x \in Frozen : Replayed(new, c)[x] = Replayed(rows, c)[x]
  BY <1>1, <1>2, <1>3, ReplayedGrows
<1>8. ASSUME row.path \in Frozen, ~StartsUnexplained(new, c)
      PROVE  IsLeft(Replayed(new, c)[row.path], known[row.path], f[row.path], row)
  BY <1>1, <1>6, <1>7, <1>8 DEF Accounted, IsLeft, Untouched
<1>9. ASSUME ~StartsUnexplained(new, c), NEW x \in Frozen PROVE Accounted(new, c, f, known, x)
  <2>1. x \in Paths /\ Accounted(rows, c, f, known, x) /\ Replayed(new, c)[x] = Replayed(rows, c)[x]
    BY <1>1, <1>6, <1>7, <1>9 DEF Paths
  <2>2. CASE x # row.path
    <3>1. Pending(new, x) = Pending(rows, x)
      BY <1>4, <2>1, <2>2
    <3>2. \A k \in Pending(rows, x) : new[k] = rows[k]
      BY <1>2 DEF Pending
    <3> QED BY <2>1, <3>1, <3>2 DEF Accounted
  <2>3. CASE x = row.path
    <3>1. Pending(new, x) = {Len(rows) + 1}
      BY <1>4, <2>1, <2>3
    <3>2. Len(rows) + 1 > c.cursor /\ new[Len(rows) + 1] = row
      BY <1>1, <1>2 DEF FrozenIn
    <3> QED BY <1>8, <1>9, <2>3, <3>1, <3>2 DEF Accounted
  <2> QED BY <2>2, <2>3
<1>10. Books(new, c, f, known)
  BY <1>1, <1>5, <1>9 DEF Books
<1> QED BY <1>8, <1>10 DEF new

\* A replacement is accounted for when it happens.
LEMMA ReplacementBooks ==
  ASSUME NEW rows, AtMostOne(rows), NEW y \in Paths, NEW i \in Pending(rows, y),
         NEW f, NEW g, g[y] = rows[i].after, \A z \in Paths \ {y} : g[z] = f[z],
         NEW c, NEW known, NEW next, Books(rows, c, f, known),
         \A z \in Frozen : next[z] = IF z = y THEN After(known[z], rows[i]) ELSE known[z],
         y \in Frozen /\ ~StartsUnexplained(rows, c) =>
           IsLeft(Replayed(rows, c)[y], known[y], f[y], rows[i])
  PROVE  /\ Books(rows, c, g, next)
         /\ y \in Frozen /\ ~StartsUnexplained(rows, c) =>
              IsDone(Replayed(rows, c)[y], next[y], g[y], rows[i])
<1>1. ASSUME y \in Frozen, ~StartsUnexplained(rows, c)
      PROVE  IsDone(Replayed(rows, c)[y], next[y], g[y], rows[i])
  BY <1>1 DEF IsLeft, IsDone, Overwritten
<1>2. ASSUME NEW x \in Frozen, ~StartsUnexplained(rows, c) PROVE Accounted(rows, c, g, next, x)
  <2>1. x \in Paths /\ Accounted(rows, c, f, known, x)
    BY <1>2 DEF Books, Paths
  <2>2. CASE x # y
    BY <2>1, <2>2 DEF Accounted
  <2>3. CASE x = y
    <3>1. Pending(rows, x) = {i}
      BY <2>3 DEF AtMostOne
    <3> QED BY <1>1, <1>2, <2>1, <2>3, <3>1 DEF Accounted
  <2> QED BY <2>2, <2>3
<1> QED BY <1>1, <1>2 DEF Books

\* The bytes a raw edit leaves.
Edited(old, new) == new.notes = old.notes + 1 /\ new.auto_block_fails = old.auto_block_fails

\* An edit does not make a replacement look undone, or done.
LEMMA EditKeeps ==
  ASSUME NEW row, row.before \in Contents, row.after \in Contents,
         NEW old \in Contents, NEW new, Edited(old, new), NEW state, NEW known
  PROVE  /\ IsLeft(state, known, old, row) => IsLeft(state, known, new, row)
         /\ IsDone(state, known, old, row) => IsDone(state, known, new, row)
<1>1. old.notes \in Nat /\ row.before.notes \in Nat /\ row.after.notes \in Nat
  BY DEF Contents
<1>2. Untouched(old, row) => Untouched(new, row)
  BY <1>1 DEF Untouched, Edited
<1>3. Overwritten(old, row) => Overwritten(new, row)
  BY <1>1 DEF Overwritten, Edited
<1> QED BY <1>2, <1>3 DEF IsLeft, IsDone

-----------------------------------------------------------------------------
(* Requests and freezes.                                                   *)

\* Every request that leaves a note counts a strike or changes no field.
LEMMA NotesStep ==
  ASSUME LockInv, NotesFit, [Next]_vars
  PROVE  NotesFit'
<1> SUFFICES ASSUME NEW p \in Procs, pc'[p] # "idle", req'[p].op # "freeze"
             PROVE  NoteFits(req'[p])
  BY DEF NotesFit, NoteFits
<1>1. DOMAIN req = Procs /\ Drivers \subseteq Procs /\ Humans \subseteq Procs
  BY DEF LockInv, RequestsOK, Procs
<1>2. ASSUME NEW r, Ask(p, r) PROVE req'[p] = r
  BY <1>1, <1>2 DEF Ask
<1>3. ASSUME NEW r, r.note = 0, Ask(p, r) PROVE NoteFits(req'[p])
  BY <1>2, <1>3 DEF NoteFits
<1>4. CASE pc[p] # "idle" /\ req'[p] = req[p]
  BY <1>4 DEF NotesFit
<1>5. CASE DriverAsks(p)
  <2>1. ~BeginFreeze(p)
    BY <1>1 DEF BeginFreeze
  <2> USE DEF Transition
  <2>2. ASSUME NEW s \in Subs,
               AskAdvance(p, s) \/ AskShip(p, s) \/ AskPass(p, s)
        PROVE  NoteFits(req'[p])
    <3>1. ASSUME AskAdvance(p, s) PROVE NoteFits(req'[p])
      BY <1>3, <3>1 DEF AskAdvance
    <3>2. ASSUME AskShip(p, s) PROVE NoteFits(req'[p])
      BY <1>3, <3>2 DEF AskShip
    <3>3. ASSUME AskPass(p, s) PROVE NoteFits(req'[p])
      BY <1>3, <3>3 DEF AskPass
    <3> QED BY <2>2, <3>1, <3>2, <3>3
  <2>3. ASSUME NEW s \in Subs, AskStrike(p, s) PROVE NoteFits(req'[p])
    <3> DEFINE fails == files[s].auto_block_fails
    <3>1. fails \in Nat
      BY FileFields DEF LockInv, Paths, Frozen
    <3>2. \/ /\ req'[p].from = [auto_block_fails |-> fails, status |-> files[s].status]
             /\ req'[p].to = [auto_block_fails |-> fails + 1, status |-> "blocked"]
          \/ req'[p].note = 0
      BY <1>2, <2>3 DEF AskStrike
    <3> HIDE DEF fails
    <3> QED BY <3>1, <3>2 DEF NoteFits
  <2>4. ASSUME NEW s \in Subs, NEW red \in 0 .. Steps, AskRollback(p, s, red)
        PROVE  NoteFits(req'[p])
    BY <1>3, <2>4 DEF AskRollback
  <2>5. ASSUME NEW x \in Frozen, AskNote(p, x) PROVE NoteFits(req'[p])
    <3>1. req'[p].from = req'[p].to
      BY <1>2, <2>5 DEF AskNote
    <3> QED BY <3>1 DEF NoteFits
  <2>6. CASE AskComplete(p) \/ AskAutoPark(p)
    BY <1>3, <2>6 DEF AskComplete, AskAutoPark
  <2>7. CASE AskProjection(p)
    <3>1. req'[p].from = req'[p].to
      BY <1>2, <2>7 DEF AskProjection
    <3> QED BY <3>1 DEF NoteFits
  <2>8. ASSUME NEW x \in Frozen, TakeSnapshot(p, x) PROVE FALSE
    BY <2>8 DEF TakeSnapshot
  <2>9. CASE AskRestore(p) \/ \E x \in Frozen : CompareWithSnapshot(p, x)
    <3>1. PICK x, from, to : req' = [req EXCEPT ![p] = Transition("integrity-repair", x, from, to)]
      BY <2>9 DEF CompareWithSnapshot, Compare, AskRestore
    <3>2. req'[p].note = 0
      BY <1>1, <3>1
    <3> QED BY <3>2 DEF NoteFits
  <2> QED BY <1>5, <2>1, <2>2, <2>3, <2>4, <2>5, <2>6, <2>7, <2>8, <2>9 DEF DriverAsks
<1>6. CASE HumanAsks(p)
  <2> USE DEF Transition
  <2>1. ASSUME NEW m, AskPark(p, m) \/ AskUnpark(p, m) PROVE NoteFits(req'[p])
    BY <1>3, <2>1 DEF AskPark, AskUnpark
  <2>2. ASSUME NEW s \in Subs, AskRevise(p, s) PROVE NoteFits(req'[p])
    BY <1>3, <2>2 DEF AskRevise
  <2>3. ASSUME NEW s \in Subs, AskReset(p, s) PROVE NoteFits(req'[p])
    <3>1. ~UNCHANGED <<req, pc>>
      BY <1>1, <2>3 DEF AskReset
    <3>2. req'[p].note = 0
      BY <1>1, <2>3, <3>1 DEF AskReset
    <3> QED BY <3>2 DEF NoteFits
  <2> QED BY <1>6, <2>1, <2>2, <2>3 DEF HumanAsks
<1> QED BY <1>4, <1>5, <1>6, RequestsStand

\* While a driver freezes, nobody else opens an intent.
LEMMA ReadingStep ==
  ASSUME LockInv, AtMostOne(log), Reading, [Next]_vars
  PROVE  Reading'
<1> SUFFICES ASSUME NEW d \in Drivers, pc'[d] = "guards", req'[d].op = "freeze"
             PROVE  /\ IsSnapshot(req'[d].snap, Frozen)
                    /\ \A x \in Frozen : x \in todo'[d] \/ Pending(log', x) = {}
  BY DEF Reading
<1>1. d \in Procs /\ DOMAIN req = Procs /\ todo \in [Procs -> SUBSET Paths] /\ JournalOK(log)
  BY DEF LockInv, TypeOK, RequestsOK, Procs
<1>2. CASE BeginFreeze(d)
  <2>1. req'[d].snap = [x \in Frozen |-> OwnedState(files[x])] /\ todo'[d] = Frozen
    BY <1>1, <1>2 DEF BeginFreeze
  <2> QED BY <2>1 DEF IsSnapshot, OwnedState
<1>3. CASE pc[d] = "guards" /\ req'[d] = req[d] /\ todo'[d] = todo[d] /\ UNCHANGED log
  BY <1>3 DEF Reading
<1>4. ASSUME pc[d] = "guards", req'[d] = req[d],
             NEW y \in todo[d], todo'[d] = todo[d] \ {y}, log' = Recovered(log, y, files[y])
      PROVE  /\ IsSnapshot(req'[d].snap, Frozen)
             /\ \A x \in Frozen : x \in todo'[d] \/ Pending(log', x) = {}
  <2>1. y \in Paths
    BY <1>1
  <2>2. \A x \in Paths : Pending(log', x) = IF x = y THEN {} ELSE Pending(log, x)
    BY <1>1, <1>4, <2>1, RecoveredEffects
  <2> QED BY <1>4, <2>2 DEF Reading, Paths
<1> QED BY <1>2, <1>3, <1>4, FreezingStands

-----------------------------------------------------------------------------
(* A step of a client.                                                     *)

\* The intent of a client at work is the open one of its path.
LEMMA MineIsOpen ==
  ASSUME LockInv, NEW p \in Procs, pc[p] \in {"intended", "replaced"}
  PROVE  /\ mine[p] \in Pending(log, req[p].path) /\ req[p].path \in Paths
         /\ log[mine[p]].path = req[p].path
         /\ log[mine[p]].from = req[p].from /\ log[mine[p]].to = req[p].to
<1>1. /\ mine[p] = Len(log) /\ mine[p] \in DOMAIN log /\ IsIntent(log[mine[p]])
      /\ log[mine[p]] = Intent(req[p], log[mine[p]].before, mine[p])
      /\ req[p].op # "freeze" /\ RequestOK(req[p])
  BY DEF LockInv, IntentIsLast, RequestsOK
<1>2. Len(log) \in Nat /\ DOMAIN log = 1 .. Len(log)
  BY JournalIsSeq DEF LockInv, TypeOK
<1>3. /\ log[mine[p]].path = req[p].path
      /\ log[mine[p]].from = req[p].from /\ log[mine[p]].to = req[p].to
  BY <1>1 DEF Intent
<1>4. mine[p] \in Pending(log, req[p].path)
  BY <1>1, <1>2, <1>3 DEF Pending, Completes
<1> QED BY <1>1, <1>3, <1>4 DEF RequestOK

LEMMA RecoveredFits ==
  ASSUME NEW rows, JournalOK(rows), AtMostOne(rows), RowsFit(rows), NEW y \in Paths, NEW c
  PROVE  LET new == Recovered(rows, y, c) IN
         /\ JournalOK(new) /\ AtMostOne(new) /\ RowsFit(new) /\ Pending(new, y) = {}
<1> DEFINE f == [z \in {y} |-> c]
           new == Recovered(rows, y, f[y])
<1>1. f[y] = c
  OBVIOUS
<1> HIDE DEF f
<1>2. \A x \in Paths : Pending(new, x) = IF x = y THEN {} ELSE Pending(rows, x)
  BY RecoveredEffects
<1>3. AtMostOne(new)
  BY <1>2 DEF AtMostOne
<1>4. RowsFit(new)
  <2>1. CASE Pending(rows, y) = {}
    BY <2>1 DEF Recovered
  <2>2. CASE Pending(rows, y) # {}
    <3> DEFINE i == CHOOSE i \in Pending(rows, y) : TRUE
    <3>1. i \in Pending(rows, y)
      BY <2>2
    <3>2. new = Append(rows, RecoveryRow(rows[i], f[y]))
      BY <2>2 DEF Recovered
    <3> HIDE DEF i, new
    <3>3. RowOK(rows, i)
      BY <3>1 DEF Pending, JournalOK
    <3>4. ~IsIntent(RecoveryRow(rows[i], f[y]))
      BY <3>3 DEF RecoveryRow, Completion, RowOK, IsIntent
    <3> QED BY <3>2, <3>4, AppendFits
  <2> QED BY <2>1, <2>2
<1>5. JournalOK(new)
  BY RecoveredKeepsJournal
<1> QED BY <1>1, <1>2, <1>3, <1>4, <1>5

\* The journal of a writing client, and the books of any iteration with it.
LEMMA WritesBooks ==
  ASSUME EditInv, NEW p \in Procs, WriteIntent(p)
  PROVE  /\ AtMostOne(log') /\ RowsFit(log')
         /\ \A c, known : Books(log, c, files, known) =>
              LET x == req[p].path IN
              /\ Books(log', c, files, known)
              /\ x \in Frozen /\ ~StartsUnexplained(log', c) =>
                   IsLeft(Replayed(log', c)[x], known[x], files[x], log'[mine'[p]])
<1> DEFINE r == req[p]
           y == r.path
           b == files[y]
           rec == Recovered(log, y, b)
           row == Intent(r, b, Len(rec) + 1)
<1>1. /\ pc[p] = "guards" /\ r.op # "freeze" /\ Explicable(log, y, b) /\ Permitted(r, b)
      /\ NewContent(r, b) # b /\ log' = Append(rec, row) /\ mine' = [mine EXCEPT ![p] = Len(rec) + 1]
  BY DEF WriteIntent, AtTarget
<1>2. /\ LockInv /\ JournalOK(log) /\ AtMostOne(log) /\ RowsFit(log)
      /\ RequestOK(r) /\ DigestMatches(r) /\ NoteFits(r)
      /\ files \in [Paths -> Contents] /\ mine \in [Procs -> Nat]
  BY <1>1 DEF EditInv, AskInv, LockInv, TypeOK, RequestsOK, DigestsMatch, NotesFit
<1>3. y \in Paths /\ b \in Contents
  BY <1>1, <1>2 DEF RequestOK
<1>4. JournalOK(rec) /\ AtMostOne(rec) /\ RowsFit(rec) /\ Pending(rec, y) = {}
  BY <1>2, <1>3, RecoveredFits
<1>5. /\ IsIntent(row) /\ row.path = y /\ row.id = Len(rec) + 1
      /\ row.before = b /\ row.after = NewContent(r, b)
  BY DEF Intent, IsIntent
<1>6. Fits(row)
  BY <1>1, <1>2, <1>3, IntentFits
<1>7. /\ Len(rec) \in Nat /\ log'[Len(rec) + 1] = row /\ mine'[p] = Len(rec) + 1
  <2>1. Len(log') = Len(rec) + 1 /\ log'[Len(log')] = row /\ Len(rec) \in Nat
    BY <1>1, <1>4, AppendIsOneMore
  <2> QED BY <1>1, <1>2, <2>1
<1> HIDE DEF rec, row, b
<1>8. RowsFit(log')
  BY <1>1, <1>4, <1>6, AppendFits
<1>9. AtMostOne(log')
  <2>1. ASSUME NEW x \in Paths
        PROVE  Pending(log', x) = Pending(rec, x) \cup (IF row.path = x THEN {Len(rec) + 1} ELSE {})
    <3> DEFINE g == [z \in {y} |-> b]
    <3>1. row.path = x => g[x] # row.after
      BY <1>1, <1>5
    <3> HIDE DEF g
    <3> QED BY <1>1, <1>4, <1>5, <3>1, AppendIntent
  <2> QED BY <1>4, <1>5, <2>1 DEF AtMostOne
<1>10. ASSUME NEW c, NEW known, Books(log, c, files, known)
       PROVE  /\ Books(log', c, files, known)
              /\ y \in Frozen /\ ~StartsUnexplained(log', c) =>
                   IsLeft(Replayed(log', c)[y], known[y], files[y], log'[mine'[p]])
  <2>1. Books(rec, c, files, known)
    BY <1>1, <1>2, <1>3, <1>10, RecoveryBooks DEF rec, b
  <2>2. row.before = files[row.path] /\ row.after # files[row.path]
    BY <1>1, <1>5 DEF b
  <2> QED BY <1>1, <1>3, <1>4, <1>5, <1>7, <2>1, <2>2, IntentBooks
<1> QED BY <1>8, <1>9, <1>10

\* A completion closes the intent as done.
LEMMA FinishBooks ==
  ASSUME EditInv, NEW p \in Procs, Finish(p), NEW d \in Drivers, Dispatched(d)
  PROVE  Books(log', ctx[d], files, shadow[d])
<1> DEFINE i == mine[p]
           y == req[p].path
           R == Replayed(log, ctx[d])
<1>1. /\ JournalOK(log) /\ AtMostOne(log) /\ RowsFit(log) /\ LockInv
      /\ Books(log, ctx[d], files, shadow[d]) /\ InHand(d, p)
  BY DEF EditInv, AskInv, LockInv, TypeOK, BooksInv
<1>2. pc[p] = "replaced" /\ log' = Append(log, Completion(log[i], "applied"))
  BY DEF Finish
<1>3. i \in Pending(log, y) /\ y \in Paths
  BY <1>1, <1>2, MineIsOpen
<1>4. "applied" \in Phases \ {"intent"} /\ Wrote(Completion(log[i], "applied"))
  <2>1. RowOK(log, i)
    BY <1>1, <1>3 DEF Pending, JournalOK
  <2> QED BY <2>1 DEF RowOK, Completion, Wrote, Phases
<1>5. ASSUME y \in Frozen, ~StartsUnexplained(log, ctx[d]), Matches(R[y], log[i].from)
      PROVE  shadow[d][y] = Project(R[y], log[i].to)
  <2>1. shadow[d][y] = After(R[y], log[i])
    BY <1>1, <1>2, <1>5 DEF InHand, IsDone
  <2>2. IsSnapshot(R, Frozen)
    BY <1>1, ReplayedIsSnapshot DEF Books
  <2> HIDE DEF R
  <2>3. DOMAIN R[y] = OwnedFields
    BY <1>5, <2>2 DEF IsSnapshot
  <2> QED BY <1>5, <2>1, <2>3, AfterSnapshot
<1> HIDE DEF i, y
<1>6. Books(Append(log, Completion(log[i], "applied")), ctx[d], files, shadow[d])
  BY <1>1, <1>3, <1>4, <1>5, CompletionBooks
<1> QED BY <1>2, <1>6

\* Nothing but a replacement is accounted for.
LEMMA ShadowKept ==
  ASSUME LockInv, [Next]_vars, Account, \A p \in Procs : ~Replace(p),
         NEW d \in Drivers, Dispatched(d), ctx'[d] = ctx[d], NEW x \in Frozen
  PROVE  shadow'[d][x] = shadow[d][x]
<1>1. DOMAIN pc = Procs
  BY DEF LockInv, TypeOK
<1>2. \A p \in Procs : ~(pc[p] = "intended" /\ pc'[p] = "replaced")
  BY <1>1, WritingStands DEF WriteIntent, AtTarget
<1> QED BY <1>2 DEF Account, Dispatched

LEMMA ShadowMoved ==
  ASSUME LockInv, Account, NEW p \in Procs, Replace(p),
         NEW d \in Drivers, Dispatched(d), NEW x \in Frozen
  PROVE  shadow'[d][x] = IF x = req[p].path THEN After(shadow[d][x], log[mine[p]])
                                            ELSE shadow[d][x]
<1> DEFINE Does(q) == pc[q] = "intended" /\ pc'[q] = "replaced"
<1>1. /\ pc[p] = "intended" /\ pc' = [pc EXCEPT ![p] = "replaced"] /\ UNCHANGED ctx
      /\ DOMAIN pc = Procs
  BY DEF Replace, LockInv, TypeOK
<1>2. \A q \in Procs : q # p => pc[q] \in {"idle", "compared", "asked"}
  BY <1>1, OthersOutside DEF LockInv, InCriticalSection
<1>3. \A q \in Procs : Does(q) <=> q = p
  BY <1>1, <1>2
<1>4. shadow'[d][x] = IF \E q \in Procs : Does(q) /\ req[q].path = x
                      THEN After(shadow[d][x], req[CHOOSE q \in Procs : Does(q)])
                      ELSE shadow[d][x]
  BY <1>1 DEF Account, Dispatched
<1> HIDE DEF Does
<1>5. (CHOOSE q \in Procs : Does(q)) = p
  BY <1>3
<1>6. log[mine[p]].from = req[p].from /\ log[mine[p]].to = req[p].to
  BY <1>1, MineIsOpen
<1>7. After(shadow[d][x], req[p]) = After(shadow[d][x], log[mine[p]])
  BY <1>6 DEF After
<1> QED BY <1>3, <1>4, <1>5, <1>7

\* The replacement of a file, and what is accounted for with it.
LEMMA ReplacesBooks ==
  ASSUME EditInv, NEW p \in Procs, Replace(p), Account, NEW d \in Drivers, Dispatched(d)
  PROVE  LET y == req[p].path IN
         /\ Books(log, ctx[d], files', shadow'[d])
         /\ y \in Frozen /\ ~StartsUnexplained(log, ctx[d]) =>
              IsDone(Replayed(log, ctx[d])[y], shadow'[d][y], files'[y], log[mine[p]])
<1> DEFINE y == req[p].path
           i == mine[p]
<1>1. /\ LockInv /\ AtMostOne(log) /\ Books(log, ctx[d], files, shadow[d]) /\ InHand(d, p)
      /\ DOMAIN files = Paths
  BY DEF EditInv, AskInv, LockInv, TypeOK, BooksInv
<1>2. pc[p] = "intended" /\ files' = [files EXCEPT ![y] = log[i].after]
  BY DEF Replace
<1>3. i \in Pending(log, y) /\ y \in Paths
  BY <1>1, <1>2, MineIsOpen
<1>4. \A x \in Frozen : shadow'[d][x] = IF x = y THEN After(shadow[d][x], log[i]) ELSE shadow[d][x]
  BY <1>1, ShadowMoved
<1>5. y \in Frozen /\ ~StartsUnexplained(log, ctx[d]) =>
        IsLeft(Replayed(log, ctx[d])[y], shadow[d][y], files[y], log[i])
  BY <1>1, <1>2 DEF InHand
<1>6. files'[y] = log[i].after /\ \A z \in Paths \ {y} : files'[z] = files[z]
  BY <1>1, <1>2, <1>3
<1> DEFINE g == files'
           next == shadow'[d]
           known == shadow[d]
<1>7. \A x \in Frozen : next[x] = IF x = y THEN After(known[x], log[i]) ELSE known[x]
  BY <1>4
<1>8. /\ g[y] = log[i].after /\ \A z \in Paths \ {y} : g[z] = files[z]
      /\ Books(log, ctx[d], files, known)
      /\ y \in Frozen /\ ~StartsUnexplained(log, ctx[d]) =>
           IsLeft(Replayed(log, ctx[d])[y], known[y], files[y], log[i])
  BY <1>1, <1>5, <1>6
<1> HIDE DEF y, i, g, next, known
<1>9. /\ Books(log, ctx[d], g, next)
      /\ y \in Frozen /\ ~StartsUnexplained(log, ctx[d]) =>
           IsDone(Replayed(log, ctx[d])[y], next[y], g[y], log[i])
  BY <1>1, <1>3, <1>7, <1>8, ReplacementBooks
<1> QED BY <1>9 DEF y, i, g, next

\* What is accounted for, plan by plan, is all that the books read.
LEMMA BooksRead ==
  ASSUME NEW rows, NEW c, NEW f, NEW known, NEW next, \A x \in Frozen : next[x] = known[x],
         Books(rows, c, f, known)
  PROVE  Books(rows, c, f, next)
  BY DEF Books, Accounted

\* The books of an iteration that goes on.
LEMMA BooksStand ==
  ASSUME EditInv, Next, Account, NEW d \in Drivers, Dispatched(d), ctx'[d] = ctx[d]
  PROVE  Books(log', ctx[d], files', shadow'[d])
<1>1. /\ LockInv /\ JournalOK(log) /\ AtMostOne(log) /\ RowsFit(log)
      /\ Books(log, ctx[d], files, shadow[d])
  BY DEF EditInv, AskInv, LockInv, TypeOK, BooksInv
<1>2. CASE \E p \in Procs : Replace(p)
  <2>1. PICK p \in Procs : Replace(p)
    BY <1>2
  <2>2. UNCHANGED log
    BY <2>1 DEF Replace
  <2> QED BY <2>1, <2>2, ReplacesBooks
<1>3. CASE \A p \in Procs : ~Replace(p)
  <2>1. Books(log', ctx[d], files, shadow[d]) /\ UNCHANGED files
    <3>1. CASE UNCHANGED <<files, log>>
      BY <1>1, <3>1
    <3>2. ASSUME NEW x \in Paths, UNCHANGED files, Explicable(log, x, files[x]),
                 log' = Recovered(log, x, files[x])
          PROVE  Books(log', ctx[d], files, shadow[d])
      BY <1>1, <3>2, RecoveryBooks
    <3>3. ASSUME NEW p \in Procs, WriteIntent(p)
          PROVE  Books(log', ctx[d], files, shadow[d]) /\ UNCHANGED files
      <4>1. UNCHANGED files
        BY <3>3 DEF WriteIntent
      <4> QED BY <1>1, <3>3, <4>1, WritesBooks
    <3>4. ASSUME NEW p \in Procs, Finish(p)
          PROVE  Books(log', ctx[d], files, shadow[d]) /\ UNCHANGED files
      <4>1. UNCHANGED files
        BY <3>4 DEF Finish, Leave
      <4> QED BY <3>4, <4>1, FinishBooks
    <3> QED BY <1>1, <1>3, <3>1, <3>2, <3>3, <3>4, StepKinds
  <2>2. \A x \in Frozen : shadow'[d][x] = shadow[d][x]
    BY <1>1, <1>3, ShadowKept
  <2> QED BY <2>1, <2>2, BooksRead
<1> QED BY <1>2, <1>3

\* What a client knows of its intent, in an iteration that goes on.
LEMMA InHandStands ==
  ASSUME EditInv, Next, Account, NEW d \in Drivers, Dispatched(d), ctx'[d] = ctx[d],
         NEW p \in Procs
  PROVE  InHand(d, p)'
<1>1. /\ LockInv /\ Books(log, ctx[d], files, shadow[d]) /\ InHand(d, p)
      /\ DOMAIN pc = Procs /\ Frozen \subseteq Paths
  BY DEF EditInv, AskInv, LockInv, TypeOK, BooksInv, Paths
<1>2. CASE pc'[p] \notin {"intended", "replaced"}
  BY <1>2 DEF InHand
<1>3. CASE WriteIntent(p)
  <2>1. pc'[p] = "intended" /\ UNCHANGED <<files, req>> /\ \A q \in Procs : ~Replace(q)
    <3>1. pc[p] = "guards"
      BY <1>3 DEF WriteIntent, AtTarget
    <3>2. \A q \in Procs : q # p => pc[q] \in {"idle", "compared", "asked"}
      BY <1>1, <3>1, OthersOutside DEF LockInv, InCriticalSection
    <3> QED BY <1>1, <1>3, <3>1, <3>2 DEF WriteIntent, Replace
  <2>2. \A x \in Frozen : shadow'[d][x] = shadow[d][x]
    BY <1>1, <2>1, ShadowKept
  <2>3. req[p].path \in Frozen /\ ~StartsUnexplained(log', ctx[d]) =>
          IsLeft(Replayed(log', ctx[d])[req[p].path], shadow[d][req[p].path],
                 files[req[p].path], log'[mine'[p]])
    BY <1>1, <1>3, WritesBooks
  <2> QED BY <2>1, <2>2, <2>3 DEF InHand
<1>4. CASE Replace(p)
  <2>1. pc'[p] = "replaced" /\ UNCHANGED <<log, req, mine>>
    BY <1>1, <1>4 DEF Replace
  <2> QED BY <1>4, <2>1, ReplacesBooks DEF InHand
<1>5. CASE /\ pc'[p] \in {"intended", "replaced"}
           /\ pc'[p] = pc[p] /\ mine'[p] = mine[p] /\ req'[p] = req[p]
           /\ UNCHANGED <<files, log, ctx>>
  <2>1. \A q \in Procs : ~Replace(q)
    <3>1. \A q \in Procs : q # p => pc[q] \in {"idle", "compared", "asked"}
      BY <1>1, <1>5, OthersOutside DEF LockInv, InCriticalSection
    <3> QED BY <1>1, <1>5, <3>1 DEF Replace
  <2>2. \A x \in Frozen : shadow'[d][x] = shadow[d][x]
    BY <1>1, <2>1, ShadowKept
  <2> QED BY <1>1, <1>5, <2>2 DEF InHand
<1> QED BY <1>1, <1>2, <1>3, <1>4, <1>5, WritingStands

\* The books of an iteration that begins.
LEMMA FreezeBooks ==
  ASSUME EditInv, Next, Account, NEW d \in Drivers, Freeze(d), ctx'[d] # ctx[d]
  PROVE  /\ Books(log', ctx'[d], files', shadow'[d])
         /\ \A p \in Procs : InHand(d, p)'
<1>1. /\ pc[d] = "guards" /\ req[d].op = "freeze" /\ todo[d] = {} /\ UNCHANGED <<files, log>>
      /\ DOMAIN ctx = Drivers /\ JournalOK(log) /\ LockInv
      /\ ctx' = [ctx EXCEPT ![d] = [cursor |-> Len(log), snap |-> req[d].snap,
                                    contract |-> req[d].contract]]
      /\ pc' = [pc EXCEPT ![d] = "idle"] /\ DOMAIN pc = Procs /\ d \in Procs
  BY DEF Freeze, EditInv, AskInv, DriversAskAsDrivers, LockInv, TypeOK, Procs
<1>2. /\ IsSnapshot(req[d].snap, Frozen)
      /\ \A x \in Frozen : Pending(log, x) = {}
  BY <1>1 DEF EditInv, Reading
<1> DEFINE c == ctx'[d]
<1>3. c.cursor = Len(log) /\ c.snap = req[d].snap /\ Len(log) \in Nat
  BY <1>1, JournalIsSeq
<1>4. shadow'[d] = c.snap
  BY DEF Account
<1> HIDE DEF c
<1>5. FrozenIn(c, log) /\ IsSnapshot(c.snap, Frozen)
  BY <1>2, <1>3 DEF FrozenIn
<1>6. Replayed(log, c) = c.snap
  BY <1>3, ReplayStarts
<1>7. \A x \in Frozen : Accounted(log, c, files, shadow'[d], x)
  BY <1>2, <1>4, <1>6 DEF Accounted
<1>8. Books(log', ctx'[d], files', shadow'[d])
  BY <1>1, <1>5, <1>7 DEF Books, c
<1>9. \A p \in Procs : pc'[p] \in {"idle", "compared", "asked"}
  BY <1>1, OthersOutside DEF LockInv, InCriticalSection
<1> QED BY <1>8, <1>9 DEF InHand

\* An intent was permitted when it was written, by the bytes it names.
LEMMA PermittedStep ==
  ASSUME LockInv, IntentsPermitted, [Next]_vars
  PROVE  IntentsPermitted'
<1> SUFFICES ASSUME NEW p \in Procs, pc'[p] = "intended"
             PROVE  Permitted(req'[p], log'[mine'[p]].before)
  BY DEF IntentsPermitted, Permitted, Authorised, Releases, Repairs
<1>1. JournalOK(log) /\ files \in [Paths -> Contents] /\ mine \in [Procs -> Nat] /\ DOMAIN pc = Procs
  BY DEF LockInv, TypeOK
<1>2. CASE WriteIntent(p)
  <2> DEFINE r == req[p]
             c == files[r.path]
             rec == Recovered(log, r.path, c)
             row == Intent(r, c, Len(rec) + 1)
  <2>1. /\ pc[p] = "guards" /\ r.op # "freeze" /\ Permitted(r, c) /\ req' = req
        /\ log' = Append(rec, row) /\ mine' = [mine EXCEPT ![p] = Len(rec) + 1]
    BY <1>2 DEF WriteIntent, AtTarget
  <2>2. row.before = c
    BY DEF Intent
  <2>3. JournalOK(rec)
    BY <1>1, RecoveredKeepsJournal
  <2> HIDE DEF row, c, rec
  <2>4. Len(log') = Len(rec) + 1 /\ log'[Len(log')] = row
    BY <2>1, <2>3, AppendIsOneMore
  <2>5. mine'[p] = Len(rec) + 1
    BY <1>1, <2>1
  <2> QED BY <2>1, <2>2, <2>4, <2>5
<1>3. CASE pc[p] = "intended" /\ mine'[p] = mine[p] /\ req'[p] = req[p] /\ UNCHANGED log
  BY <1>3 DEF IntentsPermitted
<1> QED BY <1>1, <1>2, <1>3, WritingStands DEF Replace

\* A step of a client keeps the invariant.
LEMMA ClientStep ==
  ASSUME EditInv, Next, Account
  PROVE  EditInv'
<1>1. /\ AskInv /\ LockInv /\ SnapshotsOK /\ JournalOK(log) /\ AtMostOne(log) /\ RowsFit(log)
      /\ IntentsPermitted /\ DigestsMatch /\ NotesFit /\ Reading /\ DOMAIN ctx = Drivers
  BY DEF EditInv, AskInv, DriversAskAsDrivers, LockInv, TypeOK
<1>2. AskInv' /\ IntentsPermitted' /\ DigestsMatch' /\ NotesFit' /\ Reading'
  BY <1>1, StepKeepsLock, SnapshotsStep, HoldsStep, PermittedStep, DigestsStep, NotesStep,
     ReadingStep
  DEF Keeps, LockInv, AskInv
<1>4. AtMostOne(log') /\ RowsFit(log')
  <2>1. CASE UNCHANGED log
    BY <1>1, <2>1
  <2>2. ASSUME NEW x \in Paths, log' = Recovered(log, x, files[x])
        PROVE  AtMostOne(log') /\ RowsFit(log')
    BY <1>1, <2>2, RecoveredFits
  <2>3. ASSUME NEW p \in Procs, WriteIntent(p) PROVE AtMostOne(log') /\ RowsFit(log')
    BY <2>3, WritesBooks
  <2>4. ASSUME NEW p \in Procs, Finish(p) PROVE AtMostOne(log') /\ RowsFit(log')
    <3> DEFINE i == mine[p]
               y == req[p].path
    <3>1. log' = Append(log, Completion(log[i], "applied")) /\ i \in Pending(log, y) /\ y \in Paths
      BY <1>1, <2>4, MineIsOpen DEF Finish
    <3> HIDE DEF i, y
    <3>2. "applied" \in Phases \ {"intent"} /\ ~IsIntent(Completion(log[i], "applied"))
      <4>1. RowOK(log, i)
        BY <1>1, <3>1 DEF Pending, JournalOK
      <4> QED BY <4>1 DEF RowOK, Completion, Phases, IsIntent
    <3>3. \A x \in Paths : Pending(log', x) = Pending(log, x) \ {i}
      BY <1>1, <3>1, <3>2, ClosesOne
    <3>4. AtMostOne(log')
      BY <1>1, <3>3 DEF AtMostOne
    <3>5. RowsFit(log')
      BY <1>1, <3>1, <3>2, AppendFits
    <3> QED BY <3>4, <3>5
  <2>5. ASSUME NEW p \in Procs, Replace(p) PROVE UNCHANGED log
    BY <2>5 DEF Replace
  <2> QED BY <1>1, <2>1, <2>2, <2>3, <2>4, <2>5, StepKinds
<1>5. BooksInv'
  <2> SUFFICES ASSUME NEW d \in Drivers, Dispatched(d)'
               PROVE  /\ Books(log', ctx'[d], files', shadow'[d])
                      /\ \A p \in Procs : InHand(d, p)'
    BY DEF BooksInv
  <2>1. CASE ctx'[d] = ctx[d]
    <3>1. Dispatched(d)
      BY <2>1 DEF Dispatched
    <3> QED BY <2>1, <3>1, BooksStand, InHandStands
  <2>2. CASE ctx'[d] # ctx[d]
    <3>1. Freeze(d)
      BY <1>1, <2>2, ContextsStand
    <3> QED BY <2>2, <3>1, FreezeBooks
  <2> QED BY <2>1, <2>2
<1> QED BY <1>2, <1>4, <1>5 DEF EditInv

-----------------------------------------------------------------------------
(* The other writer.                                                       *)

\* A raw edit leaves the journal, the lock and the books as they are: the plan
\* it changes is accounted for as before, and no intent of it looks more or
\* less done.
LEMMA RawEditStep ==
  ASSUME EditInv, NEW x \in Frozen, RawEdit(x)
  PROVE  EditInv'
<1>1. /\ AskInv /\ LockInv /\ IntentsPermitted /\ DigestsMatch /\ NotesFit /\ Reading
      /\ AtMostOne(log) /\ RowsFit(log) /\ BooksInv /\ JournalOK(log)
      /\ files \in [Paths -> Contents] /\ x \in Paths
  BY DEF EditInv, AskInv, LockInv, TypeOK, Paths
<1>2. UNCHANGED <<log, holder, pc, req, todo, mine, resets, ctx, took, asks, crashes, shadow>>
  BY DEF RawEdit
<1>3. /\ files' \in [Paths -> Contents] /\ Edited(files[x], files'[x])
      /\ \A z \in Paths \ {x} : files'[z] = files[z]
  <2> DEFINE c == files[x]
  <2>1. PICK edited \in {[c EXCEPT !.current_step = n] : n \in 0 .. Steps}
               \cup {[c EXCEPT !.status = v] : v \in {"queued", "in-progress", "shipped", "blocked"}}
               \cup {[c EXCEPT !.hold = v] : v \in Holds} :
               files' = [files EXCEPT ![x] = [edited EXCEPT !.notes = @ + 1]]
    BY DEF RawEdit
  <2>2. c \in Contents
    BY <1>1
  <2> HIDE DEF c
  <2>3. /\ edited \in Contents /\ edited.notes = c.notes
        /\ edited.auto_block_fails = c.auto_block_fails
    BY <2>2, BoundsAssumption DEF Contents, Statuses, HeldStatuses
  <2>4. [edited EXCEPT !.notes = @ + 1] \in Contents /\ Edited(c, [edited EXCEPT !.notes = @ + 1])
    BY <2>3 DEF Contents, Edited
  <2> QED BY <1>1, <2>1, <2>4 DEF c
<1>4. LockInv'
  <2>1. TypeOK'
    BY <1>1, <1>2, <1>3 DEF LockInv, TypeOK
  <2>2. MutualExclusion' /\ RequestsOK' /\ IntentIsLast'
    BY <1>1, <1>2 DEF LockInv, MutualExclusion, InCriticalSection, RequestsOK, IntentIsLast
  <2> QED BY <2>1, <2>2 DEF LockInv
<1>5. /\ SnapshotsOK' /\ DriversAskAsDrivers' /\ IntentsPermitted'
      /\ DigestsMatch' /\ NotesFit' /\ Reading'
  BY <1>1, <1>2 DEF AskInv, SnapshotsOK, DriversAskAsDrivers, DriverRequest, IntentsPermitted,
                    Permitted, Authorised, Releases, Repairs, DigestsMatch, NotesFit, Reading
<1>6. ASSUME NEW y \in Paths, NEW i \in Pending(log, y), NEW state, NEW known
      PROVE  /\ IsLeft(state, known, files[y], log[i]) => IsLeft(state, known, files'[y], log[i])
             /\ IsDone(state, known, files[y], log[i]) => IsDone(state, known, files'[y], log[i])
  <2>1. CASE y # x
    BY <1>3, <2>1
  <2>2. CASE y = x
    <3>1. log[i].before \in Contents /\ log[i].after \in Contents /\ files[x] \in Contents
      BY <1>1 DEF Pending, JournalOK, RowOK
    <3> QED BY <1>3, <2>2, <3>1, EditKeeps
  <2> QED BY <2>1, <2>2
<1>7. ASSUME NEW d \in Drivers, Dispatched(d) PROVE Books(log, ctx[d], files', shadow[d])
  <2>1. Books(log, ctx[d], files, shadow[d])
    BY <1>1, <1>7 DEF BooksInv
  <2>2. ASSUME NEW y \in Frozen, Accounted(log, ctx[d], files, shadow[d], y)
        PROVE  Accounted(log, ctx[d], files', shadow[d], y)
    <3>1. y \in Paths
      BY DEF Paths
    <3> QED BY <1>6, <2>2, <3>1 DEF Accounted
  <2> QED BY <2>1, <2>2 DEF Books
<1>8. ASSUME NEW d \in Drivers, Dispatched(d), NEW p \in Procs PROVE InHand(d, p)'
  <2>1. InHand(d, p)
    BY <1>1, <1>8 DEF BooksInv
  <2>2. CASE pc[p] \notin {"intended", "replaced"}
    BY <1>2, <2>2 DEF InHand
  <2>3. CASE pc[p] \in {"intended", "replaced"}
    <3>1. mine[p] \in Pending(log, req[p].path) /\ req[p].path \in Paths
      BY <1>1, <2>3, MineIsOpen
    <3> QED BY <1>2, <1>6, <2>1, <3>1 DEF InHand
  <2> QED BY <2>2, <2>3
<1>9. BooksInv'
  BY <1>2, <1>7, <1>8 DEF BooksInv, Dispatched
<1> QED BY <1>1, <1>2, <1>4, <1>5, <1>9 DEF EditInv, AskInv

\* The books of every iteration hold beside a writer that uses neither the
\* lock nor the journal.
THEOREM EditsInductive == EditSpec => []EditInv
<1>1. EditInit => EditInv
  <2> SUFFICES ASSUME EditInit PROVE EditInv
    OBVIOUS
  <2>1. Init
    BY DEF EditInit
  <2>2. AskInv /\ IntentsPermitted
    <3>1. DriversAskAsDrivers /\ IntentsPermitted
      BY <2>1 DEF Init, DriversAskAsDrivers, IntentsPermitted, Procs
    <3> QED BY <2>1, <3>1, InitEstablishes DEF IInv, AskInv
  <2>3. DigestsMatch /\ NotesFit /\ Reading
    BY <2>1 DEF Init, DigestsMatch, NotesFit, Reading, Procs
  <2>4. log = <<>> /\ DOMAIN log = {} /\ \A x \in Paths : Pending(log, x) = {}
    BY <2>1 DEF Init, Pending
  <2>5. AtMostOne(log) /\ RowsFit(log)
    BY <2>4 DEF AtMostOne, RowsFit
  <2>6. \A d \in Drivers : ~Dispatched(d)
    BY <2>1 DEF Init, Dispatched
  <2> QED BY <2>2, <2>3, <2>5, <2>6 DEF EditInv, BooksInv
<1>2. EditInv /\ [EditNext]_editVars => EditInv'
  <2> SUFFICES ASSUME EditInv, [EditNext]_editVars PROVE EditInv'
    OBVIOUS
  <2>1. CASE Next /\ Account
    BY <2>1, ClientStep
  <2>2. ASSUME NEW x \in Frozen, RawEdit(x) PROVE EditInv'
    BY <2>2, RawEditStep
  <2>3. CASE UNCHANGED editVars
    <3>1. UNCHANGED <<files, log, holder, pc, req, todo, mine, resets, ctx, took, asks, crashes, shadow>>
      BY <2>3 DEF editVars, vars
    <3>2. LockInv'
      BY <3>1 DEF EditInv, AskInv, LockInv, TypeOK, MutualExclusion, InCriticalSection, RequestsOK,
                  IntentIsLast
    <3>5. SnapshotsOK' /\ DriversAskAsDrivers' /\ IntentsPermitted'
      BY <3>1 DEF EditInv, AskInv, SnapshotsOK, DriversAskAsDrivers, DriverRequest,
                  IntentsPermitted, Permitted, Authorised, Releases, Repairs
    <3>3. DigestsMatch' /\ NotesFit' /\ Reading'
      BY <3>1 DEF EditInv, DigestsMatch, NotesFit, Reading
    <3>4. BooksInv'
      BY <3>1 DEF EditInv, BooksInv, InHand, Dispatched
    <3> QED BY <3>1, <3>2, <3>3, <3>4, <3>5 DEF EditInv, AskInv
  <2> QED BY <2>1, <2>2, <2>3 DEF EditNext
<1> QED BY <1>1, <1>2, PTL DEF EditSpec

\* What a writer outside the journal changed is not explained by the audit of
\* an iteration (audit_context), not even after transitions that start from
\* the edited value and not after recovery has closed what the edit met open.
THEOREM EditsAreSurfaced == EditSpec => []EditsSurface
<1>1. EditInv => EditsSurface
  <2> SUFFICES ASSUME EditInv, NEW d \in Drivers, Dispatched(d),
                      AuditResult(log, ctx[d], files) = "explained", NEW x \in Frozen
               PROVE  shadow[d][x] = OwnedState(files[x])
    BY DEF EditsSurface
  <2> DEFINE c == ctx[d]
             R == Replayed(log, c)
  <2>1. JournalOK(log) /\ Books(log, c, files, shadow[d])
    BY DEF EditInv, AskInv, LockInv, TypeOK, BooksInv
  <2>2. Len(log) \in Nat /\ DOMAIN log = 1 .. Len(log)
    BY <2>1, JournalIsSeq
  <2>3. /\ FrozenIn(c, log) /\ c.cursor \in Nat
        /\ IsSnapshot(c.snap, Frozen) /\ DOMAIN c.snap = Frozen
    BY <2>1 DEF Books, FrozenIn, IsSnapshot
  <2>4. Unclosed(log, c) = {} /\ ~StartsUnexplained(log, c) /\ Matches(files[x], R[x])
    BY <2>3 DEF AuditResult, Replayed
  <2>5. IsSnapshot(R, Frozen)
    BY <2>3, ReplayedIsSnapshot
  <2>6. Accounted(log, c, files, shadow[d], x)
    BY <2>1, <2>4 DEF Books
  <2> HIDE DEF R, c
  <2>7. Pending(log, x) = {}
    <3> SUFFICES ASSUME NEW i \in Pending(log, x) PROVE FALSE
      OBVIOUS
    <3>1. i > c.cursor /\ i \in 1 .. Len(log) /\ IsIntent(log[i])
          /\ ~ \E j \in DOMAIN log : Completes(log, i, j)
      BY <2>2, <2>6 DEF Accounted, Pending
    <3>2. i \in (c.cursor + 1) .. Len(log)
      BY <2>2, <2>3, <3>1
    <3> QED BY <2>4, <3>1, <3>2 DEF Unclosed
  <2>8. shadow[d][x] = R[x]
    BY <2>6, <2>7 DEF Accounted, R
  <2>9. OwnedState(files[x]) = R[x]
    <3>1. DOMAIN R[x] = OwnedFields /\ R[x] = [k \in OwnedFields |-> R[x][k]]
      BY <2>5 DEF IsSnapshot
    <3>2. \A k \in OwnedFields : files[x][k] = R[x][k]
      BY <2>4, <3>1 DEF Matches
    <3>3. OwnedState(files[x]) = [k \in OwnedFields |-> R[x][k]]
      BY <3>2 DEF OwnedState
    <3> QED BY <3>1, <3>3
  <2> QED BY <2>8, <2>9
<1> QED BY <1>1, EditsInductive, PTL

\* A hold written with an editor, at any moment, binds every client that reads
\* it: no driver's transition and no restore of a snapshot (master_snapshot.py)
\* changes more than the status of what a human holds.
THEOREM EditedHoldsAreRespected == EditSpec => EditedHoldsStand
<1> DEFINE Stands(p) ==
      LET x == req[p].path
          old == files[x]
          new == files'[x]
          replacesWhatItRead == /\ pc[p] = "intended" /\ pc'[p] = "replaced"
                                /\ old = log[mine[p]].before
      IN  replacesWhatItRead /\ old.hold = "human" =>
            \/ OwnedState(new) = OwnedState(old)
            \/ p \in Humans
            \/ /\ req[p].actor = "integrity-repair"
               /\ OwnedState(new) = [OwnedState(old) EXCEPT !.status = new.status]
<1> DEFINE Stand == \A p \in Procs : Stands(p)
<1>1. EditInv /\ [EditNext]_editVars => [Stand]_editVars
  <2> SUFFICES ASSUME EditInv, [EditNext]_editVars, NEW p \in Procs PROVE Stands(p)
    OBVIOUS
  <2> DEFINE r == req[p]
             old == files[r.path]
             new == files'[r.path]
  <2> SUFFICES ASSUME pc[p] = "intended", pc'[p] = "replaced", old = log[mine[p]].before,
                      old.hold = "human"
               PROVE  \/ OwnedState(new) = OwnedState(old)
                      \/ p \in Humans
                      \/ /\ r.actor = "integrity-repair"
                         /\ OwnedState(new) = [OwnedState(old) EXCEPT !.status = new.status]
    OBVIOUS
  <2>1. /\ LockInv /\ DriversAskAsDrivers /\ IntentsPermitted
        /\ DOMAIN pc = Procs /\ files \in [Paths -> Contents]
    BY DEF EditInv, AskInv, LockInv, TypeOK
  <2>2. [Next]_vars
    <3>1. ASSUME NEW x \in Frozen, RawEdit(x) PROVE FALSE
      BY <3>1 DEF RawEdit
    <3> QED BY <3>1 DEF EditNext, editVars
  <2>3. Replace(p)
    BY <2>1, <2>2, WritingStands DEF WriteIntent, AtTarget
  <2>4. r.op # "freeze" /\ r.path \in Paths /\ log[mine[p]] = Intent(r, old, mine[p])
    BY <2>1 DEF LockInv, RequestsOK, RequestOK, IntentIsLast
  <2>5. new = NewContent(r, old)
    <3>1. log[mine[p]].after = NewContent(r, old)
      BY <2>4 DEF Intent
    <3> QED BY <2>1, <2>3, <2>4, <3>1 DEF Replace
  <2>6. Permitted(r, old)
    BY <2>1 DEF IntentsPermitted
  <2>7. CASE p \in Drivers
    <3>1. DriverRequest(r, ctx[p])
      BY <2>1, <2>7 DEF DriversAskAsDrivers
    <3>2. old \in Contents
      BY <2>1, <2>4
    <3>3. old.hold = "human" /\ r.op # "freeze"
      BY <2>4
    <3>4. LET after == NewContent(r, old) IN
          \/ OwnedState(after) = OwnedState(old)
          \/ /\ r.actor = "integrity-repair"
             /\ OwnedState(after) = [OwnedState(old) EXCEPT !.status = after.status]
      <4> HIDE DEF r, old, new
      <4> QED BY <2>6, <3>1, <3>2, <3>3, HeldIsKept
    <3> QED BY <2>5, <3>4
  <2> QED BY <2>7 DEF Procs
<1> HIDE DEF Stands
<1>2. [][Stand]_editVars => EditedHoldsStand
  BY DEF Stands, EditedHoldsStand
<1> HIDE DEF Stand
<1> QED BY <1>1, <1>2, EditsInductive, PTL DEF EditSpec
=============================================================================

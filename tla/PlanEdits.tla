----------------------------- MODULE PlanEdits -----------------------------
(***************************************************************************)
(* PlanState beside a writer that does not use the journal: an operator's  *)
(* text editor, or a worker that writes a plan file ("Unmigrated writers   *)
(* still exist", plan_state.py).  audit_context must not explain what such *)
(* a writer changed.                                                       *)
(***************************************************************************)
EXTENDS PlanState

CONSTANT MaxRawEdits

ASSUME MaxRawEditsAssumption == MaxRawEdits \in Nat

VARIABLES rawEdits, \* how many raw writes happened
          shadow    \* per driver, the owned states its context and the
                    \* transitions since it account for

editVars == <<vars, rawEdits, shadow>>

Tainted == [status |-> "tainted"]

EditInit == Init /\ rawEdits = 0 /\ shadow = [d \in Drivers |-> Nothing]

\* A saved edit of one field; it leaves bytes no transition would produce.
RawEdit(x) ==
  /\ rawEdits < MaxRawEdits
  /\ rawEdits' = rawEdits + 1
  /\ LET c == files[x] IN
     \E edited \in {[c EXCEPT !.current_step = n] : n \in 0 .. Steps}
               \cup {[c EXCEPT !.status = v] : v \in {"queued", "in-progress", "shipped", "blocked"}}
               \cup {[c EXCEPT !.hold = v] : v \in Holds} :
       files' = [files EXCEPT ![x] = [edited EXCEPT !.notes = @ + 1]]
  /\ UNCHANGED <<log, holder, pc, req, todo, mine, resets, ctx, took, asks, crashes, shadow>>

\* The shadow of a plan after a client replaced it.
After(known, r) ==
  IF known # Tainted /\ Matches(known, r.from) THEN Project(known, r.to) ELSE Tainted

\* A transition accounts for its change only when it starts from a state that
\* is itself accounted for.
Account ==
  shadow' = [d \in Drivers |->
    IF ctx'[d] # ctx[d] THEN ctx'[d].snap
    ELSE IF ctx[d] = NoCtx THEN Nothing
    ELSE [x \in Frozen |->
            IF \E p \in Procs : pc[p] = "intended" /\ pc'[p] = "replaced" /\ req[p].path = x
            THEN After(shadow[d][x],
                       req[CHOOSE p \in Procs : pc[p] = "intended" /\ pc'[p] = "replaced"])
            ELSE shadow[d][x]]]

EditNext ==
  \/ Next /\ Account /\ UNCHANGED rawEdits
  \/ \E x \in Frozen : RawEdit(x)

EditSpec == EditInit /\ [][EditNext]_editVars

\* audit_context explains nothing but transitions: a plan in a state that the
\* frozen snapshot and later transitions do not lead to is never "explained",
\* not even after a transition that starts from the edited value.
EditsSurface ==
  holder = Nobody =>
    \A d \in Drivers :
      Dispatched(d) /\ (\E x \in Frozen : shadow[d][x] # OwnedState(files[x]))
        => AuditResult(log, ctx[d], files) # "explained"

\* A hold written with an editor binds like a park: a client that replaces the
\* bytes it read changes no owned field under a human hold, unless it acts for
\* a human or puts back a status a worker changed.  So a restore, which writes
\* what a snapshot had before the hold, does not erase it.
EditedHoldsStand ==
  [][\A p \in Procs :
       LET x == req[p].path
           old == files[x]
           new == files'[x]
           replacesWhatItRead == /\ pc[p] = "intended" /\ pc'[p] = "replaced"
                                 /\ old = log[mine[p]].before
       IN  replacesWhatItRead /\ old.hold = "human" =>
             \/ OwnedState(new) = OwnedState(old)
             \/ p \in Humans
             \/ /\ req[p].actor = "integrity-repair"
                /\ OwnedState(new) = [OwnedState(old) EXCEPT !.status = new.status]]_editVars
=============================================================================

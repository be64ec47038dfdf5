---------------------------- MODULE Fleet_proofs ----------------------------
(***************************************************************************)
(* Proofs about MasterQueue and Fleet for any number of masters, promoters *)
(* and keepers and every bound.                                            *)
(*                                                                         *)
(* Of the queue: a command not overtaken has read a master that is still   *)
(* as it was, and a promotion not overtaken still has the queue it was     *)
(* decided for, or has been done by another that read the same queue.      *)
(*                                                                         *)
(* Of the fleet: the file's count runs ahead of the barren runs, and of    *)
(* the launch the scheduler is about to make or has made and not yet seen. *)
(***************************************************************************)
EXTENDS Fleet, WellFoundedInduction, TLAPS

OrdersNameMasters ==
  \A k \in Keepers : order[k] # NoOrder => order[k].master \in Masters /\ order[k].command # "none"

\* A plain unpark that nothing overtook is of a master that no person holds.
UnparkOfUnheld ==
  \A k \in Keepers : order[k].command = "unpark" /\ ~order[k].stale /\ order[k].master \in Masters
                       => ~HumanHeld(order[k].master)

\* Nothing is marked shipped before all its sub-plans are.
ShippedIsDone == \A m \in Masters : status[m] = "shipped" => work[m] = "done"

\* What a promotion that nothing overtook may still rely on.
PicksHold ==
  \A p \in Promoters : ~pick[p].stale =>
    /\ pick[p].demote # NoMaster => work[pick[p].demote] = "stuck"
    /\ pick[p].promote # NoMaster /\ status[pick[p].promote] = "queued"
         => Healthy = {} /\ pick[p].promote = First(Ready)

QueueInv == QueueTypeOK /\ OrdersNameMasters /\ UnparkOfUnheld /\ ShippedIsDone /\ PicksHold

-----------------------------------------------------------------------------
Pending == run.at = "launching" /\ run.by = "scheduler"

\* The records keep their fields.
Shapes ==
  /\ run = [at |-> run.at, by |-> run.by, master |-> run.master]
  /\ counter = [count |-> counter.count, seen |-> counter.seen, ack |-> counter.ack]
  /\ sched = [at |-> sched.at, black |-> sched.black, active |-> sched.active, next |-> sched.next]
  /\ counter.count \in 0 .. Threshold /\ barren \in Nat

\* Between a screen that found no run and its launch, no launch is under way.
NoneUnderWay == Pending => sched.at \notin {"read", "write", "decide", "promote", "launch"}

CountIsAhead ==
  /\ barren <= counter.count + 1 /\ barren <= Threshold
  /\ Pending => barren <= counter.count /\ barren < Threshold
  /\ sched.at \in {"decide", "promote", "launch"} => barren <= counter.count /\ counter.count < Threshold

\* What a pass is about to write: the count, whether to go on, and whether
\* something spoke for another launch.
VerdictIsSound ==
  sched.at = "write" =>
    LET n == sched.next[1]
    IN /\ n \in 0 .. Threshold /\ sched.next[3] \in BOOLEAN /\ sched.next[4] \in BOOLEAN
       /\ sched.next[3] => n < Threshold
       /\ sched.next[4] => n = 0
       /\ ~sched.next[4] => barren <= n + 1
       /\ sched.next[3] /\ ~sched.next[4] => barren <= n

FleetInv == Shapes /\ NoneUnderWay /\ CountIsAhead /\ VerdictIsSound

-----------------------------------------------------------------------------
(* The queue *)

\* The first of a set of masters is one of them.
LEMMA FirstIsMember ==
  ASSUME NEW S \in SUBSET Masters
  PROVE  /\ First(S) \in Masters \cup {NoMaster}
         /\ First(S) # NoMaster => First(S) \in S
<1>1. CASE S = {}
  BY <1>1 DEF First
<1>2. CASE S # {}
  <2>1. S \subseteq Nat /\ NoMaster \notin S
    BY QueueAssumption DEF Masters, NoMaster
  <2> DEFINE Less == {ss \in Nat \X Nat : ss[1] < ss[2]}
  <2>2. IsWellFoundedOn(Less, Nat)
    BY NatLessThanWellFounded DEF OpToRel
  <2>3. PICK x \in S : \A y \in S : ~ (<<y, x>> \in Less)
    <3> HIDE DEF Less
    <3> QED BY <1>2, <2>1, <2>2, WFMin
  <2>4. \A y \in S : x =< y
    <3> TAKE y \in S
    <3>1. x \in Nat /\ y \in Nat
      BY <2>1
    <3>2. y < x => <<y, x>> \in Less
      BY <3>1
    <3> QED BY <2>3, <3>1, <3>2
  <2>5. Min(S) \in S
    BY <2>4 DEF Min
  <2> QED BY <1>2, <2>1, <2>5 DEF First
<1> QED BY <1>1, <1>2

LEMMA DecisionIsSound ==
  ASSUME QueueTypeOK
  PROVE  /\ Decision \in Picks /\ ~Decision.stale
         /\ Decision.demote # NoMaster => work[Decision.demote] = "stuck"
         /\ Decision.promote # NoMaster => Healthy = {} /\ Decision.promote = First(Ready)
<1>1. Stalled \in SUBSET Masters /\ Ready \in SUBSET Masters
  BY DEF Stalled, Ready, ActiveOnes
<1>2. First(Stalled) \in Masters \cup {NoMaster} /\ First(Ready) \in Masters \cup {NoMaster}
  BY <1>1, FirstIsMember
<1>3. First(Stalled) # NoMaster => First(Stalled) \in Stalled
  BY <1>1, FirstIsMember
<1> QED BY <1>2, <1>3 DEF Decision, NoPick, Picks, Stalled

LEMMA MarkedIsStale ==
  ASSUME QueueTypeOK, NEW p \in Promoters
  PROVE  /\ Marked(p) \in Picks
         /\ ~Marked(p).stale => Marked(p) = NoPick
BY DEF QueueTypeOK, Marked, Picks, NoPick

LEMMA OvertakenIsStale ==
  ASSUME QueueTypeOK
  PROVE  /\ Overtaken \in [Promoters -> Picks]
         /\ \A p \in Promoters : ~Overtaken[p].stale => Overtaken[p] = NoPick
BY MarkedIsStale DEF Overtaken

LEMMA RestIsSound ==
  ASSUME QueueTypeOK, NEW p \in Promoters
  PROVE  /\ Rest(p) \in Picks
         /\ Rest(p) = NoPick \/ /\ Rest(p).demote = NoMaster
                                /\ Rest(p).promote = pick[p].promote
                                /\ Rest(p).stale = pick[p].stale
BY DEF QueueTypeOK, Rest, Picks, NoPick

LEMMA QueueStarts == QueueInit(MasterCount) => QueueInv
<1> SUFFICES ASSUME QueueInit(MasterCount) PROVE QueueInv
  OBVIOUS
<1>1. QueueTypeOK
  BY DEF QueueInit, QueueTypeOK, Statuses, Works, Picks, Orders, Commands, NoPick, NoOrder
<1>2. OrdersNameMasters /\ UnparkOfUnheld
  BY DEF QueueInit, OrdersNameMasters, UnparkOfUnheld, NoOrder
<1>3. ShippedIsDone
  BY DEF QueueInit, ShippedIsDone
<1>4. PicksHold
  BY DEF QueueInit, PicksHold, NoPick
<1> QED BY <1>1, <1>2, <1>3, <1>4 DEF QueueInv

LEMMA DecideKeeps ==
  ASSUME QueueInv, NEW p \in Promoters, Decide(p)
  PROVE  QueueInv'
<1>1. QueueTypeOK /\ DOMAIN pick = Promoters
  BY DEF QueueInv, QueueTypeOK
<1> DEFINE d == IF Held THEN NoPick ELSE Decision
<1>2. /\ d \in Picks
      /\ d.demote # NoMaster => work[d.demote] = "stuck"
      /\ d.promote # NoMaster => Healthy = {} /\ d.promote = First(Ready)
  BY <1>1, DecisionIsSound DEF NoPick, Picks
<1>3. pick' = [pick EXCEPT ![p] = d] /\ UNCHANGED <<status, hold, work, order, commands>>
  BY DEF Decide
<1>4. UNCHANGED <<Healthy, Ready>>
  BY <1>3 DEF Healthy, Ready, ActiveOnes
<1> HIDE DEF d
<1>5. QueueTypeOK'
  BY <1>1, <1>2, <1>3 DEF QueueTypeOK
<1>6. OrdersNameMasters' /\ UnparkOfUnheld' /\ ShippedIsDone'
  BY <1>3 DEF QueueInv, OrdersNameMasters, UnparkOfUnheld, ShippedIsDone, HumanHeld
<1>7. PicksHold'
  <2> SUFFICES ASSUME NEW q \in Promoters, ~pick'[q].stale
               PROVE  /\ pick'[q].demote # NoMaster => work'[pick'[q].demote] = "stuck"
                      /\ pick'[q].promote # NoMaster /\ status'[pick'[q].promote] = "queued"
                           => Healthy' = {} /\ pick'[q].promote = First(Ready')
    BY DEF PicksHold, First
  <2>1. CASE q = p
    BY <1>1, <1>2, <1>3, <1>4, <2>1
  <2>2. CASE q # p
    BY <1>1, <1>3, <1>4, <2>2 DEF QueueInv, PicksHold
  <2> QED BY <2>1, <2>2
<1> QED BY <1>5, <1>6, <1>7 DEF QueueInv

\* A promotion's write leaves the queue as the other promotions that read it
\* expect, or marks them.
LEMMA ShiftKeeps ==
  ASSUME QueueInv, NEW p \in Promoters, NEW m, NEW to,
         Shift(p, m, to),
         \/ to = "blocked" /\ m = pick[p].demote
         \/ to = "active" /\ m = pick[p].promote /\ pick[p].demote = NoMaster
  PROVE  QueueInv'
<1>1. /\ QueueTypeOK /\ DOMAIN pick = Promoters /\ DOMAIN status = Masters
      /\ m \in Masters /\ pick[p] \in Picks
  BY DEF QueueInv, QueueTypeOK, Shift, Picks
<1>2. UNCHANGED <<hold, work, order, commands>>
  BY DEF Shift
<1>3. OrdersNameMasters' /\ UnparkOfUnheld'
  BY <1>2 DEF QueueInv, OrdersNameMasters, UnparkOfUnheld, HumanHeld
<1>4. CASE ~(status[m] = to \/ DriverMay(m))
  <2>1. status' = status /\ pick' = [pick EXCEPT ![p] = NoPick]
    BY <1>4 DEF Shift
  <2>2. NoPick \in Picks
    BY DEF NoPick, Picks
  <2>3. QueueTypeOK'
    BY <1>1, <1>2, <2>1, <2>2 DEF QueueTypeOK
  <2>4. UNCHANGED <<Healthy, Ready>>
    BY <1>2, <2>1 DEF Healthy, Ready, ActiveOnes
  <2>5. PicksHold'
    BY <1>1, <1>2, <2>1, <2>4 DEF QueueInv, PicksHold, NoPick, First
  <2> QED BY <1>2, <1>3, <2>1, <2>3, <2>5 DEF QueueInv, ShippedIsDone
<1>5. CASE status[m] = to \/ DriverMay(m)
  <2>1. /\ status' = [status EXCEPT ![m] = to]
        /\ pick' = [o \in Promoters |-> IF o = p THEN Rest(p)
                                       ELSE IF pick[p].stale THEN Marked(o) ELSE pick[o]]
    BY <1>5 DEF Shift
  <2>2. QueueTypeOK'
    <3>1. status' \in [Masters -> Statuses]
      BY <1>1, <2>1 DEF QueueTypeOK, Statuses
    <3>2. pick' \in [Promoters -> Picks]
      BY <1>1, <2>1, RestIsSound, MarkedIsStale DEF QueueTypeOK
    <3> QED BY <1>1, <1>2, <3>1, <3>2 DEF QueueTypeOK
  <2>3. ShippedIsDone'
    BY <1>1, <1>2, <2>1 DEF QueueInv, ShippedIsDone
  <2>4. CASE pick[p].stale
    <3>1. \A q \in Promoters : ~pick'[q].stale => pick'[q] = NoPick
      BY <1>1, <2>1, <2>4, RestIsSound, MarkedIsStale
    <3>2. PicksHold'
      BY <3>1 DEF PicksHold, NoPick
    <3> QED BY <1>3, <2>2, <2>3, <3>2 DEF QueueInv
  <2>5. CASE ~pick[p].stale
    <3> SUFFICES PicksHold'
      BY <1>3, <2>2, <2>3 DEF QueueInv
    <3>1. /\ pick[p].demote # NoMaster => work[pick[p].demote] = "stuck"
          /\ pick[p].promote # NoMaster /\ status[pick[p].promote] = "queued"
               => Healthy = {} /\ pick[p].promote = First(Ready)
      BY <2>5 DEF QueueInv, PicksHold
    <3>2. \A x \in Masters : x # m => status'[x] = status[x]
      BY <1>1, <2>1
    <3>3. status'[m] = to
      BY <1>1, <2>1
    <3>4. m # NoMaster
      BY DEF Shift
    <3> SUFFICES ASSUME NEW q \in Promoters, ~pick'[q].stale
                 PROVE  /\ pick'[q].demote # NoMaster => work'[pick'[q].demote] = "stuck"
                        /\ pick'[q].promote # NoMaster /\ status'[pick'[q].promote] = "queued"
                             => Healthy' = {} /\ pick'[q].promote = First(Ready')
      BY DEF PicksHold, First
    <3> DEFINE x == pick'[q].promote
    \* What q has left is what it decided, or nothing.
    <3>5. \/ pick'[q] = NoPick
          \/ /\ ~pick[q].stale /\ x = pick[q].promote /\ x \in Masters \cup {NoMaster}
             /\ pick'[q].demote \in {NoMaster, pick[q].demote}
      <4>1. pick[q] \in Picks
        BY <1>1 DEF QueueTypeOK
      <4>2. CASE q = p
        BY <1>1, <2>1, <2>5, <4>1, <4>2, RestIsSound DEF Picks
      <4>3. CASE q # p
        BY <2>1, <2>5, <4>1, <4>3 DEF Picks
      <4> QED BY <4>2, <4>3
    <3>6. CASE pick'[q] = NoPick
      BY <3>6 DEF NoPick
    <3>7. CASE pick'[q] # NoPick
      <4>1. /\ pick[q].demote # NoMaster => work[pick[q].demote] = "stuck"
            /\ x # NoMaster /\ status[x] = "queued" => Healthy = {} /\ x = First(Ready)
        BY <3>5, <3>7 DEF QueueInv, PicksHold
      <4>2. pick'[q].demote # NoMaster => work'[pick'[q].demote] = "stuck"
        BY <1>2, <3>5, <3>7, <4>1
      <4>3. ASSUME x # NoMaster, status'[x] = "queued"
            PROVE  Healthy' = {} /\ x = First(Ready')
        <5>1. x \in Masters /\ x # m /\ status[x] = "queued"
          BY <1>1, <3>2, <3>3, <3>5, <3>7, <4>3
        <5>2. Healthy = {} /\ x = First(Ready)
          BY <4>1, <4>3, <5>1
        <5>3. Ready \subseteq Masters
          BY DEF Ready
        <5>4. CASE to = "blocked"
          <6>1. work[m] = "stuck"
            BY <3>1, <3>4, <5>4
          <6>2. Healthy' = Healthy /\ Ready' = Ready
            BY <1>1, <1>2, <3>2, <3>3, <5>4, <6>1 DEF Healthy, Ready, ActiveOnes
          <6> QED BY <5>2, <6>2
        <5>5. CASE to = "active"
          <6>1. status[m] # "queued"
            BY <3>1, <3>4, <5>1, <5>2, <5>5
          <6>2. ~(status[m] # "active" /\ work[m] = "runnable")
            <7>1. status[m] # "blocked"
              BY <1>5, <5>5 DEF DriverMay
            <7>2. status[m] = "shipped" => work[m] = "done"
              BY <1>1 DEF QueueInv, ShippedIsDone
            <7> QED BY <1>1, <6>1, <7>1, <7>2 DEF QueueTypeOK, Statuses
          <6>3. Healthy' = Healthy /\ Ready' = Ready
            BY <1>1, <1>2, <3>2, <3>3, <5>5, <6>1, <6>2 DEF Healthy, Ready, ActiveOnes
          <6> QED BY <5>2, <6>3
        <5> QED BY <5>4, <5>5
      <4> QED BY <4>2, <4>3
    <3> QED BY <3>6, <3>7
  <2> QED BY <2>4, <2>5
<1> QED BY <1>4, <1>5

LEMMA ReadKeeps ==
  ASSUME QueueInv, NEW k \in Keepers, NEW c \in Commands \ {"none"}, NEW m \in Masters,
         ReadMasters(k, c, m)
  PROVE  QueueInv'
<1> DEFINE o == [command |-> c, master |-> m, stale |-> FALSE]
<1>1. /\ order' = [order EXCEPT ![k] = o]
      /\ UNCHANGED <<status, hold, work, pick>> /\ Accepts(c, m)
  BY DEF ReadMasters
<1>2. o \in Orders
  BY DEF Orders
<1>3. QueueTypeOK'
  BY <1>1, <1>2 DEF QueueInv, QueueTypeOK
<1>4. \A j \in Keepers : order'[j] = IF j = k THEN o ELSE order[j]
  BY <1>1 DEF QueueInv, QueueTypeOK
<1>5. OrdersNameMasters'
  BY <1>4 DEF QueueInv, OrdersNameMasters
<1>6. c = "unpark" => ~HumanHeld(m)
  BY <1>1 DEF Accepts
<1>7. UnparkOfUnheld'
  BY <1>1, <1>4, <1>6 DEF QueueInv, UnparkOfUnheld, HumanHeld
<1>8. ShippedIsDone' /\ PicksHold'
  BY <1>1 DEF QueueInv, ShippedIsDone, PicksHold, Healthy, Ready, ActiveOnes, First
<1> QED BY <1>3, <1>5, <1>7, <1>8 DEF QueueInv

LEMMA ChangeParkKeeps ==
  ASSUME QueueInv, NEW k \in Keepers, ChangePark(k)
  PROVE  QueueInv'
<1> DEFINE m == order[k].master
           c == order[k].command
<1>1. /\ QueueTypeOK /\ m \in Masters /\ c \in Commands \ {"none"}
  BY DEF QueueInv, QueueTypeOK, OrdersNameMasters, ChangePark, Orders
<1>2. /\ order' = [j \in Keepers |-> IF j = k THEN NoOrder
                                    ELSE [order[j] EXCEPT !.stale = order[j].stale \/ order[j].master = m]]
      /\ Change(c, m) /\ UNCHANGED work
  BY DEF ChangePark
<1>3. \A j \in Keepers :
        \/ order'[j] = NoOrder
        \/ /\ order'[j].command = order[j].command /\ order'[j].master = order[j].master
           /\ ~order'[j].stale => ~order[j].stale /\ order[j].master # m
           /\ order'[j] \in Orders /\ order[j] # NoOrder
  <2> TAKE j \in Keepers
  <2>1. order[j] \in Orders
    BY <1>1 DEF QueueTypeOK
  <2>2. NoOrder.master = NoMaster /\ NoMaster # m
    BY <1>1, QueueAssumption DEF NoOrder, NoMaster, Masters
  <2>3. CASE j = k
    BY <1>2, <2>3
  <2>4. CASE j # k /\ order[j] # NoOrder
    BY <1>2, <2>1, <2>4 DEF Orders
  <2>5. CASE j # k /\ order[j] = NoOrder
    <3>1. order'[j] = [NoOrder EXCEPT !.stale = NoOrder.stale \/ NoOrder.master = m]
      BY <1>2, <2>5
    <3>2. (NoOrder.stale \/ NoOrder.master = m) = FALSE
      BY <2>2 DEF NoOrder
    <3>3. order'[j] = [NoOrder EXCEPT !.stale = FALSE]
      BY <3>1, <3>2
    <3> QED BY <3>3 DEF NoOrder
  <2> QED BY <2>3, <2>4, <2>5
<1>4. order' \in [Keepers -> Orders]
  <2>1. NoOrder \in Orders
    BY DEF NoOrder, Orders, Commands
  <2>2. DOMAIN order' = Keepers /\ \A j \in Keepers : order'[j] \in Orders
    BY <1>2, <1>3, <2>1
  <2> QED BY <1>2, <2>2
<1>5. OrdersNameMasters'
  BY <1>3 DEF QueueInv, OrdersNameMasters, NoOrder
<1> HIDE DEF m, c
<1>6. CASE UNCHANGED <<status, hold, pick>>
  <2>1. QueueTypeOK'
    BY <1>1, <1>2, <1>4, <1>6 DEF QueueTypeOK
  <2>2. UnparkOfUnheld'
    BY <1>3, <1>6 DEF QueueInv, UnparkOfUnheld, HumanHeld, NoOrder
  <2>3. ShippedIsDone' /\ PicksHold'
    BY <1>2, <1>6 DEF QueueInv, ShippedIsDone, PicksHold, Healthy, Ready, ActiveOnes, First
  <2> QED BY <1>5, <2>1, <2>2, <2>3 DEF QueueInv
<1>7. CASE ~ UNCHANGED <<status, hold, pick>>
  <2> DEFINE s == IF c \in {"unpark", "release"} THEN "queued" ELSE "blocked"
             h == CASE c = "park" -> "project"
                    [] c = "yield" -> "yield"
                    [] c = "auto" -> hold[m]
                    [] OTHER -> "none"
  <2>1. /\ status' = [status EXCEPT ![m] = s]
        /\ hold' = [hold EXCEPT ![m] = h]
        /\ pick' = Overtaken
    BY <1>2, <1>7 DEF Change
  <2>2. s \in {"queued", "blocked"} /\ h \in {"none", "project", "yield"}
    BY <1>1 DEF QueueTypeOK
  <2> HIDE DEF s, h
  <2>3. QueueTypeOK'
    BY <1>1, <1>2, <1>4, <2>1, <2>2, OvertakenIsStale DEF QueueTypeOK, Statuses
  <2>4. \A x \in Masters : x # m => hold'[x] = hold[x]
    BY <1>1, <2>1 DEF QueueTypeOK
  <2>5. UnparkOfUnheld'
    <3> SUFFICES ASSUME NEW j \in Keepers, order'[j].command = "unpark", ~order'[j].stale,
                        order'[j].master \in Masters
                 PROVE  hold'[order'[j].master] = "none"
      BY DEF UnparkOfUnheld, HumanHeld
    <3>1. order'[j] # NoOrder
      BY DEF NoOrder
    <3>2. /\ order[j].command = "unpark" /\ ~order[j].stale /\ order[j].master # m
          /\ order'[j].master = order[j].master
      BY <1>3, <3>1
    <3> QED BY <2>4, <3>2 DEF QueueInv, UnparkOfUnheld, HumanHeld
  <2>6. ShippedIsDone'
    BY <1>1, <1>2, <2>1, <2>2 DEF QueueInv, QueueTypeOK, ShippedIsDone
  <2>7. PicksHold'
    BY <1>1, <2>1, OvertakenIsStale DEF PicksHold, NoPick
  <2> QED BY <1>5, <2>3, <2>5, <2>6, <2>7 DEF QueueInv
<1> QED BY <1>6, <1>7

LEMMA ScanKeeps ==
  ASSUME QueueInv, Scan
  PROVE  QueueInv'
<1>1. status' = Reconciled /\ UNCHANGED <<hold, work, pick, order, commands>>
  BY DEF Scan
<1>2. \A m \in Masters : work[m] # "done" => Reconciled[m] = status[m]
  BY DEF Reconciled, QueueInv, ShippedIsDone, QueueTypeOK
<1>3. Reconciled \in [Masters -> Statuses]
  BY DEF Reconciled, QueueInv, QueueTypeOK, Statuses
<1>4. Healthy' = Healthy /\ Ready' = Ready
  BY <1>1, <1>2 DEF Healthy, Ready, ActiveOnes
<1>5. \A m \in Masters : Reconciled[m] = "queued" => status[m] = "queued"
  BY DEF Reconciled, QueueInv, QueueTypeOK
<1>6. ShippedIsDone'
  BY <1>1, <1>2 DEF QueueInv, ShippedIsDone
<1>7. PicksHold'
  <2>1. \A p \in Promoters : pick[p].promote # NoMaster => pick[p].promote \in Masters
    BY DEF QueueInv, QueueTypeOK, Picks
  <2> QED BY <1>1, <1>4, <1>5, <2>1 DEF QueueInv, PicksHold, First
<1>8. QueueTypeOK' /\ OrdersNameMasters' /\ UnparkOfUnheld'
  BY <1>1, <1>3 DEF QueueInv, QueueTypeOK, OrdersNameMasters, UnparkOfUnheld, HumanHeld
<1> QED BY <1>6, <1>7, <1>8 DEF QueueInv

LEMMA RepairKeeps ==
  ASSUME QueueInv, NEW m \in Masters, Repair(m)
  PROVE  QueueInv'
<1>1. /\ work' = [work EXCEPT ![m] = "runnable"] /\ work[m] = "stuck"
      /\ pick' = Overtaken /\ UNCHANGED <<status, hold, order>>
  BY DEF Repair
<1>2. QueueTypeOK'
  BY <1>1, OvertakenIsStale DEF QueueInv, QueueTypeOK, Works
<1>3. OrdersNameMasters' /\ UnparkOfUnheld'
  BY <1>1 DEF QueueInv, OrdersNameMasters, UnparkOfUnheld, HumanHeld
<1>4. ShippedIsDone'
  BY <1>1 DEF QueueInv, QueueTypeOK, ShippedIsDone
<1>5. PicksHold'
  BY <1>1, OvertakenIsStale DEF QueueInv, PicksHold, NoPick
<1> QED BY <1>2, <1>3, <1>4, <1>5 DEF QueueInv

LEMMA WorkEndsKeeps ==
  ASSUME QueueInv, NEW m \in Masters, WorkEnds(m)
  PROVE  QueueInv'
<1>1. PICK w \in {"done", "stuck"} : work' = [work EXCEPT ![m] = w]
  BY DEF WorkEnds
<1>2. m \in Healthy /\ UNCHANGED <<status, hold, pick, order, commands>>
  BY DEF WorkEnds
<1>3. status[m] = "active" /\ work[m] = "runnable"
  BY <1>2 DEF Healthy, ActiveOnes
<1>4. \A x \in Masters : x # m => work'[x] = work[x]
  BY <1>1 DEF QueueInv, QueueTypeOK
<1>5. QueueTypeOK' /\ OrdersNameMasters' /\ UnparkOfUnheld'
  BY <1>1, <1>2 DEF QueueInv, QueueTypeOK, Works, OrdersNameMasters, UnparkOfUnheld, HumanHeld
<1>6. ShippedIsDone'
  BY <1>2, <1>3, <1>4 DEF QueueInv, ShippedIsDone
<1>7. PicksHold'
  <2>1. \A p \in Promoters : pick[p].demote # NoMaster => pick[p].demote \in Masters
    BY DEF QueueInv, QueueTypeOK, Picks
  <2> QED BY <1>2, <1>3, <1>4, <2>1 DEF QueueInv, PicksHold
<1> QED BY <1>5, <1>6, <1>7 DEF QueueInv

LEMMA QueueStutters ==
  ASSUME QueueInv, UNCHANGED queueVars
  PROVE  QueueInv'
BY DEF QueueInv, queueVars, QueueTypeOK, OrdersNameMasters, UnparkOfUnheld, HumanHeld,
       ShippedIsDone, PicksHold, Healthy, Ready, ActiveOnes, First

\* Every command and every promotion that nothing overtook acts on a queue as
\* it was read.
THEOREM QueueInductive == QueueSpec => []QueueInv
<1>1. QueueInv /\ [QueueNext]_queueVars => QueueInv'
  <2> SUFFICES ASSUME QueueInv, [QueueNext]_queueVars PROVE QueueInv'
    OBVIOUS
  <2>1. ASSUME NEW p \in Promoters, Decide(p) PROVE QueueInv'
    BY <2>1, DecideKeeps
  <2>2. ASSUME NEW p \in Promoters, Demote(p) PROVE QueueInv'
    BY <2>2, ShiftKeeps DEF Demote
  <2>3. ASSUME NEW p \in Promoters, Promote(p) PROVE QueueInv'
    BY <2>3, ShiftKeeps DEF Promote
  <2>4. CASE Keep
    BY <2>4, ChangeParkKeeps, ReadKeeps DEF Keep
  <2>5. CASE Scan
    BY <2>5, ScanKeeps
  <2>6. ASSUME NEW m \in Masters, Repair(m) \/ WorkEnds(m) PROVE QueueInv'
    BY <2>6, RepairKeeps, WorkEndsKeeps
  <2>7. CASE UNCHANGED queueVars
    BY <2>7, QueueStutters
  <2> QED BY <2>1, <2>2, <2>3, <2>4, <2>5, <2>6, <2>7 DEF QueueNext
<1>2. QueueSpec => QueueInv /\ [][QueueNext]_queueVars
  BY QueueStarts DEF QueueSpec
<1> QED BY <1>1, <1>2, PTL

LEMMA InvOnEveryStep == QueueSpec => [][QueueNext /\ QueueInv]_queueVars
<1>1. QueueSpec => [][QueueNext]_queueVars
  BY DEF QueueSpec
<1> QED BY <1>1, QueueInductive, PTL

\* Of what can change a hold at all: the commands of park_master.py.
LEMMA HoldsChangeByCommand ==
  ASSUME QueueNext, hold' # hold
  PROVE  \E k \in Keepers : ChangePark(k)
BY DEF QueueNext, Keep, Decide, Demote, Promote, Shift, ReadMasters, Scan, Repair, WorkEnds

\* A human's hold is lifted by a release, or by an unpark that read the master
\* before the hold was set (park_master.py checks rows it read earlier).
THEOREM HoldsAreLiftedKnowingly == QueueSpec => UnparkIsOlder
<1> DEFINE Lifted == \A m \in Masters : HumanHeld(m) /\ hold'[m] = "none" =>
       \E k \in Keepers : order[k].master = m /\ (order[k].command = "release" \/ order[k].stale)
<1>1. QueueNext /\ QueueInv => Lifted
  <2> SUFFICES ASSUME QueueNext, QueueInv, NEW m \in Masters, HumanHeld(m), hold'[m] = "none"
               PROVE  \E k \in Keepers : order[k].master = m /\ (order[k].command = "release" \/ order[k].stale)
    OBVIOUS
  <2>1. PICK k \in Keepers : ChangePark(k)
    BY HoldsChangeByCommand DEF HumanHeld
  <2> DEFINE c == order[k].command
             x == order[k].master
  <2>2. Change(c, x) /\ x \in Masters /\ c \in Commands \ {"none"}
    BY <2>1 DEF ChangePark, QueueInv, QueueTypeOK, OrdersNameMasters, Orders
  <2>3. x = m /\ c \notin {"park", "yield", "auto"}
    BY <2>2 DEF Change, HumanHeld, QueueInv, QueueTypeOK
  <2>4. c \in {"unpark", "release"}
    BY <2>2, <2>3 DEF Commands
  <2>5. order[k].stale \in BOOLEAN
    BY DEF QueueInv, QueueTypeOK, Orders
  <2>6. c = "unpark" => order[k].stale
    BY <2>2, <2>3, <2>5 DEF QueueInv, UnparkOfUnheld
  <2> QED BY <2>3, <2>4, <2>6
<1> HIDE DEF Lifted
<1>2. QueueSpec => [][Lifted]_queueVars
  BY <1>1, InvOnEveryStep, PTL
<1> QED BY <1>2 DEF UnparkIsOlder, Lifted

\* Of what makes a master active: a promotion of it, or a scan.
LEMMA ActivatedBy ==
  ASSUME QueueNext, QueueInv, NEW m \in Masters, status'[m] = "active", status[m] # "active"
  PROVE  Scan \/ \E p \in Promoters : Promote(p) /\ pick[p].promote = m /\ DriverMay(m)
<1>1. QueueTypeOK
  BY DEF QueueInv
<1>2. ASSUME NEW p \in Promoters, Demote(p) PROVE FALSE
  BY <1>1, <1>2 DEF Demote, Shift, QueueTypeOK, Picks
<1>3. ASSUME NEW p \in Promoters, Promote(p) PROVE pick[p].promote = m /\ DriverMay(m)
  BY <1>1, <1>3 DEF Promote, Shift, QueueTypeOK, Picks
<1>4. ASSUME NEW k \in Keepers, ChangePark(k) PROVE FALSE
  BY <1>1, <1>4 DEF ChangePark, Change, QueueTypeOK, Orders
<1>5. UNCHANGED status \/ Scan \/ (\E p \in Promoters : Demote(p) \/ Promote(p)) \/ \E k \in Keepers : ChangePark(k)
  BY DEF QueueNext, Keep, Decide, ReadMasters, Repair, WorkEnds
<1> QED BY <1>2, <1>3, <1>4, <1>5

\* Two promotions that read the same queue never make two masters with work
\* active, whatever the order of their writes (promote_next_master.py, main).
THEOREM PromotionsAgree == QueueSpec => OneActive
<1> DEFINE Agreed == \A m \in Masters : status'[m] = "active" /\ status[m] # "active" /\ work[m] # "done" =>
       Healthy \subseteq {m} \/ \E p \in Promoters : pick[p].stale
<1>1. QueueNext /\ QueueInv => Agreed
  <2> SUFFICES ASSUME QueueNext, QueueInv, NEW m \in Masters,
                      status'[m] = "active", status[m] # "active", work[m] # "done",
                      \A p \in Promoters : ~pick[p].stale
               PROVE  Healthy \subseteq {m}
    OBVIOUS
  <2>1. CASE Scan
    BY <2>1 DEF Scan, Reconciled, QueueInv, ShippedIsDone
  <2>2. ASSUME NEW p \in Promoters, pick[p].promote = m, DriverMay(m)
        PROVE  Healthy \subseteq {m}
    <3>1. m # NoMaster
      BY QueueAssumption DEF Masters, NoMaster
    <3>2. status[m] = "queued"
      BY <2>2 DEF DriverMay, QueueInv, QueueTypeOK, Statuses, ShippedIsDone
    <3> QED BY <2>2, <3>1, <3>2 DEF QueueInv, PicksHold
  <2> QED BY <2>1, <2>2, ActivatedBy
<1> HIDE DEF Agreed
<1>2. QueueSpec => [][Agreed]_queueVars
  BY <1>1, InvOnEveryStep, PTL
<1> QED BY <1>2 DEF OneActive, Agreed

-----------------------------------------------------------------------------
(* The launches of the scheduler *)

Hot == {"read", "write", "decide", "promote", "launch"}

LEMMA FleetStarts == Init => FleetInv
BY FleetAssumption DEF Init, FleetInv, Shapes, NoneUnderWay, CountIsAhead, VerdictIsSound, Pending,
     NoRun, Asleep

\* The run goes on, ends, or is begun by somebody else than the scheduler.
LEMMA RunMoves ==
  ASSUME FleetInv, UNCHANGED <<counter, sched>>,
         run' = [at |-> run'.at, by |-> run'.by, master |-> run'.master], ~Pending',
         barren' \in {0, barren} \/ (Pending /\ barren' = barren + 1)
  PROVE  FleetInv'
<1>1. Threshold \in Nat /\ counter.count \in Nat /\ barren \in Nat
  BY FleetAssumption DEF FleetInv, Shapes
<1>2. Shapes'
  BY <1>1 DEF FleetInv, Shapes
<1>3. NoneUnderWay'
  BY DEF NoneUnderWay
<1>4. CountIsAhead'
  BY <1>1 DEF FleetInv, CountIsAhead, NoneUnderWay
<1>5. VerdictIsSound'
  BY <1>1 DEF FleetInv, VerdictIsSound, NoneUnderWay
<1> QED BY <1>2, <1>3, <1>4, <1>5 DEF FleetInv

\* The pass is over, or has not yet got to the count.
LEMMA PassOver ==
  ASSUME FleetInv, UNCHANGED <<run, barren>>,
         counter' = [count |-> counter'.count, seen |-> counter'.seen, ack |-> counter'.ack],
         counter'.count = counter.count,
         sched' = [at |-> sched'.at, black |-> sched'.black, active |-> sched'.active, next |-> sched'.next],
         sched'.at \notin Hot \/ sched' = sched
  PROVE  FleetInv'
<1>1. Shapes'
  BY DEF FleetInv, Shapes
<1>2. NoneUnderWay' /\ CountIsAhead'
  BY DEF FleetInv, NoneUnderWay, CountIsAhead, Pending, Hot
<1>3. VerdictIsSound'
  BY DEF FleetInv, VerdictIsSound, Hot
<1> QED BY <1>1, <1>2, <1>3 DEF FleetInv

LEMMA WakeKeeps == FleetInv /\ Wake => FleetInv'
<1> SUFFICES ASSUME FleetInv, Wake PROVE FleetInv'
  OBVIOUS
<1>1. UNCHANGED <<run, barren>>
  BY DEF Wake
<1>2. \E a : counter' = [counter EXCEPT !.ack = a]
  BY DEF Wake
<1>3. /\ counter' = [count |-> counter'.count, seen |-> counter'.seen, ack |-> counter'.ack]
      /\ counter'.count = counter.count
  BY <1>2 DEF FleetInv, Shapes
<1>4. sched' = Asleep \/ \E b, a : sched' = [sched EXCEPT !.at = "screen", !.black = b, !.active = a]
  BY DEF Wake
<1>5. /\ sched' = [at |-> sched'.at, black |-> sched'.black, active |-> sched'.active, next |-> sched'.next]
      /\ sched'.at \notin Hot
  <2>1. CASE sched' = Asleep
    BY <2>1 DEF Asleep, Hot
  <2>2. ASSUME NEW b, NEW a, sched' = [sched EXCEPT !.at = "screen", !.black = b, !.active = a]
        PROVE  sched' = [at |-> "screen", black |-> b, active |-> a, next |-> sched.next]
    BY <2>2 DEF FleetInv, Shapes
  <2> QED BY <1>4, <2>1, <2>2 DEF Hot
<1> QED BY <1>1, <1>3, <1>5, PassOver

LEMMA ScreenKeeps == FleetInv /\ Screen => FleetInv'
<1> SUFFICES ASSUME FleetInv, Screen PROVE FleetInv'
  OBVIOUS
<1>1. UNCHANGED <<run, barren, counter>>
  BY DEF Screen
<1>2. CASE sched' = Asleep
  BY <1>1, <1>2, PassOver DEF FleetInv, Shapes, Asleep, Hot
<1>3. CASE sched' = [sched EXCEPT !.at = "read"] /\ ~Busy
  <2>1. ~Pending
    BY <1>3 DEF Busy, Pending
  <2>2. sched' = [at |-> "read", black |-> sched.black, active |-> sched.active, next |-> sched.next]
    BY <1>3 DEF FleetInv, Shapes
  <2> QED BY <1>1, <2>1, <2>2 DEF FleetInv, Shapes, NoneUnderWay, CountIsAhead, VerdictIsSound, Pending
<1> QED BY <1>2, <1>3 DEF Screen

\* The verdict: a launch that counts is one below the bound.
LEMMA VerdictCounts ==
  ASSUME NEW count \in 0 .. Threshold
  PROVE  /\ Verdict(count).count \in 0 .. Threshold /\ Verdict(count).go \in BOOLEAN
         /\ Verdict(count).go => Verdict(count).count < Threshold
         /\ Progressed \/ exit.state \in Successes => Verdict(count).count = 0
         /\ ~(Progressed \/ exit.state \in Successes) =>
              /\ Verdict(count).count >= count
              /\ Verdict(count).go => Verdict(count).count = count + 1
<1>0. count \in Nat /\ count <= Threshold /\ Threshold \in Nat /\ 0 < Threshold
  BY FleetAssumption
<1>1. CASE Progressed \/ exit.state \in Successes
  <2>1. Verdict(count) = [count |-> 0, go |-> TRUE]
    BY <1>1 DEF Verdict
  <2> QED BY <1>0, <1>1, <2>1
<1>2. CASE ~(Progressed \/ exit.state \in Successes)
  <2>1. CASE count >= Threshold
    <3>1. Verdict(count) = [count |-> count, go |-> FALSE]
      BY <1>2, <2>1 DEF Verdict
    <3> QED BY <1>0, <1>2, <3>1
  <2>2. CASE count < Threshold
    <3>1. Verdict(count) = [count |-> count + 1, go |-> count + 1 < Threshold]
      BY <1>0, <1>2, <2>2 DEF Verdict
    <3>2. CASE count + 1 < Threshold
      <4>1. Verdict(count) = [count |-> count + 1, go |-> TRUE]
        BY <3>1, <3>2
      <4> QED BY <1>0, <1>2, <3>2, <4>1
    <3>3. CASE ~(count + 1 < Threshold)
      <4>0. (count + 1 < Threshold) = FALSE
        BY <3>3
      <4>1. Verdict(count) = [count |-> count + 1, go |-> FALSE]
        BY ONLY <3>1, <4>0
      <4> QED BY <1>0, <1>2, <2>2, <4>1
    <3> QED BY <3>2, <3>3
  <2> QED BY <1>0, <2>1, <2>2
<1> QED BY <1>1, <1>2

LEMMA ReadBoundKeeps == FleetInv /\ ReadBound => FleetInv'
<1> SUFFICES ASSUME FleetInv, ReadBound PROVE FleetInv'
  OBVIOUS
<1> DEFINE spoken == counter.ack # "none" \/ Progressed \/ exit.state \in Successes
           v == IF counter.ack # "none" THEN [count |-> 0, go |-> TRUE] ELSE Verdict(counter.count)
<1>1. UNCHANGED <<run, barren, counter>> /\ sched.at = "read"
  BY DEF ReadBound
<1>2. sched' = [sched EXCEPT !.at = "write", !.next = <<v.count, Signature, v.go, spoken>>]
  BY DEF ReadBound
<1>3. /\ v.count \in 0 .. Threshold /\ v.go \in BOOLEAN /\ spoken \in BOOLEAN
      /\ v.go => v.count < Threshold
      /\ spoken => v.count = 0
      /\ ~spoken => v.count >= counter.count /\ (v.go => v.count = counter.count + 1)
  <2>1. counter.count \in 0 .. Threshold
    BY DEF FleetInv, Shapes
  <2>2. CASE counter.ack # "none"
    <3>1. v = [count |-> 0, go |-> TRUE] /\ spoken
      BY <2>2
    <3> HIDE DEF v, spoken
    <3> QED BY <2>1, <3>1, FleetAssumption
  <2>3. CASE counter.ack = "none"
    <3>1. v = Verdict(counter.count) /\ (spoken <=> Progressed \/ exit.state \in Successes)
      BY <2>3
    <3>2. spoken \in BOOLEAN
      OBVIOUS
    <3> HIDE DEF v, spoken
    <3> QED BY <2>1, <3>1, <3>2, VerdictCounts
  <2> QED BY <2>2, <2>3
<1> HIDE DEF v, spoken
<1>4. /\ sched' = [at |-> "write", black |-> sched.black, active |-> sched.active,
                   next |-> <<v.count, Signature, v.go, spoken>>]
  BY <1>2 DEF FleetInv, Shapes
<1>5. Shapes' /\ sched'.at = "write" /\ ~Pending'
  BY <1>1, <1>4 DEF FleetInv, Shapes, NoneUnderWay, Pending
<1>6. NoneUnderWay' /\ CountIsAhead'
  BY <1>1, <1>5 DEF FleetInv, NoneUnderWay, CountIsAhead, Pending
<1>7. sched'.next[1] = v.count /\ sched'.next[3] = v.go /\ sched'.next[4] = spoken
  BY <1>4
<1>8. VerdictIsSound'
  <2>1. barren \in Nat /\ counter.count \in Nat /\ v.count \in Nat /\ barren <= counter.count + 1
    BY <1>3, FleetAssumption DEF FleetInv, Shapes, CountIsAhead
  <2> QED BY <1>1, <1>3, <1>7, <2>1 DEF VerdictIsSound
<1> QED BY <1>5, <1>6, <1>8 DEF FleetInv

LEMMA WriteBoundKeeps == FleetInv /\ WriteBound => FleetInv'
<1> SUFFICES ASSUME FleetInv, WriteBound PROVE FleetInv'
  OBVIOUS
<1> DEFINE n == sched.next[1]
           go == sched.next[3]
           spoken == sched.next[4]
<1>1. UNCHANGED run /\ sched.at = "write" /\ ~Pending
  BY DEF WriteBound, FleetInv, NoneUnderWay
<1>2. /\ n \in 0 .. Threshold /\ go \in BOOLEAN /\ spoken \in BOOLEAN
      /\ go => n < Threshold
      /\ spoken => n = 0
      /\ ~spoken => barren <= n + 1
      /\ go /\ ~spoken => barren <= n
  BY <1>1 DEF FleetInv, VerdictIsSound
<1>3. counter' = [count |-> n, seen |-> sched.next[2], ack |-> StillFresh]
  BY DEF WriteBound
<1>4. barren' = IF spoken THEN 0 ELSE barren
  BY DEF WriteBound
<1>5. \/ ~go /\ sched' = Asleep
      \/ go /\ \E a \in {"launch", "decide"} : sched' = [sched EXCEPT !.at = a, !.next = <<>>]
  BY DEF WriteBound
<1>6. \/ ~go /\ sched' = Asleep
      \/ go /\ \E a \in {"launch", "decide"} :
           sched' = [at |-> a, black |-> sched.black, active |-> sched.active, next |-> <<>>]
  BY <1>5 DEF FleetInv, Shapes
<1>7. barren \in Nat /\ barren <= Threshold
  BY DEF FleetInv, Shapes, CountIsAhead
<1> HIDE DEF n, go, spoken
<1>8. Shapes'
  BY <1>1, <1>2, <1>3, <1>4, <1>6, <1>7 DEF FleetInv, Shapes, Asleep
<1>9. ~Pending' /\ sched'.at \in {"asleep", "launch", "decide"} /\ (sched'.at # "asleep" => go)
  BY <1>1, <1>6 DEF Pending, Asleep
<1>10. counter'.count = n /\ n \in Nat /\ Threshold \in Nat /\ barren' \in Nat
  BY <1>2, <1>3, <1>4, <1>7, FleetAssumption
<1>11. CountIsAhead'
  BY <1>2, <1>4, <1>7, <1>9, <1>10 DEF CountIsAhead
<1> QED BY <1>8, <1>9, <1>11 DEF FleetInv, NoneUnderWay, VerdictIsSound

LEMMA PromotesKeeps == FleetInv /\ SchedulerPromotes => FleetInv'
<1> SUFFICES ASSUME FleetInv, SchedulerPromotes PROVE FleetInv'
  OBVIOUS
<1>1. UNCHANGED <<run, barren, counter>> /\ sched.at \in {"decide", "promote"}
  BY DEF SchedulerPromotes, fleetVars
<1>2. sched' = sched \/ \E a \in {"promote", "launch"} : sched' = [sched EXCEPT !.at = a]
  BY DEF SchedulerPromotes, fleetVars
<1>3. \/ sched' = sched
      \/ \E a \in {"promote", "launch"} :
           sched' = [at |-> a, black |-> sched.black, active |-> sched.active, next |-> sched.next]
  BY <1>2 DEF FleetInv, Shapes
<1>4. Shapes' /\ sched'.at \in {"decide", "promote", "launch"}
  BY <1>1, <1>3 DEF FleetInv, Shapes
<1> QED BY <1>1, <1>4 DEF FleetInv, NoneUnderWay, CountIsAhead, VerdictIsSound, Pending

LEMMA DispatchKeeps == FleetInv /\ Dispatch => FleetInv'
<1> SUFFICES ASSUME FleetInv, Dispatch PROVE FleetInv'
  OBVIOUS
<1>1. /\ UNCHANGED <<barren, counter>> /\ sched' = Asleep /\ sched.at = "launch"
      /\ run' = [at |-> "launching", by |-> "scheduler", master |-> NoMaster]
  BY DEF Dispatch, Started
<1>2. barren <= counter.count /\ counter.count < Threshold
  BY <1>1 DEF FleetInv, CountIsAhead
<1>3. barren \in Nat /\ counter.count \in Nat /\ Threshold \in Nat
  BY FleetAssumption DEF FleetInv, Shapes
<1>4. Shapes'
  BY <1>1, <1>3 DEF FleetInv, Shapes, Asleep
<1>5. CountIsAhead'
  BY <1>1, <1>2, <1>3 DEF CountIsAhead, Asleep
<1> QED BY <1>1, <1>4, <1>5 DEF FleetInv, NoneUnderWay, VerdictIsSound, Asleep

\* Steps that touch neither the run, the pass, the count nor the barren runs.
LEMMA FleetStutters ==
  ASSUME FleetInv, UNCHANGED <<run, counter, sched, barren>>
  PROVE  FleetInv'
BY DEF FleetInv, Shapes, NoneUnderWay, CountIsAhead, VerdictIsSound, Pending

LEMMA DispatchFailsKeeps == FleetInv /\ DispatchFails => FleetInv'
BY PassOver DEF DispatchFails, FleetInv, Shapes, Asleep, Hot

LEMMA BeginKeeps == FleetInv /\ Begin => FleetInv'
<1> SUFFICES ASSUME FleetInv, Begin PROVE FleetInv'
  OBVIOUS
<1>1. /\ UNCHANGED <<counter, sched>> /\ run.at = "launching"
      /\ run' = [run EXCEPT !.at = "started", !.by = "nobody"]
      /\ barren' = IF run.by = "scheduler" THEN barren + 1 ELSE barren
  BY DEF Begin
<1>2. run' = [at |-> "started", by |-> "nobody", master |-> run.master]
  BY <1>1 DEF FleetInv, Shapes
<1> QED BY <1>1, <1>2, RunMoves DEF Pending

LEMMA EndAsKeeps ==
  ASSUME FleetInv, NEW state, NEW quick, EndAs(state, quick)
  PROVE  FleetInv'
<1>1. UNCHANGED <<counter, sched>> /\ run' = NoRun /\ barren' \in {0, barren}
  BY DEF EndAs
<1> QED BY <1>1, RunMoves DEF NoRun, Pending

LEMMA RunStepsKeep == FleetInv /\ RunSteps => FleetInv'
<1> SUFFICES ASSUME FleetInv, RunSteps PROVE FleetInv'
  OBVIOUS
<1>1. CASE Begin
  BY <1>1, BeginKeeps
<1>2. CASE Preflight
  <2>1. ASSUME NEW m, run' = [run EXCEPT !.at = "working", !.master = m],
               UNCHANGED <<counter, sched, barren>>
        PROVE  FleetInv'
    <3>1. run' = [at |-> "working", by |-> run.by, master |-> m]
      BY <2>1 DEF FleetInv, Shapes
    <3> QED BY <2>1, <3>1, RunMoves DEF Pending
  <2> QED BY <1>2, <2>1, EndAsKeeps DEF Preflight
<1>3. CASE Finish
  BY <1>3, EndAsKeeps DEF Finish
<1>4. CASE GiveOut
  BY <1>4, EndAsKeeps DEF GiveOut
<1> QED BY <1>1, <1>2, <1>3, <1>4 DEF RunSteps

LEMMA AdvanceStepKeeps == FleetInv /\ AdvanceStep => FleetInv'
BY RunMoves DEF AdvanceStep, FleetInv, Shapes, Pending

LEMMA RunDiesKeeps == FleetInv /\ RunDies => FleetInv'
BY RunMoves DEF RunDies, NoRun, Pending

LEMMA WatchKeeps == FleetInv /\ Watch => FleetInv'
<1> SUFFICES ASSUME FleetInv, Watch PROVE FleetInv'
  OBVIOUS
<1>1. CASE WatchdogGivesUp \/ WatchdogDecides \/ WatchdogPromotes \/ Collect
  BY <1>1, FleetStutters DEF WatchdogGivesUp, WatchdogDecides, WatchdogPromotes, Collect, fleetVars
<1>2. CASE Relaunch
  <2>1. UNCHANGED <<counter, sched, barren>>
    BY <1>2 DEF Relaunch
  <2>2. UNCHANGED run \/ run' = [at |-> "launching", by |-> "watchdog", master |-> NoMaster]
    BY <1>2 DEF Relaunch, Started
  <2> QED BY <2>1, <2>2, FleetStutters, RunMoves DEF Pending
<1> QED BY <1>1, <1>2 DEF Watch

LEMMA AcknowledgeKeeps == FleetInv /\ Acknowledge => FleetInv'
<1> SUFFICES ASSUME FleetInv, Acknowledge PROVE FleetInv'
  OBVIOUS
<1>1. UNCHANGED <<run, sched, barren>>
  BY DEF Acknowledge
<1>2. \E a : counter' = [counter EXCEPT !.ack = a]
  BY DEF Acknowledge
<1>3. /\ counter' = [count |-> counter'.count, seen |-> counter'.seen, ack |-> counter'.ack]
      /\ counter'.count = counter.count
  BY <1>2 DEF FleetInv, Shapes
<1> QED BY <1>1, <1>3, PassOver DEF FleetInv, Shapes

LEMMA DeathsKeep == FleetInv /\ (SchedulerDies \/ SchedulerRestarts) => FleetInv'
<1> SUFFICES ASSUME FleetInv, SchedulerDies \/ SchedulerRestarts PROVE FleetInv'
  OBVIOUS
<1>1. UNCHANGED <<run, counter, barren>> /\ (sched' = [Asleep EXCEPT !.at = "down"] \/ sched' = Asleep)
  BY DEF SchedulerDies, SchedulerRestarts
<1>2. /\ sched' = [at |-> sched'.at, black |-> FALSE, active |-> FALSE, next |-> <<>>]
      /\ sched'.at \in {"down", "asleep"}
  BY <1>1 DEF Asleep
<1> QED BY <1>1, <1>2, PassOver DEF FleetInv, Shapes, Hot

\* The count in the file stays ahead of the launches it is to bound, whoever
\* restarts, relaunches, acknowledges or promotes in between.
THEOREM FleetInductive == Spec => []FleetInv
<1>1. FleetInv /\ [Next]_vars => FleetInv'
  <2> SUFFICES ASSUME FleetInv, [Next]_vars PROVE FleetInv'
    OBVIOUS
  <2>1. CASE Pass
    BY <2>1, WakeKeeps, ScreenKeeps, ReadBoundKeeps, WriteBoundKeeps, PromotesKeeps,
       DispatchFailsKeeps DEF Pass
  <2>2. CASE Dispatch
    BY <2>2, DispatchKeeps
  <2>3. CASE RunSteps \/ AdvanceStep \/ RunDies
    BY <2>3, RunStepsKeep, AdvanceStepKeeps, RunDiesKeeps
  <2>4. CASE Watch
    BY <2>4, WatchKeeps
  <2>5. CASE Time \/ People
    BY <2>5, FleetStutters DEF Time, CoolDown, BackoffEnds, PostmortemAges, People, fleetVars
  <2>6. CASE Acknowledge \/ SchedulerDies \/ SchedulerRestarts
    BY <2>6, AcknowledgeKeeps, DeathsKeep
  <2>7. CASE UNCHANGED vars
    BY <2>7, FleetStutters DEF vars, fleetVars
  <2> QED BY <2>1, <2>2, <2>3, <2>4, <2>5, <2>6, <2>7 DEF Next
<1> QED BY <1>1, FleetStarts, PTL DEF Spec

\* The scheduler starts at most Threshold runs in a row that nothing speaks for
\* (get_no_progress_verdict of scheduler.sh and the counter file it keeps).
THEOREM BarrenLaunchesBounded == Spec => []BoundedBarren
<1>1. FleetInv => BoundedBarren
  BY DEF FleetInv, CountIsAhead, BoundedBarren
<1> QED BY <1>1, FleetInductive, PTL
=============================================================================

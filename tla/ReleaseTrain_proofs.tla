------------------------ MODULE ReleaseTrain_proofs -------------------------
(***************************************************************************)
(* Proofs about ReleaseTrain for any number of trains, deploys by hand,    *)
(* hosts, commits, permits and deaths.                                     *)
(*                                                                         *)
(* A step of one process changes what another one knows only by marking it *)
(* raced or crowded, so the argument about a train that is neither follows *)
(* that train alone: its lock is its own, and nobody moves the links or    *)
(* the daemons of the host it is deploying.                                *)
(***************************************************************************)
EXTENDS ReleaseTrain, TLAPS

\* A deploy is moving its host.
Moving == {"flip", "bounce", "smoke", "restore", "return"}

\* What a process deploys, proves or returns to was cut or landed before.
ReleasesExist ==
  /\ LastTag >= 1 /\ HEAD >= 1
  /\ \A p \in Procs :
       /\ At(p, "proving") => train[p].next \in 1 .. HEAD
       /\ At(p, "pushed") => train[p].next \in 1 .. LastTag
       /\ train[p].pc \in Moving => /\ train[p].host \in Hosts /\ train[p].base \in 0 .. LastTag
                                    /\ train[p].next \in 1 .. LastTag

\* A train inside that raced nobody has its pid in the lock, and none is inside
\* while a train that raced nobody is on its way in.
LockIsOwn ==
  /\ \A t \in Trains : t \in Inside /\ ~train[t].raced => lock = t
  /\ \A t, u \in Trains : At(t, "entering") /\ ~train[t].raced /\ u \in Inside => train[u].raced

\* The releases a host other than the canary may come to run were seen on it.
FleetFollows ==
  /\ \A p \in Procs : train[p].pc \in Moving /\ Host(p) # Canary => Release(p) \in smoked
  /\ \A h \in Hosts \ {Canary} : {current[h], previous[h]} \subseteq smoked \cup {0}

\* A process that noted nobody beside it is alone.
Alone == \A p \in Inside : ~train[p].crowded => Inside = {p}

\* The hosts before the one that is up have an outcome, the others have none;
\* the fleet is skipped only behind a canary that failed or was restored.
OutcomesFollow ==
  \A p \in Procs :
    /\ train[p].pc \notin Moving \cup {"reporting"} => \A h \in Hosts : outcome[p][h] = "none"
    /\ train[p].pc \in Moving =>
         \A h \in Hosts : /\ h >= Host(p) => outcome[p][h] = "none"
                          /\ h < Host(p) => outcome[p][h] \notin {"none", "skipped"}
    /\ At(p, "reporting") =>
         \A h \in Hosts : /\ p \in Trains => outcome[p][h] # "none"
                          /\ outcome[p][h] = "skipped" => outcome[p][Canary] \in {"failed", "restored"}

\* The daemon of a host noted as deployed runs the release.
DeployedRuns ==
  \A p \in Procs : \A h \in Hosts :
    p \in Inside /\ ~train[p].crowded /\ outcome[p][h] = "deployed" => running[h] = Release(p)

\* The links of a host differ, and those of a host that a process alone is
\* deploying are what it left there.
LinksAreIts ==
  /\ \A h \in Hosts : current[h] # previous[h]
  /\ \A p \in Procs : ~train[p].crowded =>
       /\ train[p].pc \in {"bounce", "smoke", "restore"} => current[Host(p)] = Release(p)
       /\ At(p, "return") => current[Host(p)] = train[p].base /\ train[p].base # Release(p)

TrainInv ==
  /\ TypeOK /\ ReleasesExist /\ LockIsOwn /\ FleetFollows
  /\ Alone /\ OutcomesFollow /\ DeployedRuns /\ LinksAreIts

-----------------------------------------------------------------------------
(* What a step does to the processes.                                      *)

\* TypeOK, variable by variable.
Typed ==
  /\ commits \in Seq({"work", "row"}) /\ HEAD \in Nat /\ proven \subseteq 1 .. HEAD
  /\ tags \in Seq(1 .. HEAD) /\ LastTag \in Nat /\ published \subseteq 1 .. LastTag
  /\ smoked \subseteq 1 .. LastTag /\ dirty \in BOOLEAN
  /\ permits \in [Hosts -> PermitSet]
  /\ current \in [Hosts -> 0 .. LastTag] /\ previous \in [Hosts -> 0 .. LastTag]
  /\ running \in [Hosts -> 0 .. LastTag]
  /\ lock \in Trains \cup {NoTrain}
  /\ lock # NoTrain => train[lock].pc \notin {"idle", "entering"}
  /\ train \in [Procs -> RowSet] /\ outcome \in [Procs -> [Hosts -> Outcomes]]
  /\ landings \in Nat /\ written \in Nat /\ crashes \in Nat

LEMMA TypedIsTypeOK == (TypeOK <=> Typed) /\ (TypeOK' <=> Typed')
<1>1. \A S : \A q \in Seq(S) : Len(q) \in Nat
  OBVIOUS
<1>2. TypeOK <=> Typed
  BY <1>1 DEF TypeOK, Typed, HEAD, LastTag
<1>3. TypeOK' <=> Typed'
  BY <1>1 DEF TypeOK, Typed, HEAD, LastTag
<1> QED BY <1>2, <1>3

LEMMA Constants ==
  /\ Trains \cap Hands = {} /\ NoTrain \notin Procs /\ Trains \subseteq Procs /\ Hands \subseteq Procs
  /\ HostCount \in Nat \ {0} /\ Canary \in Hosts /\ Hosts \subseteq Nat
BY TrainsAssumption, BoundsAssumption DEF Procs, Hosts, Canary

LEMMA RowWritten ==
  /\ \A c \in Pcs : Blank(c) \in RowSet
  /\ \A r \in RowSet :
       /\ r.pc \in Pcs /\ r.head \in Nat /\ r.base \in Nat /\ r.next \in Nat
       /\ r.host \in 0 .. HostCount /\ r.raced \in BOOLEAN /\ r.crowded \in BOOLEAN
       /\ \A c \in Pcs : [r EXCEPT !.pc = c] \in RowSet
       /\ \A c \in Pcs, n, m \in Nat : [r EXCEPT !.pc = c, !.head = n, !.base = m] \in RowSet
       /\ \A c \in Pcs, n \in Nat : [r EXCEPT !.pc = c, !.next = n] \in RowSet
       /\ \A c \in Pcs, n \in Nat : [r EXCEPT !.pc = c, !.base = n] \in RowSet
       /\ \A c \in Pcs, h \in Hosts :
            [r EXCEPT !.pc = c, !.host = h, !.head = 0, !.base = 0] \in RowSet
       /\ \A c \in Pcs, h \in Hosts : [r EXCEPT !.pc = c, !.host = h, !.base = 0] \in RowSet
<1>1. \A c \in Pcs : Blank(c) \in RowSet
  BY Constants DEF RowSet, Blank
<1>2. ASSUME NEW r \in RowSet
      PROVE  /\ r.pc \in Pcs /\ r.head \in Nat /\ r.base \in Nat /\ r.next \in Nat
             /\ r.host \in 0 .. HostCount /\ r.raced \in BOOLEAN /\ r.crowded \in BOOLEAN
  BY <1>2 DEF RowSet
<1>3. ASSUME NEW r \in RowSet, NEW c \in Pcs, NEW n \in Nat, NEW m \in Nat, NEW h \in Hosts
      PROVE  /\ [r EXCEPT !.pc = c] \in RowSet
             /\ [r EXCEPT !.pc = c, !.head = n, !.base = m] \in RowSet
             /\ [r EXCEPT !.pc = c, !.next = n] \in RowSet
             /\ [r EXCEPT !.pc = c, !.base = n] \in RowSet
             /\ [r EXCEPT !.pc = c, !.host = h, !.head = 0, !.base = 0] \in RowSet
             /\ [r EXCEPT !.pc = c, !.host = h, !.base = 0] \in RowSet
  <2>0. h \in 0 .. HostCount /\ 0 \in Nat
    BY <1>3, Constants DEF Hosts
  <2>1. [r EXCEPT !.pc = c] \in RowSet /\ [r EXCEPT !.pc = c, !.head = n, !.base = m] \in RowSet
    BY <1>3 DEF RowSet
  <2>2. [r EXCEPT !.pc = c, !.next = n] \in RowSet /\ [r EXCEPT !.pc = c, !.base = n] \in RowSet
    BY <1>3 DEF RowSet
  <2>3. [r EXCEPT !.pc = c, !.host = h, !.head = 0, !.base = 0] \in RowSet
    BY <1>3, <2>0 DEF RowSet
  <2>4. [r EXCEPT !.pc = c, !.host = h, !.base = 0] \in RowSet
    BY <1>3, <2>0 DEF RowSet
  <2> QED BY <2>1, <2>2, <2>3, <2>4
<1> QED BY <1>1, <1>2, <1>3, Constants

LEMMA RowMarked ==
  ASSUME NEW r \in RowSet, NEW b \in BOOLEAN, NEW d \in BOOLEAN
  PROVE  /\ [r EXCEPT !.raced = b] \in RowSet /\ [r EXCEPT !.crowded = b] \in RowSet
         /\ [r EXCEPT !.crowded = b, !.raced = d] \in RowSet
BY DEF RowSet

LEMMA RowNoted ==
  ASSUME NEW r \in RowSet, NEW h \in Hosts
  PROVE  /\ [r EXCEPT !.pc = "flip", !.host = h, !.base = 0] \in RowSet
         /\ [r EXCEPT !.pc = "reporting", !.base = 0] \in RowSet
<1>1. {"flip", "reporting"} \subseteq Pcs /\ 0 \in Nat
  BY DEF Pcs
<1> QED BY <1>1, RowWritten

\* A step of another process leaves q's place and what it read, and may mark it.
Kept(q) ==
  /\ train'[q].pc = train[q].pc /\ train'[q].host = train[q].host
  /\ train'[q].base = train[q].base /\ train'[q].next = train[q].next
  /\ train[q].raced => train'[q].raced
  /\ train[q].crowded => train'[q].crowded

\* A step of p's own leaves its marks as long as it is inside.
Unmarked(p) ==
  p \in Inside' => /\ p \in Inside
                   /\ train'[p].raced = train[p].raced /\ train'[p].crowded = train[p].crowded

InsidePcs == Pcs \ {"idle", "entering", "released", "stopped"}

LEMMA InsideIsPc ==
  ASSUME train \in [Procs -> RowSet]
  PROVE  Inside = {p \in Procs : train[p].pc \in InsidePcs}
BY RowWritten DEF Inside, Outside, Ended, InsidePcs

LEMMA InsideIsPcNext ==
  ASSUME train' \in [Procs -> RowSet]
  PROVE  Inside' = {p \in Procs : train'[p].pc \in InsidePcs}
BY RowWritten DEF Inside, Outside, Ended, InsidePcs

\* A process leaves, and the holder of the lock it removes may be marked.
LEMMA LeaveMoves ==
  ASSUME train \in [Procs -> RowSet], NEW p \in Procs, NEW how \in Pcs, Leave(p, how)
  PROVE  /\ train' \in [Procs -> RowSet]
         /\ \A q \in Procs \ {p} : Kept(q)
         /\ train'[p] = Blank(how)
<1>1. ASSUME NEW q \in Procs \ {p} PROVE train'[q] \in RowSet /\ Kept(q)
  <2>1. PICK b \in BOOLEAN : train'[q] = [train[q] EXCEPT !.raced = b] /\ (train[q].raced => b)
    BY RowWritten DEF Leave, Holds, Inside
  <2>2. train[q] \in RowSet
    OBVIOUS
  <2>3. train'[q] \in RowSet
    BY <2>1, <2>2, RowMarked
  <2> QED BY <2>1, <2>2, <2>3 DEF Kept, RowSet
<1>2. train'[p] = Blank(how) /\ train' = [q \in Procs |-> train'[q]]
  BY DEF Leave
<1> QED BY <1>1, <1>2, RowWritten

\* A process comes in, and whoever is inside or on its way in is marked.
LEMMA JoinMoves ==
  ASSUME train \in [Procs -> RowSet], NEW p \in Procs, NEW r \in RowSet, Joins(p, r)
  PROVE  /\ train' \in [Procs -> RowSet]
         /\ \A q \in Procs \ {p} : Kept(q)
         /\ train'[p] = [r EXCEPT !.crowded = Inside # {}]
<1>1. ASSUME NEW q \in Procs \ {p} PROVE train'[q] \in RowSet /\ Kept(q)
  <2>1. train[q] \in RowSet
    OBVIOUS
  <2>2. CASE q \in Inside
    <3>1. PICK b \in BOOLEAN : /\ train'[q] = [train[q] EXCEPT !.crowded = TRUE, !.raced = b]
                               /\ train[q].raced => b
      BY <2>2 DEF Joins
    <3>2. train'[q] \in RowSet
      BY <2>1, <3>1, RowMarked
    <3> QED BY <2>1, <3>1, <3>2 DEF Kept, RowSet
  <2>3. CASE q \notin Inside /\ At(q, "entering")
    <3>1. PICK b \in BOOLEAN : train'[q] = [train[q] EXCEPT !.raced = b] /\ (train[q].raced => b)
      BY <2>3 DEF Joins
    <3>2. train'[q] \in RowSet
      BY <2>1, <3>1, RowMarked
    <3> QED BY <2>1, <3>1, <3>2 DEF Kept, RowSet
  <2>4. CASE q \notin Inside /\ ~At(q, "entering")
    BY <2>1, <2>4 DEF Joins, Kept
  <2> QED BY <2>2, <2>3, <2>4
<1>2. train'[p] = [r EXCEPT !.crowded = Inside # {}] /\ train' = [q \in Procs |-> train'[q]]
  BY DEF Joins
<1>3. train'[p] \in RowSet
  BY <1>2, RowMarked
<1> QED BY <1>1, <1>2, <1>3

\* A deploy notes the outcome of its host, and goes on or reports.
LEMMA NoteMoves ==
  ASSUME train \in [Procs -> RowSet], NEW p \in Procs, train[p].host \in Hosts, NEW o, Note(p, o)
  PROVE  /\ train' \in [Procs -> RowSet]
         /\ \A q \in Procs \ {p} : Kept(q)
         /\ train'[p].next = train[p].next /\ train'[p].base = 0
         /\ train'[p].raced = train[p].raced /\ train'[p].crowded = train[p].crowded
         /\ \/ /\ train'[p].pc = "flip" /\ p \in Trains
               /\ train'[p].host = train[p].host + 1 /\ train'[p].host \in Hosts
               /\ Host(p) = Canary => CanaryPassed(o)
            \/ /\ train'[p].pc = "reporting"
               /\ \/ p \notin Trains \/ Host(p) = HostCount
                  \/ Host(p) = Canary /\ ~CanaryPassed(o)
<1>0. train[p] \in RowSet /\ train[p].host \in Nat /\ {"flip", "reporting"} \subseteq Pcs
  BY Constants DEF Pcs
<1>1. CASE /\ p \in Trains /\ {h \in Hosts : h > Host(p)} # {}
           /\ ~(Host(p) = Canary /\ ~CanaryPassed(o))
  <2>1. train' = [train EXCEPT ![p].pc = "flip", ![p].host = train[p].host + 1, ![p].base = 0]
    BY <1>1 DEF Note
  <2>2. train[p].host + 1 \in Hosts
    BY <1>0, <1>1, Constants DEF Host, Hosts
  <2>3. train'[p] = [train[p] EXCEPT !.pc = "flip", !.host = train[p].host + 1, !.base = 0]
    BY <2>1
  <2>4. train'[p] \in RowSet
    BY <1>0, <2>2, <2>3, RowNoted
  <2>5. \A q \in Procs \ {p} : train'[q] = train[q]
    BY <2>1
  <2>6. train' \in [Procs -> RowSet]
    BY <2>1, <2>4, <2>5
  <2> QED BY <1>0, <1>1, <2>2, <2>3, <2>5, <2>6 DEF Kept, RowSet
<1>2. CASE ~(/\ p \in Trains /\ {h \in Hosts : h > Host(p)} # {}
             /\ ~(Host(p) = Canary /\ ~CanaryPassed(o)))
  <2>1. train' = [train EXCEPT ![p].pc = "reporting", ![p].base = 0]
    BY <1>2 DEF Note
  <2>2. {h \in Hosts : h > Host(p)} = {} => Host(p) = HostCount
    BY <1>0, Constants DEF Host, Hosts
  <2>3. train'[p] = [train[p] EXCEPT !.pc = "reporting", !.base = 0]
    BY <2>1
  <2>4. train'[p] \in RowSet
    BY <1>0, <2>3, RowNoted
  <2>5. \A q \in Procs \ {p} : train'[q] = train[q]
    BY <2>1
  <2>6. train' \in [Procs -> RowSet]
    BY <2>1, <2>4, <2>5
  <2> QED BY <1>0, <1>2, <2>2, <2>3, <2>5, <2>6 DEF Kept, RowSet
<1> QED BY <1>1, <1>2

LEMMA WriteMoves ==
  ASSUME train \in [Procs -> RowSet], NEW p \in Procs, NEW r \in RowSet,
         train' = [train EXCEPT ![p] = r]
  PROVE  /\ train' \in [Procs -> RowSet]
         /\ \A q \in Procs \ {p} : Kept(q)
         /\ train'[p] = r
BY DEF Kept

LEMMA GotoMoves ==
  ASSUME train \in [Procs -> RowSet], NEW p \in Procs, NEW c \in Pcs, Goto(p, c)
  PROVE  /\ train' \in [Procs -> RowSet]
         /\ \A q \in Procs \ {p} : Kept(q)
         /\ train'[p] = [train[p] EXCEPT !.pc = c]
<1>1. train' = [train EXCEPT ![p] = [train[p] EXCEPT !.pc = c]] /\ train[p] \in RowSet
  BY DEF Goto
<1>2. [train[p] EXCEPT !.pc = c] \in RowSet
  BY <1>1, RowWritten
<1> QED BY <1>1, <1>2, WriteMoves

\* The hypotheses on a state before a step of a process.
Ready == train \in [Procs -> RowSet] /\ HEAD \in Nat /\ LastTag \in Nat /\ ReleasesExist
         /\ previous \in [Hosts -> 0 .. LastTag]

\* The steps of a deploy.
Deploys(p) == \/ StartHand(p) \/ ConsumePermits(p) \/ Flip(p) \/ Bounce(p)
              \/ Smoke(p) \/ Restore(p) \/ Return(p)

\* The steps that bring p to c, where a later argument depends on them.
Reaches(p, c) ==
  /\ c \in {"idle", "entering"} => Enter(p)
  /\ c = "proving" => CheckPermits(p)
  /\ c = "pushed" => CutTag(p)
  /\ c \in Moving \cup {"reporting"} => Deploys(p)

\* What a step of p does to the processes.
Moves(p) ==
  /\ train' \in [Procs -> RowSet]
  /\ \A q \in Procs \ {p} : Kept(q)
  /\ Unmarked(p) \/ WriteLock(p) \/ StartHand(p)
  /\ Reaches(p, train'[p].pc)

LEMMA ProcessMoves ==
  ASSUME Ready, NEW p \in Procs, Step(p)
  PROVE  Moves(p)
<1> USE DEF Ready
<1> DEFINE Done == train' \in [Procs -> RowSet] /\ \A q \in Procs \ {p} : Kept(q)
           Goes(r) == /\ Reaches(p, r.pc)
                      /\ r.raced = train[p].raced /\ r.crowded = train[p].crowded
<1>p. \A c \in {"idle", "entering", "locked", "checked", "proving", "proven", "cutting", "committed",
        "pushed", "flip", "bounce", "smoke", "restore", "return", "reporting",
        "released", "stopped"} : c \in Pcs
  BY DEF Pcs
<1>r. train[p] \in RowSet /\ train[p].pc \in Pcs
  BY RowWritten
<1>l. ASSUME NEW how \in {"released", "stopped"}, Leave(p, how) PROVE Moves(p)
  <2>1. Done /\ train'[p] = Blank(how)
    BY <1>l, <1>p, LeaveMoves
  <2>2. train'[p].pc = how
    BY <2>1 DEF Blank
  <2>3. p \notin Inside'
    BY <2>1, <2>2, InsideIsPcNext DEF InsidePcs
  <2>4. Reaches(p, how)
    BY <1>l DEF Reaches, Moving
  <2> QED BY <2>1, <2>2, <2>3, <2>4 DEF Moves, Unmarked
<1>w. ASSUME NEW r \in RowSet, train' = [train EXCEPT ![p] = r], p \in Inside,
             Goes(r)
      PROVE  Moves(p)
  BY <1>w, WriteMoves DEF Moves, Unmarked
<1>g. ASSUME NEW c \in Pcs, Reaches(p, c), Goto(p, c), p \in Inside PROVE Moves(p)
  <2>1. Done /\ train'[p] = [train[p] EXCEPT !.pc = c]
    BY <1>g, GotoMoves
  <2> QED BY <1>g, <2>1 DEF Moves, Unmarked, RowSet
<1>n. ASSUME NEW o, Note(p, o), train[p].pc \in Moving, Deploys(p) PROVE Moves(p)
  <2>1. train[p].host \in Hosts
    BY <1>n DEF ReleasesExist
  <2>2. p \in Inside
    BY <1>n, <1>r, InsideIsPc DEF InsidePcs, Moving
  <2>3. \A c \in {"flip", "reporting"} : Reaches(p, c)
    BY <1>n DEF Reaches
  <2> QED BY <1>n, <2>1, <2>2, <2>3, NoteMoves DEF Moves, Unmarked
<1>i. train[p].pc \in InsidePcs => p \in Inside
  BY InsideIsPc
<1>1. CASE Enter(p)
  <2>1. PICK c \in {"stopped", "entering"} : Goto(p, c)
    BY <1>1 DEF Enter
  <2>2. Done /\ train'[p].pc = c
    <3>1. c \in Pcs
      BY <2>1, <1>p
    <3>2. Done /\ train'[p] = [train[p] EXCEPT !.pc = c]
      BY <2>1, <3>1, GotoMoves
    <3> QED BY <3>2, <1>r DEF RowSet
  <2>3. p \notin Inside'
    BY <2>2, InsideIsPcNext DEF InsidePcs
  <2>4. Reaches(p, c)
    BY <1>1, <2>1 DEF Reaches, Moving
  <2> QED BY <2>2, <2>3, <2>4 DEF Moves, Unmarked
<1>2. CASE WriteLock(p)
  <2>1. Joins(p, [Blank("locked") EXCEPT !.raced = train[p].raced])
    BY <1>2 DEF WriteLock
  <2>2. Blank("locked") \in RowSet /\ train[p].raced \in BOOLEAN
    BY <1>p, RowWritten
  <2>3. [Blank("locked") EXCEPT !.raced = train[p].raced] \in RowSet
    BY <2>2, RowMarked
  <2>4. Done /\ train'[p].pc = "locked"
    <3> DEFINE r == [Blank("locked") EXCEPT !.raced = train[p].raced]
    <3>1. Done /\ train'[p] = [r EXCEPT !.crowded = Inside # {}]
      BY <2>1, <2>3, JoinMoves
    <3>2. r.pc = "locked"
      BY DEF Blank
    <3> QED BY <2>3, <3>1, <3>2 DEF RowSet
  <2> QED BY <1>2, <2>4 DEF Moves, Reaches, Moving
<1>3. CASE Check(p)
  <2>0. p \in Inside
    BY <1>3, <1>i DEF Check, InsidePcs, Pcs
  <2>1. CASE train' = [train EXCEPT ![p].pc = "checked", ![p].head = HEAD, ![p].base = LastTag]
    <3>1. train' = [train EXCEPT ![p] = [train[p] EXCEPT !.pc = "checked", !.head = HEAD, !.base = LastTag]]
      BY <2>1
    <3>2. [train[p] EXCEPT !.pc = "checked", !.head = HEAD, !.base = LastTag] \in RowSet
      BY <1>p, <1>r, RowWritten, Constants DEF Ready
    <3>3. Goes([train[p] EXCEPT !.pc = "checked", !.head = HEAD, !.base = LastTag])
      BY <1>3, <1>r DEF RowSet, Reaches, Moving, Deploys
    <3> QED BY <2>0, <3>1, <3>2, <3>3, <1>w
  <2> QED BY <1>3, <2>1, <1>l DEF Check
<1>4. CASE CheckPermits(p)
  <2>0. p \in Inside
    BY <1>4, <1>i DEF CheckPermits, InsidePcs, Pcs
  <2>1. CASE train' = [train EXCEPT ![p].pc = "proving", ![p].next = HEAD]
    <3>1. train' = [train EXCEPT ![p] = [train[p] EXCEPT !.pc = "proving", !.next = HEAD]]
      BY <2>1
    <3>2. [train[p] EXCEPT !.pc = "proving", !.next = HEAD] \in RowSet
      BY <1>p, <1>r, RowWritten, Constants DEF Ready
    <3>3. Goes([train[p] EXCEPT !.pc = "proving", !.next = HEAD])
      BY <1>4, <1>r DEF RowSet, Reaches, Moving, Deploys
    <3> QED BY <2>0, <3>1, <3>2, <3>3, <1>w
  <2> QED BY <1>4, <2>1, <1>l DEF CheckPermits
<1>5. CASE Prove(p)
  <2>0. p \in Inside
    BY <1>5, <1>i DEF Prove, InsidePcs, Pcs
  <2>1. Goto(p, "proven") \/ Leave(p, "stopped")
    BY <1>5 DEF Prove
  <2>2. Reaches(p, "proven")
    BY <1>5 DEF Reaches, Moving
  <2> QED BY <2>0, <2>1, <2>2, <1>p, <1>g, <1>l
<1>6. CASE CutCheck(p)
  <2>0. p \in Inside
    BY <1>6, <1>i DEF CutCheck, InsidePcs, Pcs
  <2>n. NextTag \in Nat
    BY DEF Ready, NextTag
  <2>1. CASE train' = [train EXCEPT ![p].pc = "cutting", ![p].next = NextTag]
    <3>1. train' = [train EXCEPT ![p] = [train[p] EXCEPT !.pc = "cutting", !.next = NextTag]]
      BY <2>1
    <3>2. [train[p] EXCEPT !.pc = "cutting", !.next = NextTag] \in RowSet
      BY <2>n, <1>p, <1>r, RowWritten, Constants DEF Ready
    <3>3. Goes([train[p] EXCEPT !.pc = "cutting", !.next = NextTag])
      BY <1>6, <1>r DEF RowSet, Reaches, Moving, Deploys
    <3> QED BY <2>0, <3>1, <3>2, <3>3, <1>w
  <2> QED BY <1>6, <2>1, <1>l DEF CutCheck
<1>7. CASE CutCommit(p)
  <2>0. p \in Inside
    BY <1>7, <1>i DEF CutCommit, InsidePcs, Pcs
  <2>1. Goto(p, "committed") \/ Leave(p, "stopped")
    BY <1>7 DEF CutCommit
  <2>2. Reaches(p, "committed")
    BY <1>7 DEF Reaches, Moving
  <2> QED BY <2>0, <2>1, <2>2, <1>p, <1>g, <1>l
<1>8. CASE CutTag(p)
  <2>0. p \in Inside
    BY <1>8, <1>i DEF CutTag, InsidePcs, Pcs
  <2>1. Goto(p, "pushed") \/ Leave(p, "stopped")
    BY <1>8 DEF CutTag
  <2>2. Reaches(p, "pushed")
    BY <1>8 DEF Reaches, Moving
  <2> QED BY <2>0, <2>1, <2>2, <1>p, <1>g, <1>l
<1>9. CASE ConsumePermits(p)
  <2>0. p \in Inside
    BY <1>9, <1>i DEF ConsumePermits, InsidePcs, Pcs
  <2>1. CASE train' = [train EXCEPT ![p].pc = "flip", ![p].host = Canary, ![p].head = 0, ![p].base = 0]
    <3>1. train' = [train EXCEPT ![p] = [train[p] EXCEPT !.pc = "flip", !.host = Canary, !.head = 0, !.base = 0]]
      BY <2>1
    <3>2. [train[p] EXCEPT !.pc = "flip", !.host = Canary, !.head = 0, !.base = 0] \in RowSet
      BY <1>p, <1>r, RowWritten, Constants DEF Ready
    <3>3. Goes([train[p] EXCEPT !.pc = "flip", !.host = Canary, !.head = 0, !.base = 0])
      BY <1>9, <1>r DEF RowSet, Reaches, Moving, Deploys
    <3> QED BY <2>0, <3>1, <3>2, <3>3, <1>w
  <2> QED BY <1>9, <2>1, <1>l DEF ConsumePermits
<1>10. CASE StartHand(p)
  <2>1. Joins(p, [Blank("flip") EXCEPT !.next = LastTag, !.host = Canary])
    BY <1>10 DEF StartHand
  <2>2. [Blank("flip") EXCEPT !.next = LastTag, !.host = Canary] \in RowSet
    <3>1. Blank("flip") \in RowSet
      BY <1>p, RowWritten
    <3>3. Canary \in 0 .. HostCount
      BY ONLY Constants DEF Hosts
    <3>2. \A b \in RowSet, n \in Nat, h \in 0 .. HostCount : [b EXCEPT !.next = n, !.host = h] \in RowSet
      BY DEF RowSet
    <3> QED BY <3>1, <3>2, <3>3
  <2>3. Done /\ train'[p].pc = "flip"
    <3> DEFINE r == [Blank("flip") EXCEPT !.next = LastTag, !.host = Canary]
    <3>1. Done /\ train'[p] = [r EXCEPT !.crowded = Inside # {}]
      BY <2>1, <2>2, JoinMoves
    <3>2. r.pc = "flip"
      BY DEF Blank
    <3> QED BY <2>2, <3>1, <3>2 DEF RowSet
  <2> QED BY <1>10, <2>3 DEF Moves, Reaches, Deploys
<1>11. CASE Flip(p)
  <2>0. train[p].pc \in Moving /\ p \in Inside
    BY <1>11, <1>i DEF Flip, At, Moving, InsidePcs, Pcs
  <2>1. Goto(p, "bounce") \/ \E o \in Outcomes : Note(p, o)
    BY <1>11 DEF Flip, FlipHere, FlipThere, Outcomes
  <2>2. Deploys(p) /\ \A c \in {"bounce", "smoke", "restore"} : Reaches(p, c)
    BY <1>11 DEF Reaches, Deploys
  <2> QED BY <2>0, <2>1, <2>2, <1>p, <1>g, <1>n
<1>12. CASE Bounce(p)
  <2>0. train[p].pc \in Moving /\ p \in Inside
    BY <1>12, <1>i DEF Bounce, At, Moving, InsidePcs, Pcs
  <2>1. Goto(p, "smoke") \/ Goto(p, "restore") \/ \E o \in Outcomes : Note(p, o)
    BY <1>12 DEF Bounce, Outcomes
  <2>2. Deploys(p) /\ \A c \in {"bounce", "smoke", "restore"} : Reaches(p, c)
    BY <1>12 DEF Reaches, Deploys
  <2> QED BY <2>0, <2>1, <2>2, <1>p, <1>g, <1>n
<1>13. CASE Smoke(p)
  <2>0. train[p].pc \in Moving /\ p \in Inside
    BY <1>13, <1>i DEF Smoke, At, Moving, InsidePcs, Pcs
  <2>1. Goto(p, "restore") \/ \E o \in Outcomes : Note(p, o)
    BY <1>13 DEF Smoke, Outcomes
  <2>2. Deploys(p) /\ \A c \in {"bounce", "smoke", "restore"} : Reaches(p, c)
    BY <1>13 DEF Reaches, Deploys
  <2> QED BY <2>0, <2>1, <2>2, <1>p, <1>g, <1>n
<1>14. CASE Restore(p)
  <2>0. train[p].pc \in Moving /\ p \in Inside /\ Host(p) \in Hosts
    BY <1>14, <1>i DEF Restore, At, Moving, InsidePcs, Pcs, Host, ReleasesExist
  <2>1. CASE train' = [train EXCEPT ![p].pc = "return", ![p].base = previous[Host(p)]]
    <3>1. train' = [train EXCEPT ![p] = [train[p] EXCEPT !.pc = "return", !.base = previous[Host(p)]]]
      BY <2>1
    <3>2. [train[p] EXCEPT !.pc = "return", !.base = previous[Host(p)]] \in RowSet
      <4>1. previous[Host(p)] \in Nat
        BY <2>0
      <4> QED BY <4>1, <1>p, <1>r, RowWritten
    <3>3. Goes([train[p] EXCEPT !.pc = "return", !.base = previous[Host(p)]])
      BY <1>14, <1>r DEF RowSet, Reaches, Moving, Deploys
    <3> QED BY <2>0, <3>1, <3>2, <3>3, <1>w
  <2> QED BY <1>14, <2>0, <2>1, <1>n DEF Restore, Deploys
<1>15. CASE Return(p)
  <2>0. train[p].pc \in Moving
    BY <1>15 DEF Return, At, Moving
  <2> QED BY <1>15, <2>0, <1>n DEF Return, Deploys
<1>16. CASE Report(p)
  <2>1. \E how \in {"released", "stopped"} : Leave(p, how)
    BY <1>16 DEF Report
  <2> QED BY <2>1, <1>l
<1>17. CASE Die(p)
  <2>1. train' = [train EXCEPT ![p] = Blank("stopped")] /\ Blank("stopped") \in RowSet
    BY <1>17, <1>p, RowWritten DEF Die, Exits
  <2>2. Done /\ train'[p].pc = "stopped"
    BY <2>1, WriteMoves DEF Blank
  <2>3. p \notin Inside'
    BY <2>2, InsideIsPcNext DEF InsidePcs
  <2> QED BY <2>2, <2>3 DEF Moves, Unmarked, Reaches, Moving
<1> QED BY <1>1, <1>2, <1>3, <1>4, <1>5, <1>6, <1>7, <1>8, <1>9, <1>10, <1>11, <1>12,
           <1>13, <1>14, <1>15, <1>16, <1>17
       DEF Step

-----------------------------------------------------------------------------
(* Types.                                                                  *)

\* Commits and releases are only added.
Grows ==
  /\ commits' \in Seq({"work", "row"}) /\ HEAD' \in Nat /\ HEAD' >= HEAD
  /\ tags' \in Seq(1 .. HEAD') /\ LastTag' \in Nat /\ LastTag' >= LastTag
  /\ proven' \subseteq 1 .. HEAD' /\ published' \subseteq 1 .. LastTag' /\ dirty' \in BOOLEAN

LEMMA SeqWidens ==
  ASSUME NEW m \in Nat, NEW n \in Nat, n >= m, NEW q \in Seq(1 .. m)
  PROVE  q \in Seq(1 .. n)
<1>1. \A i \in 1 .. Len(q) : q[i] \in 1 .. n
  OBVIOUS
<1>2. q = [i \in 1 .. Len(q) |-> q[i]] /\ Len(q) \in Nat
  OBVIOUS
<1>3. [i \in 1 .. Len(q) |-> q[i]] \in [1 .. Len(q) -> 1 .. n]
  BY <1>1
<1> QED BY <1>2, <1>3

LEMMA RepoGrows ==
  ASSUME TypeOK, ReleasesExist, [Next]_vars
  PROVE  Grows
<1>0. /\ commits \in Seq({"work", "row"}) /\ HEAD \in Nat /\ proven \subseteq 1 .. HEAD
      /\ tags \in Seq(1 .. HEAD) /\ LastTag \in Nat /\ published \subseteq 1 .. LastTag
      /\ dirty \in BOOLEAN /\ LastTag >= 1 /\ HEAD >= 1
  BY TypedIsTypeOK DEF Typed, ReleasesExist
<1>a. CASE UNCHANGED repo
  BY <1>0, <1>a DEF Grows, repo, HEAD, LastTag
<1>b. ASSUME NEW w \in {"work", "row"}, commits' = Append(commits, w), UNCHANGED tags
      PROVE  /\ commits' \in Seq({"work", "row"}) /\ HEAD' \in Nat /\ HEAD' = HEAD + 1
             /\ tags' \in Seq(1 .. HEAD') /\ LastTag' = LastTag
  <2>1. commits' \in Seq({"work", "row"}) /\ Len(commits') = Len(commits) + 1
    BY <1>0, <1>b
  <2>2. HEAD' = HEAD + 1
    BY <2>1 DEF HEAD
  <2>3. HEAD' \in Nat /\ HEAD' >= HEAD
    BY <1>0, <2>2
  <2>4. tags \in Seq(1 .. HEAD')
    BY <1>0, <2>3, SeqWidens
  <2> QED BY <1>b, <2>1, <2>2, <2>3, <2>4 DEF LastTag
<1>1. ASSUME NEW p \in Procs,
             Enter(p) \/ WriteLock(p) \/ Check(p) \/ CheckPermits(p) \/ CutCheck(p) \/
             ConsumePermits(p) \/ StartHand(p) \/ Flip(p) \/ Bounce(p) \/ Smoke(p) \/
             Restore(p) \/ Return(p) \/ Report(p) \/ Die(p)
      PROVE  UNCHANGED repo
  BY <1>1 DEF Enter, WriteLock, Check, CheckPermits, CutCheck, ConsumePermits, StartHand,
              Flip, Bounce, Smoke, Restore, Return, Report, Die
<1>2. ASSUME NEW p \in Procs, Prove(p) PROVE Grows
  <2>1. UNCHANGED <<commits, tags, published, dirty>> /\ HEAD' = HEAD /\ LastTag' = LastTag
    BY <1>2 DEF Prove, HEAD, LastTag
  <2>2. train[p].next \in 1 .. HEAD
    BY <1>2 DEF Prove, ReleasesExist, At
  <2>3. proven' \subseteq 1 .. HEAD
    BY <1>0, <2>2, <1>2 DEF Prove
  <2> QED BY <1>0, <2>1, <2>3 DEF Grows
<1>3. ASSUME NEW p \in Procs, CutCommit(p) PROVE Grows
  <2>1. UNCHANGED <<tags, published, proven>> /\ dirty' \in BOOLEAN
    BY <1>3 DEF CutCommit
  <2>2. CASE commits' = Append(commits, "row")
    BY <1>0, <1>b, <2>1, <2>2 DEF Grows
  <2>3. CASE UNCHANGED commits
    BY <1>0, <2>1, <2>3 DEF Grows, HEAD, LastTag
  <2> QED BY <1>3, <2>2, <2>3 DEF CutCommit
<1>4. ASSUME NEW p \in Procs, CutTag(p) PROVE Grows
  <2>1. UNCHANGED <<commits, dirty, proven>> /\ HEAD' = HEAD
    BY <1>4 DEF CutTag, HEAD
  <2>2. CASE tags' = Append(tags, HEAD)
    <3>1. tags' \in Seq(1 .. HEAD) /\ Len(tags') = Len(tags) + 1
      BY <1>0, <2>2
    <3>2. LastTag' = LastTag + 1
      BY <3>1 DEF LastTag
    <3>3. published' \subseteq published \cup {LastTag + 1}
      BY <1>4 DEF CutTag, NextTag
    <3> QED BY <1>0, <2>1, <3>1, <3>2, <3>3 DEF Grows
  <2>3. CASE UNCHANGED <<tags, published>>
    BY <1>0, <2>1, <2>3 DEF Grows, HEAD, LastTag
  <2> QED BY <1>4, <2>2, <2>3 DEF CutTag
<1>5. CASE Land
  <2>1. UNCHANGED <<tags, published, proven>> /\ commits' = Append(commits, "work") /\ dirty' \in BOOLEAN
    BY <1>5, <1>0 DEF Land
  <2> QED BY <1>0, <1>b, <2>1 DEF Grows
<1>6. ASSUME WritePermits \/ UNCHANGED vars PROVE UNCHANGED repo
  BY <1>6 DEF WritePermits, vars, repo
<1> QED BY <1>a, <1>1, <1>2, <1>3, <1>4, <1>5, <1>6
       DEF Next, Step

\* A step is a process's, or leaves the processes, the lock and the hosts alone.
LEMMA SomeMove ==
  ASSUME TypeOK, ReleasesExist, [Next]_vars
  PROVE  (\E p \in Procs : Step(p) /\ Moves(p)) \/ UNCHANGED <<train, lock, outcome, hosts>>
<1>1. Ready
  BY TypedIsTypeOK DEF Ready, Typed
<1>2. ASSUME NEW p \in Procs, Step(p) PROVE Moves(p)
  BY <1>1, <1>2, ProcessMoves
<1>3. ASSUME Land \/ WritePermits \/ UNCHANGED vars PROVE UNCHANGED <<train, lock, outcome, hosts>>
  BY <1>3 DEF Land, WritePermits, vars
<1> QED BY <1>2, <1>3 DEF Next

LEMMA LockTyped ==
  ASSUME TypeOK, ReleasesExist, [Next]_vars
  PROVE  /\ train' \in [Procs -> RowSet]
         /\ lock' \in Trains \cup {NoTrain}
         /\ lock' # NoTrain => train'[lock'].pc \notin {"idle", "entering"}
<1>0. /\ train \in [Procs -> RowSet] /\ lock \in Trains \cup {NoTrain}
      /\ lock # NoTrain => train[lock].pc \notin {"idle", "entering"}
  BY TypedIsTypeOK DEF Typed
<1>1. ASSUME NEW p \in Procs, Moves(p), lock' \in {lock, NoTrain}, ~Enter(p)
      PROVE  lock' # NoTrain => train'[lock'].pc \notin {"idle", "entering"}
  <2>1. ASSUME lock' # NoTrain PROVE lock' \in Procs /\ train[lock'].pc \notin {"idle", "entering"}
    BY <1>0, <1>1, <2>1, Constants
  <2> QED BY <1>1, <2>1 DEF Moves, Kept, Reaches
<1>2. ASSUME NEW p \in Procs, Step(p), Moves(p)
      PROVE  /\ lock' \in Trains \cup {NoTrain}
             /\ lock' # NoTrain => train'[lock'].pc \notin {"idle", "entering"}
  <2>1. CASE Enter(p)
    <3>1. UNCHANGED lock /\ train[p].pc = "idle"
      BY <2>1 DEF Enter
    <3>2. lock # NoTrain => lock \in Procs \ {p}
      BY <1>0, <3>1, Constants
    <3> QED BY <1>0, <1>2, <3>1, <3>2 DEF Moves, Kept
  <2>2. CASE WriteLock(p)
    <3>1. lock' = p /\ p \in Trains /\ train[p].pc = "entering"
      BY <2>2 DEF WriteLock
    <3>2. ~Enter(p)
      BY <3>1 DEF Enter
    <3> QED BY <1>2, <3>1, <3>2 DEF Moves, Reaches
  <2>3. CASE ~Enter(p) /\ ~WriteLock(p)
    <3>1. lock' \in {lock, NoTrain}
      <4>1. CASE Check(p) \/ CheckPermits(p) \/ Prove(p) \/ CutCheck(p) \/ CutCommit(p)
        BY <4>1 DEF Check, CheckPermits, Prove, CutCheck, CutCommit, Leave, Unlock
      <4>2. CASE CutTag(p) \/ ConsumePermits(p) \/ StartHand(p) \/ Flip(p) \/ Bounce(p) \/ Smoke(p)
        BY <4>2 DEF CutTag, ConsumePermits, StartHand, Flip, Bounce, Smoke, Leave, Unlock
      <4>3. CASE Restore(p) \/ Return(p) \/ Report(p) \/ Die(p)
        BY <4>3 DEF Restore, Return, Report, Die, Leave, Unlock
      <4> QED BY <1>2, <2>3, <4>1, <4>2, <4>3 DEF Step
    <3> QED BY <1>0, <1>1, <1>2, <2>3, <3>1
  <2> QED BY <2>1, <2>2, <2>3
<1>3. \/ \E p \in Procs : Step(p) /\ Moves(p)
      \/ UNCHANGED <<train, lock>>
  BY SomeMove
<1> QED BY <1>0, <1>2, <1>3 DEF Moves

LEMMA PermitsTyped ==
  ASSUME TypeOK, ReleasesExist, [Next]_vars
  PROVE  permits' \in [Hosts -> PermitSet']
<1>0. permits \in [Hosts -> PermitSet] /\ HEAD \in Nat /\ LastTag \in Nat /\ Grows
  BY TypedIsTypeOK, RepoGrows DEF Typed
<1>p. PermitSet \subseteq PermitSet' /\ Void \in PermitSet'
  BY <1>0 DEF PermitSet, Void, Grows
<1>a. CASE permits' \in [Hosts -> PermitSet \cup {Void}]
  BY <1>p, <1>a
<1>1. ASSUME NEW p \in Procs,
             Enter(p) \/ WriteLock(p) \/ Check(p) \/ Prove(p) \/ CutCheck(p) \/
             CutCommit(p) \/ CutTag(p) \/ StartHand(p) \/ Flip(p)
      PROVE  permits' \in [Hosts -> PermitSet \cup {Void}]
  BY <1>1, <1>0 DEF Enter, WriteLock, Check, Prove, CutCheck, CutCommit, CutTag,
                    StartHand, Flip
<1>2. ASSUME NEW p \in Procs,
             Bounce(p) \/ Smoke(p) \/ Restore(p) \/ Return(p) \/ Report(p) \/ Die(p)
      PROVE  permits' \in [Hosts -> PermitSet \cup {Void}]
  BY <1>2, <1>0 DEF Bounce, Smoke, Restore, Return, Report, Die
<1>3. ASSUME NEW p \in Procs,
             CheckPermits(p)
      PROVE  permits' \in [Hosts -> PermitSet \cup {Void}]
  BY <1>3, <1>0 DEF CheckPermits, Lapse
<1>4. ASSUME NEW p \in Procs,
             ConsumePermits(p)
      PROVE  permits' \in [Hosts -> PermitSet \cup {Void}]
  BY <1>4, <1>0 DEF ConsumePermits, Lapse
<1>5. CASE WritePermits
  <2>1. permits' = [h \in Hosts |-> [head |-> HEAD, base |-> LastTag]]
    BY <1>5 DEF WritePermits
  <2>2. [head |-> HEAD, base |-> LastTag] \in PermitSet'
    BY <1>0 DEF PermitSet, Grows
  <2> QED BY <2>1, <2>2
<1>6. ASSUME Land \/ UNCHANGED vars PROVE permits' \in [Hosts -> PermitSet \cup {Void}]
  BY <1>6, <1>0 DEF Land, vars
<1> QED BY <1>a, <1>1, <1>2, <1>3, <1>4, <1>5, <1>6
       DEF Next, Step

LEMMA OutcomeTyped ==
  ASSUME TypeOK, ReleasesExist, [Next]_vars
  PROVE  outcome' \in [Procs -> [Hosts -> Outcomes]]
<1>0. outcome \in [Procs -> [Hosts -> Outcomes]]
  BY TypedIsTypeOK DEF Typed
<1>n. ASSUME NEW p \in Procs, NEW o \in Outcomes, Note(p, o)
      PROVE  outcome' \in [Procs -> [Hosts -> Outcomes]]
  <2>1. PICK f : /\ outcome' = [outcome EXCEPT ![p] = f]
                 /\ f \in [Hosts -> Outcomes]
    <3>1. \A S : [h \in Hosts |-> IF h = Host(p) THEN o
                                  ELSE IF h \in S THEN "skipped" ELSE outcome[p][h]]
                   \in [Hosts -> Outcomes]
      BY <1>0, <1>n DEF Outcomes
    <3>2. PICK S : outcome' = [outcome EXCEPT ![p] =
            [h \in Hosts |-> IF h = Host(p) THEN o
                             ELSE IF h \in S THEN "skipped" ELSE outcome[p][h]]]
      <4> DEFINE rest == {h \in Hosts : h > Host(p)}
                 stop == Host(p) = Canary /\ ~CanaryPassed(o)
                 S    == {h \in rest : stop}
      <4>1. outcome' = [outcome EXCEPT ![p] =
              [h \in Hosts |-> IF h = Host(p) THEN o
                               ELSE IF stop /\ h \in rest THEN "skipped" ELSE @[h]]]
        BY <1>n DEF Note
      <4>2. \A h \in Hosts : stop /\ h \in rest <=> h \in S
        OBVIOUS
      <4>3. outcome' = [outcome EXCEPT ![p] =
              [h \in Hosts |-> IF h = Host(p) THEN o
                               ELSE IF h \in S THEN "skipped" ELSE outcome[p][h]]]
        BY <1>0, <4>1, <4>2
      <4> QED BY <4>3
    <3> QED BY <3>1, <3>2
  <2> QED BY <1>0, <2>1
<1>1. ASSUME NEW p \in Procs,
             Enter(p) \/ WriteLock(p) \/ Check(p) \/ CheckPermits(p) \/ Prove(p) \/
             CutCheck(p) \/ CutCommit(p) \/ CutTag(p) \/ ConsumePermits(p)
      PROVE  outcome' \in [Procs -> [Hosts -> Outcomes]]
  BY <1>1, <1>0 DEF Enter, WriteLock, Check, CheckPermits, Prove, CutCheck, CutCommit,
                    CutTag, ConsumePermits
<1>2. ASSUME NEW p \in Procs,
             StartHand(p)
      PROVE  outcome' \in [Procs -> [Hosts -> Outcomes]]
  BY <1>2, <1>0 DEF StartHand
<1>3. ASSUME NEW p \in Procs,
             Flip(p) \/ Bounce(p) \/ Smoke(p) \/ Restore(p) \/ Return(p)
      PROVE  outcome' \in [Procs -> [Hosts -> Outcomes]]
  <2>1. UNCHANGED outcome \/ \E o \in Outcomes : Note(p, o)
    BY <1>3 DEF Flip, FlipHere, FlipThere, Bounce, Smoke, Restore, Return, Outcomes
  <2> QED BY <1>0, <1>n, <2>1
<1>4. ASSUME NEW p \in Procs,
             Report(p) \/ Die(p)
      PROVE  outcome' \in [Procs -> [Hosts -> Outcomes]]
  <2>1. outcome' = [outcome EXCEPT ![p] = [h \in Hosts |-> "none"]]
    BY <1>4 DEF Report, Die
  <2>2. [h \in Hosts |-> "none"] \in [Hosts -> Outcomes]
    BY DEF Outcomes
  <2> QED BY <1>0, <2>1, <2>2
<1>5. ASSUME Land \/ WritePermits \/ UNCHANGED vars PROVE outcome' \in [Procs -> [Hosts -> Outcomes]]
  BY <1>5, <1>0 DEF Land, WritePermits, vars
<1> QED BY <1>1, <1>2, <1>3, <1>4, <1>5
       DEF Next, Step


LEMMA HostsTyped ==
  ASSUME TypeOK, ReleasesExist, [Next]_vars
  PROVE  /\ current' \in [Hosts -> 0 .. LastTag'] /\ previous' \in [Hosts -> 0 .. LastTag']
         /\ running' \in [Hosts -> 0 .. LastTag'] /\ smoked' \subseteq 1 .. LastTag'
<1> DEFINE Links == [Hosts -> 0 .. LastTag]
           Goal  == /\ current' \in Links /\ previous' \in Links /\ running' \in Links
                    /\ smoked' \subseteq 1 .. LastTag
<1>0. /\ current \in Links /\ previous \in Links /\ running \in Links
      /\ smoked \subseteq 1 .. LastTag /\ LastTag \in Nat /\ Grows
  BY TypedIsTypeOK, RepoGrows DEF Typed
<1>h. ASSUME NEW p \in Procs, train[p].pc \in Moving
      PROVE  /\ Host(p) \in Hosts /\ Release(p) \in 1 .. LastTag /\ Release(p) \in 0 .. LastTag
  BY <1>0, <1>h DEF ReleasesExist, Host, Release
<1>m. ASSUME NEW h \in Hosts, NEW k \in 0 .. LastTag, MoveLinks(h, k)
      PROVE  current' \in Links /\ previous' \in Links
  <2>1. Saved(h, k) \in 0 .. LastTag
    BY <1>0 DEF Saved
  <2> QED BY <1>0, <1>m, <2>1 DEF MoveLinks
<1>s. ASSUME NEW h \in Hosts, Swap(h) PROVE current' \in Links /\ previous' \in Links
  BY <1>0, <1>s DEF Swap
<1>f. ASSUME NEW h \in Hosts, current' \in Links, running' \in {running, [running EXCEPT ![h] = current'[h]]}
      PROVE  running' \in Links
  BY <1>0, <1>f
<1>r. ASSUME NEW h \in Hosts, Restarts(h) PROVE running' \in Links
  BY <1>0, <1>r DEF Restarts
<1>a. CASE Goal
  <2>1. \A k \in 0 .. LastTag : k \in 0 .. LastTag'
    BY <1>0 DEF Grows
  <2>2. \A k \in 1 .. LastTag : k \in 1 .. LastTag'
    BY <1>0 DEF Grows
  <2> QED BY <1>a, <2>1, <2>2
<1> HIDE DEF Links
<1>1. ASSUME NEW p \in Procs,
             Enter(p) \/ WriteLock(p) \/ Check(p) \/ CheckPermits(p) \/ Prove(p) \/
             CutCheck(p) \/ CutCommit(p) \/ CutTag(p) \/ ConsumePermits(p) \/
             StartHand(p) \/ Report(p) \/ Die(p)
      PROVE  Goal
  BY <1>1, <1>0 DEF Enter, WriteLock, Check, CheckPermits, Prove, CutCheck, CutCommit,
                    CutTag, ConsumePermits, StartHand, Report, Die, hosts
<1>2. ASSUME NEW p \in Procs, Flip(p) PROVE Goal
  <2>1. train[p].pc \in Moving /\ UNCHANGED <<running, smoked>>
    BY <1>2 DEF Flip, At, Moving
  <2>2. LeaveLinks \/ MoveLinks(Host(p), Release(p))
    BY <1>2 DEF Flip, FlipHere, FlipThere
  <2> QED BY <1>0, <1>h, <1>m, <2>1, <2>2 DEF LeaveLinks
<1>3. ASSUME NEW p \in Procs, Bounce(p) PROVE Goal
  <2>1. train[p].pc \in Moving /\ UNCHANGED <<current, previous, smoked>>
    BY <1>3 DEF Bounce, At, Moving
  <2>2. Restarts(Host(p)) \/ UNCHANGED running
    BY <1>3 DEF Bounce
  <2> QED BY <1>0, <1>h, <1>r, <2>1, <2>2
<1>4. ASSUME NEW p \in Procs, Smoke(p) PROVE Goal
  <2>1. train[p].pc \in Moving /\ UNCHANGED <<current, previous, running>>
    BY <1>4 DEF Smoke, At, Moving
  <2>2. smoked' \subseteq smoked \cup {Release(p)}
    BY <1>4 DEF Smoke
  <2> QED BY <1>0, <1>h, <2>1, <2>2
<1>5. ASSUME NEW p \in Procs, Restore(p) PROVE Goal
  <2>1. train[p].pc \in Moving /\ UNCHANGED smoked
    BY <1>5 DEF Restore, At, Moving
  <2>2. Swap(Host(p)) \/ LeaveLinks
    BY <1>5 DEF Restore
  <2>3. running' \in {running, [running EXCEPT ![Host(p)] = current'[Host(p)]]}
    BY <1>5 DEF Restore
  <2>4. current' \in Links /\ previous' \in Links
    BY <1>0, <1>h, <1>s, <2>1, <2>2 DEF LeaveLinks
  <2> QED BY <1>0, <1>h, <1>f, <2>1, <2>3, <2>4
<1>6. ASSUME NEW p \in Procs, Return(p) PROVE Goal
  <2>1. train[p].pc \in Moving /\ UNCHANGED <<current, previous, smoked>>
    BY <1>6 DEF Return, At, Moving
  <2>2. Restarts(Host(p)) \/ UNCHANGED running
    BY <1>6 DEF Return
  <2> QED BY <1>0, <1>h, <1>r, <2>1, <2>2
<1>7. ASSUME Land \/ WritePermits \/ UNCHANGED vars PROVE Goal
  BY <1>7, <1>0 DEF Land, WritePermits, vars, hosts
<1> QED BY <1>a, <1>1, <1>2, <1>3, <1>4, <1>5, <1>6, <1>7
       DEF Next, Step

\* TypeOK is inductive beside ReleasesExist.
LEMMA TypeStep ==
  ASSUME TypeOK, ReleasesExist, [Next]_vars
  PROVE  TypeOK'
<1>1. landings' \in Nat /\ written' \in Nat /\ crashes' \in Nat
  <2>0. landings \in Nat /\ written \in Nat /\ crashes \in Nat
    BY DEF TypeOK
  <2>1. ASSUME NEW p \in Procs, Step(p), ~Die(p) PROVE UNCHANGED env
    BY <2>1 DEF Step, Enter, WriteLock, Check, CheckPermits, Prove, CutCheck, CutCommit, CutTag, ConsumePermits,
               StartHand, Flip, Bounce, Smoke, Restore, Return, Report, env
  <2>2. ASSUME NEW p \in Procs, Step(p) PROVE landings' \in Nat /\ written' \in Nat /\ crashes' \in Nat
    BY <2>0, <2>1, <2>2 DEF Die, env
  <2>3. ASSUME Land \/ WritePermits \/ UNCHANGED vars
        PROVE  landings' \in Nat /\ written' \in Nat /\ crashes' \in Nat
    <3>1. CASE Land
      BY <2>0, <3>1 DEF Land
    <3>2. CASE WritePermits
      BY <2>0, <3>2 DEF WritePermits
    <3>3. CASE UNCHANGED vars
      BY <2>0, <3>3 DEF vars, env
    <3> QED BY <2>3, <3>1, <3>2, <3>3
  <2> QED BY <2>2, <2>3 DEF Next
<1> QED BY <1>1, TypedIsTypeOK, RepoGrows, LockTyped, PermitsTyped, OutcomeTyped, HostsTyped
        DEF Typed, Grows

-----------------------------------------------------------------------------
(* The steps of a deploy.                                                  *)

\* A deploy begins on the canary.
Begins(p) ==
  /\ train'[p].pc = "flip" /\ train'[p].host = Canary /\ train'[p].base = 0
  /\ UNCHANGED <<outcome, hosts>>
  /\ \/ StartHand(p) /\ train'[p].next = LastTag
     \/ ConsumePermits(p) /\ train'[p].next = train[p].next

\* It goes on with the host that is up.
GoesOn(p) ==
  /\ train[p].pc \in Moving /\ UNCHANGED outcome
  /\ train'[p].host = train[p].host /\ train'[p].next = train[p].next
  /\ \/ /\ train'[p].base = train[p].base
        /\ \/ train'[p].pc = "bounce" /\ Flip(p) /\ MoveLinks(Host(p), Release(p))
           \/ train'[p].pc \in {"smoke", "restore"} /\ Bounce(p)
           \/ train'[p].pc = "restore" /\ Smoke(p)
     \/ /\ train'[p].pc = "return" /\ train'[p].base = previous[Host(p)]
        /\ Restore(p) /\ Swap(Host(p)) /\ UNCHANGED running

\* It notes the outcome of the host that is up.
Notes(p, o) ==
  /\ train[p].pc \in Moving /\ Note(p, o) /\ o \in {"deployed", "failed", "restored"}
  /\ o = "deployed" => Smoke(p) /\ running[Host(p)] = Release(p)
                       /\ (Host(p) = Canary => Release(p) \in smoked')
  /\ o = "restored" => Return(p) /\ running'[Host(p)] = train[p].base

LEMMA DeployMoves ==
  ASSUME Ready, NEW p \in Procs, Deploys(p), train'[p].pc \in Moving \cup {"reporting"}
  PROVE  \/ Begins(p)
         \/ GoesOn(p)
         \/ \E o \in {"deployed", "failed", "restored"} : Notes(p, o)
<1> DEFINE Goal == \/ Begins(p) \/ GoesOn(p)
                   \/ \E o \in {"deployed", "failed", "restored"} : Notes(p, o)
<1>0. train \in [Procs -> RowSet] /\ train[p] \in RowSet
  BY DEF Ready
<1>m. \A c \in {"stopped", "bounce", "smoke", "restore", "return", "flip"} : c \in Pcs
  BY DEF Pcs
<1>l. ASSUME Leave(p, "stopped") PROVE FALSE
  <2>1. train'[p] = Blank("stopped")
    BY <1>0, <1>l, <1>m, LeaveMoves
  <2> QED BY <2>1 DEF Blank, Moving
<1>g. ASSUME NEW c \in Pcs, Goto(p, c)
      PROVE  /\ train'[p].pc = c /\ train'[p].host = train[p].host
             /\ train'[p].next = train[p].next /\ train'[p].base = train[p].base
  <2>1. train'[p] = [train[p] EXCEPT !.pc = c]
    BY <1>0, <1>g, GotoMoves
  <2> QED BY <1>0, <2>1 DEF RowSet
<1>1. CASE StartHand(p)
  <2> DEFINE r == [Blank("flip") EXCEPT !.next = LastTag, !.host = Canary]
  <2>1. train'[p] = [r EXCEPT !.crowded = Inside # {}]
    BY <1>1 DEF StartHand, Joins
  <2>2. r.pc = "flip" /\ r.host = Canary /\ r.base = 0 /\ r.next = LastTag
    BY DEF Blank
  <2>3. train'[p].pc = r.pc /\ train'[p].host = r.host /\ train'[p].base = r.base
        /\ train'[p].next = r.next
    BY <2>1 DEF Blank
  <2> QED BY <1>1, <2>2, <2>3 DEF Begins, StartHand
<1>2. CASE ConsumePermits(p)
  <2>1. train' = [train EXCEPT ![p].pc = "flip", ![p].host = Canary, ![p].head = 0, ![p].base = 0]
    BY <1>2, <1>l DEF ConsumePermits
  <2>2. train'[p] = [train[p] EXCEPT !.pc = "flip", !.host = Canary, !.head = 0, !.base = 0]
    BY <1>0, <2>1
  <2>3. /\ train'[p].pc = "flip" /\ train'[p].host = Canary /\ train'[p].base = 0
        /\ train'[p].next = train[p].next
    BY <1>0, <2>2 DEF RowSet
  <2> QED BY <1>2, <2>3 DEF Begins, ConsumePermits
<1>3. CASE Flip(p)
  <2>1. train[p].pc \in Moving
    BY <1>3 DEF Flip, At, Moving
  <2>2. \/ Goto(p, "bounce") /\ UNCHANGED outcome /\ MoveLinks(Host(p), Release(p))
        \/ Note(p, "failed")
    BY <1>3 DEF Flip, FlipHere, FlipThere
  <2> QED BY <1>3, <2>1, <2>2, <1>g, <1>m DEF GoesOn, Notes
<1>4. CASE Bounce(p)
  <2>1. train[p].pc \in Moving
    BY <1>4 DEF Bounce, At, Moving
  <2>2. \/ (Goto(p, "smoke") \/ Goto(p, "restore")) /\ UNCHANGED outcome
        \/ Note(p, "failed")
    BY <1>4 DEF Bounce
  <2> QED BY <1>4, <2>1, <2>2, <1>g, <1>m DEF GoesOn, Notes
<1>5. CASE Smoke(p)
  <2>1. train[p].pc \in Moving
    BY <1>5 DEF Smoke, At, Moving
  <2>2. \/ /\ Note(p, "deployed") /\ running[Host(p)] = Release(p)
           /\ Host(p) = Canary => Release(p) \in smoked'
        \/ Goto(p, "restore") /\ UNCHANGED outcome
        \/ Note(p, "failed")
    BY <1>5 DEF Smoke
  <2> QED BY <1>5, <2>1, <2>2, <1>g, <1>m DEF GoesOn, Notes
<1>6. CASE Restore(p)
  <2>1. train[p].pc \in Moving
    BY <1>6 DEF Restore, At, Moving
  <2>2. CASE Note(p, "failed")
    BY <2>1, <2>2 DEF Notes
  <2>3. CASE /\ train' = [train EXCEPT ![p].pc = "return", ![p].base = previous[Host(p)]]
             /\ Swap(Host(p)) /\ UNCHANGED <<running, outcome>>
    <3>1. train'[p] = [train[p] EXCEPT !.pc = "return", !.base = previous[Host(p)]]
      BY <1>0, <2>3
    <3>2. /\ train'[p].pc = "return" /\ train'[p].base = previous[Host(p)]
          /\ train'[p].host = train[p].host /\ train'[p].next = train[p].next
      BY <1>0, <3>1 DEF RowSet
    <3> QED BY <1>6, <2>1, <2>3, <3>2 DEF GoesOn
  <2> QED BY <1>6, <2>2, <2>3 DEF Restore
<1>7. CASE Return(p)
  <2>1. train[p].pc \in Moving
    BY <1>7 DEF Return, At, Moving
  <2>2. \/ Note(p, "restored") /\ running'[Host(p)] = train[p].base
        \/ Note(p, "failed")
    BY <1>7 DEF Return
  <2> QED BY <1>7, <2>1, <2>2 DEF Notes
<1> QED BY <1>1, <1>2, <1>3, <1>4, <1>5, <1>6, <1>7 DEF Deploys

LEMMA ExistStep ==
  ASSUME TypeOK, ReleasesExist, [Next]_vars
  PROVE  ReleasesExist'
<1> DEFINE Fine(q) ==
      /\ train'[q].pc = "proving" => train'[q].next \in 1 .. HEAD'
      /\ train'[q].pc = "pushed" => train'[q].next \in 1 .. LastTag'
      /\ train'[q].pc \in Moving =>
           /\ train'[q].host \in Hosts /\ train'[q].base \in 0 .. LastTag'
           /\ train'[q].next \in 1 .. LastTag'
<1>0. Ready /\ Grows /\ previous \in [Hosts -> 0 .. LastTag] /\ LastTag >= 1 /\ HEAD >= 1
  BY TypedIsTypeOK, RepoGrows DEF Typed, Ready, ReleasesExist
<1>1. HEAD' \in Nat /\ LastTag' \in Nat /\ HEAD' >= HEAD /\ LastTag' >= LastTag
      /\ HEAD \in Nat /\ LastTag \in Nat
  BY <1>0 DEF Grows, Ready
<1>2. \A n : /\ n \in 1 .. HEAD => n \in 1 .. HEAD'
             /\ n \in 1 .. LastTag => n \in 1 .. LastTag'
             /\ n \in 0 .. LastTag => n \in 0 .. LastTag'
  BY <1>1
<1>3. ASSUME NEW q \in Procs, Kept(q) PROVE Fine(q)
  BY <1>2, <1>3 DEF Kept, ReleasesExist, At
<1>4. ASSUME NEW p \in Procs, Step(p), Moves(p) PROVE Fine(p)
  <2>1. CASE train'[p].pc = "proving"
    <3>1. CheckPermits(p)
      BY <1>4, <2>1 DEF Moves, Reaches
    <3>2. train'[p].next = HEAD
      <4>1. CASE Leave(p, "stopped")
        <5>1. train'[p] = Blank("stopped")
          BY <4>1 DEF Leave
        <5> QED BY <2>1, <5>1 DEF Blank
      <4>2. CASE train' = [train EXCEPT ![p].pc = "proving", ![p].next = HEAD]
        <5>1. train'[p] = [train[p] EXCEPT !.pc = "proving", !.next = HEAD] /\ train[p] \in RowSet
          BY <1>0, <4>2 DEF Ready
        <5> QED BY <5>1 DEF RowSet
      <4> QED BY <3>1, <4>1, <4>2 DEF CheckPermits
    <3> QED BY <1>0, <1>1, <2>1, <3>2 DEF Moving
  <2>2. CASE train'[p].pc = "pushed"
    <3>1. CutTag(p)
      BY <1>4, <2>2 DEF Moves, Reaches
    <3>2. CASE Leave(p, "stopped")
      <4>1. train'[p] = Blank("stopped")
        BY <3>2 DEF Leave
      <4> QED BY <2>2, <4>1 DEF Blank
    <3>3. CASE Goto(p, "pushed") /\ train[p].next = LastTag + 1 /\ tags' = Append(tags, HEAD)
      <4>1. train'[p] = [train[p] EXCEPT !.pc = "pushed"] /\ train[p] \in RowSet
        BY <1>0, <3>3 DEF Ready, Goto
      <4>2. train'[p].next = LastTag + 1
        BY <3>3, <4>1 DEF RowSet
      <4>3. LastTag' = LastTag + 1
        BY <3>3, TypedIsTypeOK DEF Typed, LastTag
      <4> QED BY <1>1, <2>2, <4>2, <4>3 DEF Moving
    <3> QED BY <3>1, <3>2, <3>3 DEF CutTag, NextTag
  <2>3. CASE train'[p].pc \in Moving
    <3>1. Deploys(p)
      BY <1>4, <2>3 DEF Moves, Reaches
    <3>2. CASE Begins(p)
      <4>1. train'[p].next \in 1 .. LastTag
        <5>1. CASE StartHand(p) /\ train'[p].next = LastTag
          BY <1>0, <1>1, <5>1
        <5>2. CASE ConsumePermits(p) /\ train'[p].next = train[p].next
          BY <5>2 DEF ConsumePermits, ReleasesExist, At
        <5> QED BY <3>2, <5>1, <5>2 DEF Begins
      <4> QED BY <1>1, <1>2, <2>3, <3>2, <4>1, Constants DEF Begins, Moving
    <3>3. CASE GoesOn(p)
      <4>1. train[p].pc \in Moving /\ Host(p) \in Hosts /\ previous[Host(p)] \in 0 .. LastTag
        BY <1>0, <3>3 DEF GoesOn, ReleasesExist, Host
      <4> QED BY <1>2, <2>3, <3>3, <4>1 DEF GoesOn, ReleasesExist, Moving
    <3>4. ASSUME NEW o, Notes(p, o) PROVE Fine(p)
      <4>1. train[p].pc \in Moving /\ train[p].host \in Hosts /\ train[p].next \in 1 .. LastTag
        BY <3>4 DEF Notes, ReleasesExist
      <4>2. train'[p].base = 0 /\ train'[p].next = train[p].next
            /\ (train'[p].pc = "flip" => train'[p].host \in Hosts)
            /\ train'[p].pc \in {"flip", "reporting"}
        BY <1>0, <3>4, <4>1, NoteMoves DEF Notes, Ready
      <4> QED BY <1>1, <1>2, <4>1, <4>2 DEF Moving
    <3> QED BY <1>0, <2>3, <3>1, <3>2, <3>3, <3>4, DeployMoves
  <2> QED BY <2>1, <2>2, <2>3 DEF Moving
<1>5. \A q \in Procs : Fine(q)
  <2>1. CASE UNCHANGED train
    BY <1>2, <2>1 DEF ReleasesExist, At
  <2> QED BY <2>1, <1>3, <1>4, SomeMove DEF Moves
<1>6. LastTag' >= 1 /\ HEAD' >= 1
  BY <1>0, <1>1
<1> QED BY <1>5, <1>6 DEF ReleasesExist, At

-----------------------------------------------------------------------------
(* The lock.                                                               *)

LEMMA LockStep ==
  ASSUME TypeOK, ReleasesExist, LockIsOwn, [Next]_vars
  PROVE  LockIsOwn'
<1>0. train \in [Procs -> RowSet] /\ train' \in [Procs -> RowSet] /\ Ready
  BY TypedIsTypeOK, LockTyped DEF Typed, Ready
<1>c. Trains \subseteq Procs /\ NoTrain \notin Trains /\ Trains \cap Hands = {}
  BY Constants
<1>i. /\ \A q \in Procs : q \in Inside <=> train[q].pc \in InsidePcs
      /\ \A q \in Procs : q \in Inside' <=> train'[q].pc \in InsidePcs
  BY <1>0, InsideIsPc, InsideIsPcNext
<1>k. ASSUME NEW q \in Procs, Kept(q)
      PROVE  /\ q \in Inside' <=> q \in Inside
             /\ train'[q].pc = train[q].pc /\ (train[q].raced => train'[q].raced)
  BY <1>i, <1>k DEF Kept
<1>1. ASSUME NEW p \in Procs, Moves(p), Enter(p) PROVE LockIsOwn'
  <2>1. UNCHANGED lock /\ train'[p].pc \in {"entering", "stopped"} /\ p \in Trains
    BY <1>0, <1>1, GotoMoves DEF Enter, Goto, RowSet
  <2>2. p \notin Inside'
    BY <1>i, <2>1 DEF InsidePcs
  <2>3. ASSUME NEW t \in Trains, t \in Inside', ~train'[t].raced PROVE lock' = t
    <3>1. t # p /\ t \in Procs
      BY <1>c, <2>2, <2>3
    <3>2. t \in Inside /\ ~train[t].raced
      BY <1>1, <1>k, <2>3, <3>1 DEF Moves
    <3> QED BY <2>1, <3>2 DEF LockIsOwn
  <2>4. ASSUME NEW t \in Trains, NEW u \in Trains, train'[t].pc = "entering", ~train'[t].raced,
               u \in Inside'
        PROVE  train'[u].raced
    <3>1. u # p /\ u \in Procs /\ u \in Inside /\ (train[u].raced => train'[u].raced)
      BY <1>1, <1>c, <1>k, <2>2, <2>4 DEF Moves
    <3>2. CASE t = p
      <4>1. ~HeldByOther(p)
        <5>1. ASSUME HeldByOther(p) PROVE FALSE
          <6>1. Goto(p, "stopped")
            BY <1>1, <5>1 DEF Enter
          <6>2. train'[p].pc = "stopped"
            BY <1>0, <6>1 DEF Goto, RowSet
          <6> QED BY <2>4, <3>2, <6>2
        <5> QED BY <5>1
      <4>2. lock # u
        BY <1>c, <1>i, <3>1, <4>1 DEF HeldByOther, Ended, InsidePcs
      <4> QED BY <3>1, <4>2 DEF LockIsOwn
    <3>3. CASE t # p
      <4>1. train[t].pc = "entering" /\ ~train[t].raced
        BY <1>1, <1>c, <1>k, <2>4, <3>3 DEF Moves
      <4> QED BY <3>1, <4>1 DEF LockIsOwn, At
    <3> QED BY <3>2, <3>3
  <2> QED BY <2>3, <2>4 DEF LockIsOwn, At
<1>2. ASSUME NEW p \in Procs, Moves(p), WriteLock(p) PROVE LockIsOwn'
  <2> DEFINE r == [Blank("locked") EXCEPT !.raced = train[p].raced]
  <2>1. p \in Trains /\ lock' = p /\ train[p].pc = "entering" /\ Joins(p, r)
    BY <1>2 DEF WriteLock
  <2>2. r.raced = train[p].raced
    BY DEF Blank
  <2>3. ASSUME NEW t \in Trains, t \in Inside', ~train'[t].raced PROVE lock' = t
    <3>1. CASE t = p
      BY <2>1, <3>1
    <3>2. CASE t # p
      <4>1. t \in Procs /\ t \in Inside /\ ~train[t].raced
        BY <1>2, <1>c, <1>k, <2>3, <3>2 DEF Moves
      <4>2. lock = t
        BY <4>1 DEF LockIsOwn
      <4>3. train'[t].raced = (train[t].raced \/ (r.raced /\ Holds(t)))
        <5>1. train'[t] = [train[t] EXCEPT !.crowded = TRUE,
                                          !.raced = train[t].raced \/ (r.raced /\ Holds(t))]
          BY <2>1, <3>2, <4>1 DEF Joins
        <5>2. train[t] \in RowSet
          BY <1>0, <4>1
        <5> HIDE DEF r
        <5> QED BY <5>1, <5>2 DEF RowSet
      <4>4. ~train[p].raced
        BY <2>2, <2>3, <4>1, <4>2, <4>3 DEF Holds
      <4> QED BY <2>1, <4>1, <4>4 DEF LockIsOwn, At
    <3> QED BY <3>1, <3>2
  <2>4. ASSUME NEW t \in Trains, train'[t].pc = "entering", ~train'[t].raced PROVE FALSE
    <3>1. t # p
      <4>1. train'[p] = [r EXCEPT !.crowded = Inside # {}]
        BY <2>1 DEF Joins
      <4>2. train'[p].pc = "locked"
        BY <4>1 DEF Blank
      <4> QED BY <2>4, <4>2
    <3>2. train[t].pc = "entering" /\ t \in Procs /\ t \notin Inside
      BY <1>2, <1>c, <1>i, <1>k, <2>4, <3>1 DEF Moves, InsidePcs
    <3>3. train'[t] = [train[t] EXCEPT !.raced = train[t].raced \/ p \in Trains]
      BY <2>1, <3>1, <3>2 DEF Joins, At
    <3> QED BY <1>0, <2>1, <2>4, <3>2, <3>3 DEF RowSet
  <2> QED BY <2>3, <2>4 DEF LockIsOwn, At
<1>3. ASSUME NEW p \in Procs, Moves(p), Step(p), ~Enter(p), ~WriteLock(p) PROVE LockIsOwn'
  <2>1. ASSUME NEW t \in Trains, t \in Inside'
        PROVE  t \in Inside /\ (train[t].raced => train'[t].raced)
    <3>1. CASE t # p
      BY <1>3, <1>c, <1>k, <2>1, <3>1 DEF Moves
    <3>2. CASE t = p
      <4>1. Unmarked(p)
        BY <1>3, <1>c, <3>2 DEF Moves, StartHand
      <4> QED BY <2>1, <3>2, <4>1 DEF Unmarked
    <3> QED BY <3>1, <3>2
  <2>2. ASSUME NEW t \in Trains, train'[t].pc = "entering"
        PROVE  train[t].pc = "entering" /\ (train[t].raced => train'[t].raced)
    <3>1. t # p
      BY <1>3, <2>2 DEF Moves, Reaches
    <3> QED BY <1>3, <1>c, <1>k, <2>2, <3>1 DEF Moves
  <2>3. \/ UNCHANGED lock
        \/ p \in Inside \cap Trains /\ \E how \in {"released", "stopped"} : Leave(p, how)
    <3>1. CASE Check(p) \/ CheckPermits(p) \/ Prove(p) \/ CutCheck(p) \/ CutCommit(p)
               \/ CutTag(p) \/ ConsumePermits(p) \/ Report(p)
      <4>1. train[p].pc \in InsidePcs
        BY <3>1 DEF Check, CheckPermits, Prove, CutCheck, CutCommit, CutTag, ConsumePermits,
                    Report, At, InsidePcs, Pcs
      <4>2. UNCHANGED lock \/ \E how \in {"released", "stopped"} : Leave(p, how)
        BY <3>1 DEF Check, CheckPermits, Prove, CutCheck, CutCommit, CutTag, ConsumePermits, Report
      <4>3. ASSUME NEW how, Leave(p, how), p \notin Trains PROVE UNCHANGED lock
        BY <4>3 DEF Leave, Unlock
      <4> QED BY <1>i, <4>1, <4>2, <4>3
    <3>2. CASE StartHand(p) \/ Flip(p) \/ Bounce(p) \/ Smoke(p) \/ Restore(p) \/ Return(p) \/ Die(p)
      BY <3>2 DEF StartHand, Flip, Bounce, Smoke, Restore, Return, Die
    <3> QED BY <1>3, <3>1, <3>2 DEF Step
  <2>4. ASSUME NEW t \in Trains, t \in Inside', ~train'[t].raced PROVE lock' = t
    <3>1. t \in Inside /\ ~train[t].raced /\ lock = t
      BY <2>1, <2>4 DEF LockIsOwn
    <3>2. CASE UNCHANGED lock
      BY <3>1, <3>2
    <3>3. ASSUME p \in Inside \cap Trains, NEW how \in {"released", "stopped"}, Leave(p, how)
          PROVE  FALSE
      <4>1. t # p /\ t \in Procs
        <5>1. train'[p] = Blank(how)
          BY <3>3 DEF Leave
        <5>2. p \notin Inside'
          BY <1>i, <3>3, <5>1 DEF Blank, InsidePcs
        <5> QED BY <1>c, <2>4, <5>2
      <4>2. train[p].raced
        BY <3>1, <3>3, <4>1 DEF LockIsOwn
      <4>3. train'[t] = [train[t] EXCEPT !.raced = train[t].raced \/ (train[p].raced /\ Holds(t))]
        BY <3>3, <4>1 DEF Leave
      <4> QED BY <1>0, <2>4, <3>1, <4>1, <4>2, <4>3 DEF Holds, RowSet
    <3> QED BY <2>3, <3>2, <3>3
  <2> QED BY <2>1, <2>2, <2>4 DEF LockIsOwn, At
<1>4. CASE UNCHANGED <<train, lock>>
  <2>1. \A t \in Trains : train'[t] = train[t] /\ (t \in Inside' <=> t \in Inside)
    BY <1>4, <1>c, <1>i
  <2> QED BY <1>4, <2>1 DEF LockIsOwn, At
<1> QED BY <1>1, <1>2, <1>3, <1>4, SomeMove

LEMMA AloneStep ==
  ASSUME TypeOK, ReleasesExist, Alone, [Next]_vars
  PROVE  Alone'
<1>0. train \in [Procs -> RowSet] /\ train' \in [Procs -> RowSet]
  BY TypedIsTypeOK, LockTyped DEF Typed
<1>i. /\ \A q \in Procs : q \in Inside <=> train[q].pc \in InsidePcs
      /\ \A q \in Procs : q \in Inside' <=> train'[q].pc \in InsidePcs
      /\ Inside \subseteq Procs /\ Inside' \subseteq Procs
  BY <1>0, InsideIsPc, InsideIsPcNext
<1>1. ASSUME \A q \in Inside' : q \in Inside /\ (train[q].crowded => train'[q].crowded)
      PROVE  Alone'
  <2>1. ASSUME NEW q \in Inside', ~train'[q].crowded PROVE Inside' = {q}
    <3>1. Inside = {q}
      BY <1>1, <2>1 DEF Alone
    <3> QED BY <1>1, <2>1, <3>1
  <2> QED BY <2>1 DEF Alone
<1>2. ASSUME NEW p \in Procs, NEW r \in RowSet, Joins(p, r), p \notin Inside PROVE Alone'
  <2>1. train'[p] = [r EXCEPT !.crowded = Inside # {}]
    BY <1>2 DEF Joins
  <2>2. train'[p].crowded = (Inside # {})
    BY <1>2, <2>1 DEF RowSet
  <2>3. \A q \in Procs \ {p} : Kept(q)
    BY <1>0, <1>2, JoinMoves
  <2>4. \A q \in Inside' \ {p} : q \in Inside
    BY <1>i, <2>3 DEF Kept
  <2>5. ASSUME NEW q \in Inside' \ {p} PROVE train'[q].crowded
    <3>1. q \in Inside /\ q \in Procs /\ q # p
      BY <1>i, <2>4, <2>5
    <3>2. PICK b \in BOOLEAN : train'[q] = [train[q] EXCEPT !.crowded = TRUE, !.raced = b]
      BY <1>0, <1>2, <3>1, RowWritten DEF Joins
    <3>3. train[q] \in RowSet
      BY <1>0, <3>1
    <3> QED BY <3>2, <3>3 DEF RowSet
  <2>6. ASSUME ~train'[p].crowded, p \in Inside' PROVE Inside' = {p}
    BY <2>2, <2>4, <2>6
  <2> QED BY <2>5, <2>6 DEF Alone
<1>3. ASSUME NEW p \in Procs, Step(p), Moves(p) PROVE Alone'
  <2>1. CASE WriteLock(p) \/ StartHand(p)
    <3>1. p \notin Inside
      BY <1>i, <2>1 DEF WriteLock, StartHand, At, InsidePcs
    <3>3. ASSUME NEW r \in RowSet, Joins(p, r) PROVE Alone'
      BY <1>2, <3>1, <3>3
    <3>4. CASE WriteLock(p)
      <4>1. Blank("locked") \in RowSet /\ train[p].raced \in BOOLEAN
        BY <1>0, RowWritten DEF Pcs
      <4>2. [Blank("locked") EXCEPT !.raced = train[p].raced] \in RowSet
        BY <4>1, RowMarked
      <4> QED BY <3>3, <3>4, <4>2 DEF WriteLock
    <3>5. CASE StartHand(p)
      <4>1. [Blank("flip") EXCEPT !.next = LastTag, !.host = Canary] \in RowSet
        <5>1. Blank("flip") \in RowSet
          BY RowWritten DEF Pcs
        <5>2. Canary \in 0 .. HostCount /\ LastTag \in Nat
          BY Constants, TypedIsTypeOK DEF Hosts, Typed
        <5>3. \A b \in RowSet, n \in Nat, h \in 0 .. HostCount :
                [b EXCEPT !.next = n, !.host = h] \in RowSet
          BY DEF RowSet
        <5> QED BY <5>1, <5>2, <5>3
      <4> QED BY <3>3, <3>5, <4>1 DEF StartHand
    <3> QED BY <2>1, <3>4, <3>5
  <2>2. CASE Unmarked(p)
    <3>1. \A q \in Inside' : q \in Inside /\ (train[q].crowded => train'[q].crowded)
      BY <1>3, <1>i, <2>2 DEF Moves, Kept, Unmarked
    <3> QED BY <1>1, <3>1
  <2> QED BY <1>3, <2>1, <2>2 DEF Moves
<1>4. CASE UNCHANGED train
  <2>1. \A q \in Inside' : q \in Inside /\ (train[q].crowded => train'[q].crowded)
    BY <1>4, <1>i
  <2> QED BY <1>1, <2>1
<1> QED BY <1>3, <1>4, SomeMove

-----------------------------------------------------------------------------
(* The hosts and what is noted of them.                                    *)

LEMMA NoteOutcome ==
  ASSUME outcome \in [Procs -> [Hosts -> Outcomes]], NEW p \in Procs, NEW o, Note(p, o)
  PROVE  /\ \A q \in Procs \ {p} : outcome'[q] = outcome[q]
         /\ outcome'[p][Host(p)] = o \/ Host(p) \notin Hosts
         /\ \A h \in Hosts \ {Host(p)} :
              IF Host(p) = Canary /\ ~CanaryPassed(o) /\ h > Host(p)
                THEN outcome'[p][h] = "skipped" ELSE outcome'[p][h] = outcome[p][h]
<1> DEFINE rest == {h \in Hosts : h > Host(p)}
           stop == Host(p) = Canary /\ ~CanaryPassed(o)
<1>1. outcome' = [outcome EXCEPT ![p] =
        [h \in Hosts |-> IF h = Host(p) THEN o
                         ELSE IF stop /\ h \in rest THEN "skipped" ELSE @[h]]]
  BY DEF Note
<1>2. outcome'[p] = [h \in Hosts |-> IF h = Host(p) THEN o
                       ELSE IF stop /\ h \in rest THEN "skipped" ELSE outcome[p][h]]
  BY <1>1
<1>3. \A q \in Procs \ {p} : outcome'[q] = outcome[q]
  BY <1>1
<1> QED BY <1>2, <1>3

\* A process notes what it did itself.
LEMMA OutcomeKept ==
  ASSUME outcome \in [Procs -> [Hosts -> Outcomes]], NEW p \in Procs, Step(p)
  PROVE  \A q \in Procs \ {p} : outcome'[q] = outcome[q]
<1>1. CASE \E o \in Outcomes : Note(p, o)
  BY <1>1, NoteOutcome
<1>2. CASE Flip(p) \/ Bounce(p) \/ Smoke(p) \/ Restore(p) \/ Return(p)
  <2>1. UNCHANGED outcome \/ \E o \in Outcomes : Note(p, o)
    BY <1>2 DEF Flip, FlipHere, FlipThere, Bounce, Smoke, Restore, Return, Outcomes
  <2> QED BY <1>1, <2>1
<1>3. CASE Report(p) \/ Die(p)
  BY <1>3 DEF Report, Die
<1>4. CASE Enter(p) \/ WriteLock(p) \/ Check(p) \/ CheckPermits(p) \/ Prove(p) \/ CutCheck(p)
           \/ CutCommit(p) \/ CutTag(p) \/ ConsumePermits(p) \/ StartHand(p)
  BY <1>4 DEF Enter, WriteLock, Check, CheckPermits, Prove, CutCheck, CutCommit, CutTag,
              ConsumePermits, StartHand
<1> QED BY <1>2, <1>3, <1>4 DEF Step

\* Nobody moves the hosts of a process that noted nobody beside it.
LEMMA AloneKeepsHosts ==
  ASSUME TypeOK, ReleasesExist, Alone, NEW p \in Procs, Step(p), Moves(p),
         NEW q \in Procs \ {p}, q \in Inside', ~train'[q].crowded
  PROVE  UNCHANGED hosts /\ q \in Inside /\ ~train[q].crowded
<1>0. train \in [Procs -> RowSet] /\ train' \in [Procs -> RowSet]
  BY TypedIsTypeOK, LockTyped DEF Typed, Moves
<1>i. /\ \A r \in Procs : r \in Inside <=> train[r].pc \in InsidePcs
      /\ \A r \in Procs : r \in Inside' <=> train'[r].pc \in InsidePcs
  BY <1>0, InsideIsPc, InsideIsPcNext
<1>1. q \in Inside /\ ~train[q].crowded
  BY <1>i DEF Moves, Kept
<1>2. p \notin Inside
  BY <1>1 DEF Alone
<1>3. train[p].pc \notin InsidePcs
  BY <1>2, <1>i
<1>4. Enter(p) \/ WriteLock(p) \/ StartHand(p) \/ Die(p)
  BY <1>3 DEF Step, Check, CheckPermits, Prove, CutCheck, CutCommit, CutTag, ConsumePermits,
              Flip, Bounce, Smoke, Restore, Return, Report, At, InsidePcs, Pcs
<1> QED BY <1>1, <1>2, <1>4 DEF Enter, WriteLock, StartHand, Die

LEMMA FleetStep ==
  ASSUME TypeOK, ReleasesExist, FleetFollows, [Next]_vars
  PROVE  FleetFollows'
<1> DEFINE Behind(q) == train'[q].pc \in Moving /\ train'[q].host # Canary
                          => train'[q].next \in smoked'
           Seen(h) == {current'[h], previous'[h]} \subseteq smoked' \cup {0}
<1>0. /\ Ready /\ train \in [Procs -> RowSet]
      /\ current \in [Hosts -> 0 .. LastTag] /\ previous \in [Hosts -> 0 .. LastTag]
  BY TypedIsTypeOK DEF Typed, Ready
<1>s. smoked \subseteq smoked'
  <2>1. ASSUME NEW p \in Procs, Smoke(p) PROVE smoked \subseteq smoked'
    BY <2>1 DEF Smoke
  <2>2. ASSUME NEW p \in Procs, Step(p), ~Smoke(p) PROVE UNCHANGED smoked
    BY <2>2 DEF Step, hosts, Enter, WriteLock, Check, CheckPermits, Prove, CutCheck, CutCommit, CutTag,
             ConsumePermits, StartHand, Flip, Bounce, Restore, Return, Report, Die
  <2>3. ASSUME Land \/ WritePermits \/ UNCHANGED vars PROVE UNCHANGED smoked
    BY <2>3 DEF Land, WritePermits, vars, hosts
  <2> QED BY <2>1, <2>2, <2>3 DEF Next
<1>k. ASSUME NEW q \in Procs, Kept(q) PROVE Behind(q)
  BY <1>k, <1>s DEF Kept, FleetFollows, Host, Release
<1>1. ASSUME NEW p \in Procs, Step(p), Moves(p) PROVE Behind(p)
  <2> SUFFICES ASSUME train'[p].pc \in Moving, train'[p].host # Canary
               PROVE  train'[p].next \in smoked'
    OBVIOUS
  <2>1. Deploys(p)
    BY <1>1 DEF Moves, Reaches
  <2>2. CASE Begins(p)
    BY <2>2 DEF Begins
  <2>3. CASE GoesOn(p)
    BY <1>s, <2>3 DEF GoesOn, FleetFollows, Host, Release
  <2>4. ASSUME NEW o, Notes(p, o) PROVE train'[p].next \in smoked'
    <3>1. train[p].pc \in Moving /\ train[p].host \in Hosts
      BY <2>4 DEF Notes, ReleasesExist
    <3>2. train'[p].next = Release(p) /\ (Host(p) = Canary => CanaryPassed(o))
      BY <1>0, <2>4, <3>1, NoteMoves DEF Notes, Moving, Release
    <3>3. CASE Host(p) = Canary
      BY <2>4, <3>2, <3>3 DEF Notes, CanaryPassed
    <3>4. CASE Host(p) # Canary
      BY <1>s, <3>1, <3>2, <3>4 DEF FleetFollows
    <3> QED BY <3>3, <3>4
  <2> QED BY <1>0, <2>1, <2>2, <2>3, <2>4, DeployMoves
<1>2. ASSUME NEW p \in Procs, Step(p), NEW h \in Hosts \ {Canary} PROVE Seen(h)
  <2>0. {current[h], previous[h]} \subseteq smoked' \cup {0}
    BY <1>s DEF FleetFollows
  <2>1. CASE UNCHANGED <<current, previous>>
    BY <2>0, <2>1
  <2>2. CASE train[p].pc \in Moving /\ MoveLinks(Host(p), Release(p))
    <3>1. current'[h] = current[h] \/ (h = Host(p) /\ current'[h] = Release(p))
      BY <1>0, <2>2 DEF MoveLinks
    <3>2. previous'[h] \in {current[h], previous[h]}
      BY <1>0, <2>2 DEF MoveLinks, Saved
    <3>3. h = Host(p) => Release(p) \in smoked'
      BY <1>s, <2>2 DEF FleetFollows
    <3> QED BY <2>0, <3>1, <3>2, <3>3
  <2>3. CASE Swap(Host(p))
    <3>1. current'[h] \in {current[h], previous[h]} /\ previous'[h] \in {current[h], previous[h]}
      BY <1>0, <2>3 DEF Swap
    <3> QED BY <2>0, <3>1
  <2>4. \/ UNCHANGED <<current, previous>>
        \/ train[p].pc \in Moving /\ MoveLinks(Host(p), Release(p))
        \/ Swap(Host(p))
    <3>1. CASE Flip(p)
      BY <3>1 DEF Flip, FlipHere, FlipThere, At, Moving, LeaveLinks
    <3>2. CASE Restore(p)
      BY <3>2 DEF Restore, LeaveLinks
    <3>3. CASE ~Flip(p) /\ ~Restore(p)
      BY <1>2, <3>3 DEF Step, hosts, Enter, WriteLock, Check, CheckPermits, Prove, CutCheck, CutCommit, CutTag,
             ConsumePermits, StartHand, Bounce, Smoke, Return, Report, Die
    <3> QED BY <3>1, <3>2, <3>3
  <2> QED BY <2>1, <2>2, <2>3, <2>4
<1>3. CASE UNCHANGED <<train, hosts>>
  BY <1>3 DEF FleetFollows, Host, Release, hosts
<1>4. ASSUME NEW p \in Procs, Step(p), Moves(p) PROVE FleetFollows'
  <2>1. \A q \in Procs : Behind(q)
    BY <1>k, <1>1, <1>4 DEF Moves
  <2>2. \A h \in Hosts \ {Canary} : Seen(h)
    BY <1>2, <1>4
  <2> QED BY <2>1, <2>2 DEF FleetFollows, Host, Release
<1> QED BY <1>3, <1>4, SomeMove

LEMMA LinksStep ==
  ASSUME TypeOK, ReleasesExist, Alone, LinksAreIts, [Next]_vars
  PROVE  LinksAreIts'
<1> DEFINE Its(q) == ~train'[q].crowded =>
      /\ train'[q].pc \in {"bounce", "smoke", "restore"} => current'[train'[q].host] = train'[q].next
      /\ train'[q].pc = "return" =>
           current'[train'[q].host] = train'[q].base /\ train'[q].base # train'[q].next
<1>0. /\ Ready /\ train \in [Procs -> RowSet] /\ train' \in [Procs -> RowSet]
      /\ current \in [Hosts -> 0 .. LastTag] /\ previous \in [Hosts -> 0 .. LastTag]
  BY TypedIsTypeOK, LockTyped DEF Typed, Ready
<1>i. \A q \in Procs : q \in Inside' <=> train'[q].pc \in InsidePcs
  BY <1>0, InsideIsPcNext
<1>1. ASSUME NEW p \in Procs, Step(p), NEW h \in Hosts PROVE current'[h] # previous'[h]
  <2>0. current[h] # previous[h]
    BY DEF LinksAreIts
  <2>1. CASE UNCHANGED <<current, previous>>
    BY <2>0, <2>1
  <2>2. CASE MoveLinks(Host(p), Release(p))
    BY <1>0, <2>0, <2>2 DEF MoveLinks, Saved
  <2>3. CASE Swap(Host(p))
    BY <1>0, <2>0, <2>3 DEF Swap
  <2>4. \/ UNCHANGED <<current, previous>> \/ MoveLinks(Host(p), Release(p))
        \/ Swap(Host(p))
    <3>1. CASE Flip(p)
      BY <3>1 DEF Flip, FlipHere, FlipThere, LeaveLinks
    <3>2. CASE Restore(p)
      BY <3>2 DEF Restore, LeaveLinks
    <3>3. CASE ~Flip(p) /\ ~Restore(p)
      BY <1>1, <3>3 DEF Step, hosts, Enter, WriteLock, Check, CheckPermits, Prove, CutCheck, CutCommit, CutTag,
             ConsumePermits, StartHand, Bounce, Smoke, Return, Report, Die
    <3> QED BY <3>1, <3>2, <3>3
  <2> QED BY <2>1, <2>2, <2>3, <2>4
<1>2. ASSUME NEW p \in Procs, Step(p), Moves(p), NEW q \in Procs \ {p} PROVE Its(q)
  <2> SUFFICES ASSUME ~train'[q].crowded,
                      train'[q].pc \in {"bounce", "smoke", "restore", "return"}
               PROVE  Its(q)
    OBVIOUS
  <2>1. q \in Inside'
    BY <1>i DEF InsidePcs, Pcs
  <2>2. UNCHANGED hosts /\ ~train[q].crowded
    BY <1>2, <2>1, AloneKeepsHosts
  <2> QED BY <1>2, <2>2 DEF Moves, Kept, LinksAreIts, Host, Release, At, hosts
<1>3. ASSUME NEW p \in Procs, Step(p), Moves(p) PROVE Its(p)
  <2> SUFFICES ASSUME ~train'[p].crowded,
                      train'[p].pc \in {"bounce", "smoke", "restore", "return"}
               PROVE  Its(p)
    OBVIOUS
  <2>1. Deploys(p)
    BY <1>3 DEF Moves, Reaches, Moving
  <2>2. GoesOn(p)
    <3>1. ~Begins(p)
      BY DEF Begins
    <3>2. ASSUME NEW o, Notes(p, o) PROVE FALSE
      <4>1. train'[p].pc \in {"flip", "reporting"}
        <5>1. train[p].host \in Hosts
          BY <3>2 DEF Notes, ReleasesExist
        <5> QED BY <1>0, <3>2, <5>1, NoteMoves DEF Notes
      <4> QED BY <4>1
    <3> QED BY <1>0, <2>1, <3>1, <3>2, DeployMoves DEF Moving
  <2>3. Host(p) \in Hosts
    BY <2>2 DEF GoesOn, ReleasesExist, Host
  <2>4. ~train[p].crowded
    <3>1. p \in Inside'
      BY <1>i DEF InsidePcs, Pcs
    <3>2. ~WriteLock(p) /\ ~StartHand(p)
      BY <2>2 DEF GoesOn, WriteLock, StartHand, At, Moving
    <3> QED BY <1>3, <3>1, <3>2 DEF Moves, Unmarked
  <2>5. CASE train'[p].pc = "bounce" /\ MoveLinks(Host(p), Release(p))
    <3>1. current'[Host(p)] = Release(p)
      BY <1>0, <2>3, <2>5 DEF MoveLinks
    <3> QED BY <2>2, <2>5, <3>1 DEF GoesOn, Host, Release
  <2>6. CASE train'[p].pc \in {"smoke", "restore"} /\ (Bounce(p) \/ Smoke(p))
    <3>1. UNCHANGED current /\ train[p].pc \in {"bounce", "smoke"}
      BY <2>6 DEF Bounce, Smoke, At
    <3>2. current[Host(p)] = Release(p)
      BY <2>4, <3>1 DEF LinksAreIts
    <3> QED BY <2>2, <2>6, <3>1, <3>2 DEF GoesOn, Host, Release
  <2>7. CASE train'[p].pc = "return" /\ Restore(p) /\ Swap(Host(p)) /\ train'[p].base = previous[Host(p)]
    <3>1. current[Host(p)] = Release(p)
      BY <2>4, <2>7 DEF LinksAreIts, Restore, At
    <3>2. current'[Host(p)] = previous[Host(p)]
      BY <1>0, <2>3, <2>7 DEF Swap
    <3>3. previous[Host(p)] # Release(p)
      BY <2>3, <3>1 DEF LinksAreIts
    <3> QED BY <2>2, <2>7, <3>2, <3>3 DEF GoesOn, Host, Release
  <2> QED BY <2>2, <2>5, <2>6, <2>7 DEF GoesOn
<1>4. ASSUME NEW p \in Procs, Step(p), Moves(p) PROVE LinksAreIts'
  <2>1. \A q \in Procs : Its(q)
    BY <1>2, <1>3, <1>4
  <2>2. \A h \in Hosts : current'[h] # previous'[h]
    BY <1>1, <1>4
  <2> QED BY <2>1, <2>2 DEF LinksAreIts, Host, Release, At
<1>5. CASE UNCHANGED <<train, hosts>>
  BY <1>5 DEF LinksAreIts, Host, Release, At, hosts
<1> QED BY <1>4, <1>5, SomeMove

LEMMA OutcomesStep ==
  ASSUME TypeOK, ReleasesExist, OutcomesFollow, [Next]_vars
  PROVE  OutcomesFollow'
<1> DEFINE Fine(q) ==
      /\ train'[q].pc \notin Moving \cup {"reporting"} => \A h \in Hosts : outcome'[q][h] = "none"
      /\ train'[q].pc \in Moving =>
           \A h \in Hosts : /\ h >= train'[q].host => outcome'[q][h] = "none"
                            /\ h < train'[q].host => outcome'[q][h] \notin {"none", "skipped"}
      /\ train'[q].pc = "reporting" =>
           \A h \in Hosts :
             /\ q \in Trains => outcome'[q][h] # "none"
             /\ outcome'[q][h] = "skipped" => outcome'[q][Canary] \in {"failed", "restored"}
<1>0. /\ Ready /\ train \in [Procs -> RowSet] /\ outcome \in [Procs -> [Hosts -> Outcomes]]
  BY TypedIsTypeOK DEF Typed, Ready
<1>1. ASSUME NEW q \in Procs, Kept(q), outcome'[q] = outcome[q] PROVE Fine(q)
  BY <1>1 DEF Kept, OutcomesFollow, Host, At
<1>2. ASSUME NEW p \in Procs, Step(p), Moves(p), train'[p].pc \notin Moving \cup {"reporting"}
      PROVE  Fine(p)
  <2> SUFFICES ASSUME NEW h \in Hosts PROVE outcome'[p][h] = "none"
    BY <1>2 DEF Moving
  <2>1. CASE Report(p) \/ Die(p)
    BY <1>0, <2>1 DEF Report, Die
  <2>2. CASE Flip(p) \/ Bounce(p) \/ Smoke(p) \/ Restore(p) \/ Return(p)
    <3>1. train[p].pc \in Moving /\ train[p].host \in Hosts /\ Host(p) \in Hosts
      BY <2>2 DEF Flip, Bounce, Smoke, Restore, Return, At, Moving, ReleasesExist, Host
    <3>2. ~ \E o : Note(p, o)
      BY <1>0, <1>2, <3>1, NoteMoves DEF Moving
    <3>3. \A c \in {"bounce", "smoke", "restore"} : ~Goto(p, c)
      BY <1>0, <1>2 DEF Goto, RowSet, Moving
    <3>4. train' # [train EXCEPT ![p].pc = "return", ![p].base = previous[Host(p)]]
      BY <1>0, <1>2 DEF RowSet, Moving
    <3> QED BY <2>2, <3>2, <3>3, <3>4 DEF Flip, FlipHere, FlipThere, Bounce, Smoke, Restore, Return
  <2>3. CASE Enter(p) \/ WriteLock(p) \/ Check(p) \/ CheckPermits(p) \/ Prove(p) \/ CutCheck(p)
             \/ CutCommit(p) \/ CutTag(p) \/ ConsumePermits(p) \/ StartHand(p)
    <3>1. UNCHANGED outcome
      BY <2>3 DEF Enter, WriteLock, Check, CheckPermits, Prove, CutCheck, CutCommit, CutTag,
                  ConsumePermits, StartHand
    <3>2. train[p].pc \notin Moving \cup {"reporting"}
      BY <2>3 DEF Enter, WriteLock, Check, CheckPermits, Prove, CutCheck, CutCommit, CutTag,
                  ConsumePermits, StartHand, At, Moving
    <3> QED BY <3>1, <3>2 DEF OutcomesFollow
  <2> QED BY <1>2, <2>1, <2>2, <2>3 DEF Step
<1>3. ASSUME NEW p \in Procs, Begins(p) PROVE Fine(p)
  <2>1. train[p].pc \notin Moving \cup {"reporting"}
    BY <1>3 DEF Begins, StartHand, ConsumePermits, At, Moving
  <2>2. \A h \in Hosts : outcome'[p][h] = "none" /\ ~(h < train'[p].host)
    BY <1>3, <2>1, BoundsAssumption DEF Begins, OutcomesFollow, Hosts, Canary
  <2> QED BY <1>3, <2>2 DEF Begins, Moving
<1>4. ASSUME NEW p \in Procs, GoesOn(p) PROVE Fine(p)
  BY <1>4 DEF GoesOn, OutcomesFollow, Host, Moving
<1>5. ASSUME NEW p \in Procs, NEW o, Notes(p, o) PROVE Fine(p)
  <2> DEFINE stop == Host(p) = Canary /\ ~CanaryPassed(o)
  <2>1. /\ train[p].pc \in Moving /\ train[p].host \in Hosts /\ Host(p) = train[p].host
        /\ o \notin {"none", "skipped"} /\ Note(p, o)
    BY <1>5 DEF Notes, ReleasesExist, Host
  <2>2. /\ \A h \in Hosts : h >= Host(p) => outcome[p][h] = "none"
        /\ \A h \in Hosts : h < Host(p) => outcome[p][h] \notin {"none", "skipped"}
    BY <2>1 DEF OutcomesFollow
  <2>3. /\ outcome'[p][Host(p)] = o
        /\ \A h \in Hosts : h # Host(p) /\ stop /\ h > Host(p) => outcome'[p][h] = "skipped"
        /\ \A h \in Hosts : h # Host(p) /\ ~(stop /\ h > Host(p)) => outcome'[p][h] = outcome[p][h]
    BY <1>0, <2>1, NoteOutcome
  <2>4. Hosts \subseteq Nat /\ \A h \in Hosts : h <= HostCount /\ Canary <= h
    BY BoundsAssumption DEF Hosts, Canary
  <2>5. \/ /\ train'[p].pc = "flip" /\ train'[p].host = train[p].host + 1
           /\ Host(p) = Canary => CanaryPassed(o)
        \/ /\ train'[p].pc = "reporting"
           /\ p \notin Trains \/ Host(p) = HostCount \/ stop
    BY <1>0, <2>1, NoteMoves
  <2> HIDE DEF stop, Fine
  <2>h. Host(p) \in Nat /\ Host(p) \in Hosts
    BY <2>1, <2>4
  <2>6. CASE train'[p].pc = "flip"
    <3>1. train'[p].host = Host(p) + 1 /\ ~stop
      BY <2>1, <2>5, <2>6 DEF stop
    <3>2. ASSUME NEW h \in Hosts, h >= Host(p) + 1 PROVE outcome'[p][h] = "none"
      <4>1. h # Host(p) /\ h >= Host(p)
        BY <2>4, <2>h, <3>2
      <4> QED BY <2>2, <2>3, <3>1, <4>1
    <3>3. ASSUME NEW h \in Hosts, h < Host(p) + 1 PROVE outcome'[p][h] \notin {"none", "skipped"}
      <4>1. h = Host(p) \/ (h # Host(p) /\ h < Host(p))
        BY <2>4, <2>h, <3>3
      <4> QED BY <2>1, <2>2, <2>3, <3>1, <4>1
    <3> QED BY <2>6, <3>1, <3>2, <3>3 DEF Moving, Fine
  <2>7. CASE train'[p].pc = "reporting"
    <3>1. ASSUME NEW h \in Hosts, p \in Trains PROVE outcome'[p][h] # "none"
      <4>1. h = Host(p) \/ (h # Host(p) /\ h < Host(p)) \/ (h # Host(p) /\ h > Host(p) /\ stop)
        BY <2>4, <2>5, <2>7, <2>h, <3>1
      <4>2. ~(h > Host(p)) \/ ~(h < Host(p))
        BY <2>4, <2>h
      <4> QED BY <2>1, <2>2, <2>3, <4>1, <4>2
    <3>2. ASSUME NEW h \in Hosts, outcome'[p][h] = "skipped"
          PROVE  outcome'[p][Canary] \in {"failed", "restored"}
      <4>1. stop
        <5>1. h < Host(p) \/ h >= Host(p)
          BY <2>4, <2>h
        <5> QED BY <2>1, <2>2, <2>3, <3>2, <5>1
      <4> QED BY <1>5, <2>3, <4>1 DEF Notes, CanaryPassed, stop
    <3> QED BY <2>7, <3>1, <3>2 DEF Moving, Fine
  <2> QED BY <2>5, <2>6, <2>7
<1>6. ASSUME NEW p \in Procs, Step(p), Moves(p) PROVE OutcomesFollow'
  <2>1. Fine(p)
    <3>1. CASE train'[p].pc \in Moving \cup {"reporting"}
      <4>1. Deploys(p)
        BY <1>6, <3>1 DEF Moves, Reaches
      <4> QED BY <1>0, <1>3, <1>4, <1>5, <3>1, <4>1, DeployMoves
    <3> QED BY <1>2, <1>6, <3>1
  <2>2. ASSUME NEW q \in Procs \ {p} PROVE Fine(q)
    BY <1>0, <1>1, <1>6, OutcomeKept DEF Moves
  <2>3. \A q \in Procs : Fine(q)
    BY <2>1, <2>2
  <2> QED BY <2>3 DEF OutcomesFollow, Host, At
<1>7. CASE UNCHANGED <<train, outcome>>
  BY <1>7 DEF OutcomesFollow, Host, At
<1> QED BY <1>6, <1>7, SomeMove

LEMMA DeployedStep ==
  ASSUME TypeOK, ReleasesExist, Alone, OutcomesFollow, OutcomesFollow', DeployedRuns, [Next]_vars
  PROVE  DeployedRuns'
<1> DEFINE Fine(q) == \A h \in Hosts :
      q \in Inside' /\ ~train'[q].crowded /\ outcome'[q][h] = "deployed"
        => running'[h] = train'[q].next
<1>0. /\ Ready /\ train \in [Procs -> RowSet] /\ train' \in [Procs -> RowSet]
      /\ outcome \in [Procs -> [Hosts -> Outcomes]] /\ running \in [Hosts -> 0 .. LastTag]
  BY TypedIsTypeOK, LockTyped DEF Typed, Ready
<1>1. ASSUME NEW p \in Procs, Step(p), Moves(p), NEW q \in Procs \ {p} PROVE Fine(q)
  <2> SUFFICES ASSUME NEW h \in Hosts, q \in Inside', ~train'[q].crowded,
                      outcome'[q][h] = "deployed"
               PROVE  running'[h] = train'[q].next
    OBVIOUS
  <2>1. UNCHANGED hosts /\ q \in Inside /\ ~train[q].crowded
    BY <1>1, AloneKeepsHosts
  <2>2. outcome'[q] = outcome[q]
    BY <1>0, <1>1, OutcomeKept
  <2>3. running[h] = Release(q)
    BY <2>1, <2>2 DEF DeployedRuns
  <2> QED BY <1>1, <2>1, <2>3 DEF Moves, Kept, Release, hosts
<1>2. ASSUME NEW p \in Procs, Step(p), Moves(p) PROVE Fine(p)
  <2> SUFFICES ASSUME NEW h \in Hosts, p \in Inside', ~train'[p].crowded,
                      outcome'[p][h] = "deployed"
               PROVE  running'[h] = train'[p].next
    OBVIOUS
  <2>1. Deploys(p) /\ train'[p].pc \in Moving \cup {"reporting"}
    BY <1>2 DEF Moves, Reaches, OutcomesFollow
  <2>2. ~Begins(p)
    <3>1. ASSUME Begins(p) PROVE outcome[p][h] = "none" /\ outcome'[p][h] = "deployed"
      BY <3>1 DEF Begins, StartHand, ConsumePermits, At, Moving, OutcomesFollow
    <3> QED BY <3>1 DEF Begins
  <2>3. train[p].pc \in Moving /\ Host(p) \in Hosts
    BY <1>0, <2>1, <2>2, DeployMoves DEF GoesOn, Notes, ReleasesExist, Host
  <2>4. p \in Inside /\ ~train[p].crowded
    <3>1. ~WriteLock(p) /\ ~StartHand(p)
      BY <2>3 DEF WriteLock, StartHand, At, Moving
    <3> QED BY <1>2, <3>1 DEF Moves, Unmarked
  <2>5. \A k \in Hosts : outcome[p][k] = "deployed" => running[k] = Release(p)
    BY <2>4 DEF DeployedRuns
  <2>6. outcome[p][Host(p)] = "none"
    <3>1. Host(p) >= Host(p)
      <4>1. Host(p) \in Nat
        BY <2>3, Constants
      <4> QED BY <4>1
    <3> QED BY <2>3, <3>1 DEF OutcomesFollow
  <2>7. \A k \in Hosts \ {Host(p)} : running'[k] = running[k]
    BY <1>0, <2>1, <2>3 DEF Deploys, StartHand, ConsumePermits, Flip, Bounce, Smoke, Restore, Return,
                       Restarts, At, Moving, hosts
  <2>8. CASE GoesOn(p)
    <3>1. h # Host(p) /\ outcome[p][h] = "deployed"
      BY <2>6, <2>8 DEF GoesOn
    <3> QED BY <2>5, <2>7, <2>8, <3>1 DEF GoesOn, Release
  <2>9. ASSUME NEW o, Notes(p, o) PROVE running'[h] = train'[p].next
    <3>1. train'[p].next = Release(p)
      BY <1>0, <2>3, <2>9, NoteMoves DEF Notes, Release, Host
    <3>2. CASE h = Host(p)
      <4>1. o = "deployed"
        BY <1>0, <2>3, <2>9, <3>2, NoteOutcome DEF Notes
      <4>2. Smoke(p) /\ running[h] = Release(p)
        BY <2>9, <3>2, <4>1 DEF Notes
      <4> QED BY <3>1, <4>2 DEF Smoke
    <3>3. CASE h # Host(p)
      <4>1. outcome[p][h] = "deployed"
        BY <1>0, <2>9, <3>3, NoteOutcome DEF Notes
      <4> QED BY <2>5, <2>7, <3>1, <3>3, <4>1
    <3> QED BY <3>2, <3>3
  <2> QED BY <1>0, <2>1, <2>2, <2>8, <2>9, DeployMoves
<1>3. ASSUME NEW p \in Procs, Step(p), Moves(p) PROVE DeployedRuns'
  <2>1. \A q \in Procs : Fine(q)
    BY <1>1, <1>2, <1>3
  <2> QED BY <2>1 DEF DeployedRuns, Release
<1>4. CASE UNCHANGED <<train, outcome, hosts>>
  <2>1. Inside' = Inside
    BY <1>0, <1>4, InsideIsPc, InsideIsPcNext
  <2> QED BY <1>4, <2>1 DEF DeployedRuns, Release, hosts
<1> QED BY <1>3, <1>4, SomeMove

-----------------------------------------------------------------------------
(* The theorems.                                                           *)

LEMMA TrainInit ==
  ASSUME Init
  PROVE  TrainInv
<1>1. HEAD = 2 /\ LastTag = 1 /\ commits \in Seq({"work", "row"}) /\ tags \in Seq(1 .. HEAD)
  BY DEF Init, HEAD, LastTag
<1>2. \A p \in Procs : train[p] = Blank("idle") /\ train[p].pc = "idle" /\ train[p] \in RowSet
  BY RowWritten DEF Init, Blank, Pcs
<1>3. Inside = {}
  BY <1>2 DEF Inside, Outside
<1>4. Typed
  <2>1. permits \in [Hosts -> PermitSet]
    BY <1>1 DEF Init, PermitSet
  <2>2. train \in [Procs -> RowSet]
    BY <1>2 DEF Init
  <2>3. outcome \in [Procs -> [Hosts -> Outcomes]]
    BY DEF Init, Outcomes
  <2>4. /\ current \in [Hosts -> 0 .. LastTag] /\ previous \in [Hosts -> 0 .. LastTag]
        /\ running \in [Hosts -> 0 .. LastTag]
    BY <1>1 DEF Init
  <2>5. published \subseteq 1 .. LastTag /\ smoked \subseteq 1 .. LastTag
    BY <1>1 DEF Init
  <2> QED BY <1>1, <2>1, <2>2, <2>3, <2>4, <2>5 DEF Init, Typed
<1>5. ReleasesExist
  BY <1>1, <1>2 DEF ReleasesExist, At, Moving
<1>6. LockIsOwn /\ Alone /\ DeployedRuns
  BY <1>2, <1>3 DEF LockIsOwn, Alone, DeployedRuns, At
<1>7. FleetFollows
  BY <1>2 DEF FleetFollows, Moving, Init
<1>8. OutcomesFollow
  BY <1>2 DEF OutcomesFollow, Moving, At, Init
<1>9. LinksAreIts
  BY <1>2 DEF LinksAreIts, At, Init
<1> QED BY <1>4, <1>5, <1>6, <1>7, <1>8, <1>9, TypedIsTypeOK DEF TrainInv

\* The invariant that carries the others: every step of every process, and
\* everything that happens around the trains, preserves it.
THEOREM TrainInductive == Spec => []TrainInv
<1>1. Init => TrainInv
  BY TrainInit
<1>2. TrainInv /\ [Next]_vars => TrainInv'
  BY TypeStep, ExistStep, LockStep, FleetStep, AloneStep, OutcomesStep, DeployedStep, LinksStep
     DEF TrainInv
<1> QED BY <1>1, <1>2, PTL DEF Spec

\* Tags, proofs, permits and links name commits and releases that exist, and
\* the lock names a train that got past its check.
THEOREM TrainTypeCorrect == Spec => []TypeOK
<1>1. TrainInv => TypeOK
  BY DEF TrainInv
<1> QED BY <1>1, TrainInductive, PTL

\* Two trains are past the lock at once only if one of them raced another for
\* it, or lost its lock to a train that did.
THEOREM OneTrainAtATime == Spec => []OneTrain
<1>1. TrainInv => OneTrain
  BY DEF TrainInv, LockIsOwn, OneTrain
<1> QED BY <1>1, TrainInductive, PTL

\* No host beyond the canary is moved to a release that was not seen running
\* on the canary, whatever dies and whoever deploys by hand.
THEOREM CanaryGoesFirst == Spec => []CanaryFirst
<1>1. TrainInv => CanaryFirst
  <2> SUFFICES ASSUME TrainInv, NEW h \in Hosts \ {Canary}, current[h] > 1
               PROVE  current[h] \in smoked
    BY DEF CanaryFirst
  <2>1. current[h] \in smoked \cup {0} /\ ~(0 > 1)
    BY DEF TrainInv, FleetFollows
  <2> QED BY <2>1
<1> QED BY <1>1, TrainInductive, PTL

\* A train that was alone and reports released leaves the release running on
\* every host.
THEOREM ReleasedRunsEverywhere == Spec => ReleasedEverywhere
<1> DEFINE A == \A t \in Trains :
      At(t, "reporting") /\ ~train[t].crowded /\ train'[t].pc = "released"
        => \A h \in Hosts : running[h] = Release(t)
<1>1. ASSUME TrainInv, [Next]_vars PROVE [A]_vars
  <2> SUFFICES ASSUME NEW t \in Trains, train[t].pc = "reporting", ~train[t].crowded,
                      train'[t].pc = "released", NEW h \in Hosts
               PROVE  running[h] = Release(t)
    BY DEF At
  <2>0. /\ TypeOK /\ ReleasesExist /\ t \in Procs
        /\ train \in [Procs -> RowSet] /\ outcome \in [Procs -> [Hosts -> Outcomes]]
    BY <1>1, TypedIsTypeOK, Constants DEF TrainInv, Typed
  <2>1. PICK p \in Procs : Step(p) /\ Moves(p)
    BY <1>1, <2>0, SomeMove
  <2>2. p = t
    BY <2>0, <2>1 DEF Moves, Kept
  <2>3. Report(t) \/ Die(t)
    BY <2>1, <2>2 DEF Step, Enter, WriteLock, Check, CheckPermits, Prove, CutCheck, CutCommit, CutTag,
                 ConsumePermits, StartHand, Flip, Bounce, Smoke, Restore, Return, At
  <2>4. ~Die(t)
    BY <2>0 DEF Die, Exits, Blank
  <2>5. WorstExitZero(t)
    BY <2>0, <2>3, <2>4 DEF Report, Leave, Blank
  <2>6. outcome[t][h] = "deployed"
    <3>1. /\ outcome[t][h] # "none"
          /\ outcome[t][h] = "skipped" => outcome[t][Canary] \in {"failed", "restored"}
      BY <1>1, <2>0 DEF TrainInv, OutcomesFollow, At
    <3> QED BY <2>5, <3>1, Constants DEF WorstExitZero
  <2>7. t \in Inside
    BY <2>0, InsideIsPc DEF InsidePcs, Pcs
  <2> QED BY <1>1, <2>0, <2>6, <2>7 DEF TrainInv, DeployedRuns
<1> QED BY <1>1, TrainInductive, PTL DEF Spec, ReleasedEverywhere

\* A deploy that was alone and notes a verified rollback leaves neither the
\* link nor the daemon of the host on the release it deployed.
THEOREM RollbacksLeave == Spec => RollbackLeaves
<1> DEFINE A == \A p \in Procs : \A h \in Hosts :
      ~train[p].crowded /\ outcome[p][h] # "restored" /\ outcome'[p][h] = "restored"
        => Release(p) \notin {current'[h], running'[h]}
<1>1. ASSUME TrainInv, [Next]_vars PROVE [A]_vars
  <2> SUFFICES ASSUME NEW p \in Procs, NEW h \in Hosts, ~train[p].crowded,
                      outcome[p][h] # "restored", outcome'[p][h] = "restored"
               PROVE  Release(p) \notin {current'[h], running'[h]}
    OBVIOUS
  <2>0. /\ TypeOK /\ ReleasesExist /\ Ready /\ LinksAreIts
        /\ train \in [Procs -> RowSet] /\ outcome \in [Procs -> [Hosts -> Outcomes]]
    BY <1>1, TypedIsTypeOK DEF TrainInv, Typed, Ready
  <2>1. PICK q \in Procs : Step(q) /\ Moves(q)
    BY <1>1, <2>0, SomeMove
  <2>2. q = p
    BY <2>0, <2>1, OutcomeKept
  <2>3. OutcomesFollow'
    BY <1>1, OutcomesStep DEF TrainInv
  <2>4. Deploys(p) /\ train'[p].pc \in Moving \cup {"reporting"}
    BY <2>1, <2>2, <2>3 DEF Moves, Reaches, OutcomesFollow
  <2>5. PICK o : Notes(p, o)
    BY <2>0, <2>4, DeployMoves DEF Begins, GoesOn
  <2>6. Host(p) \in Hosts /\ Note(p, o)
    BY <2>0, <2>5 DEF Notes, ReleasesExist, Host
  <2>7. h = Host(p) /\ o = "restored"
    BY <2>0, <2>6, NoteOutcome
  <2>8. Return(p) /\ running'[h] = train[p].base
    BY <2>5, <2>7 DEF Notes
  <2>9. current[h] = train[p].base /\ train[p].base # Release(p)
    BY <2>0, <2>7, <2>8 DEF Return, At, LinksAreIts
  <2> QED BY <2>8, <2>9 DEF Return
<1> QED BY <1>1, TrainInductive, PTL DEF Spec, RollbackLeaves
=============================================================================

---------------------------- MODULE ReleaseTrain ----------------------------
(***************************************************************************)
(* The release train: check, permits, prove, cut, consume, deploy.         *)
(*                                                                         *)
(* skills/ilk-ship/scripts/release_train.py runs as a detached process that*)
(* tags HEAD, pushes the tag and moves every host to it, the first host    *)
(* (the canary, where the train runs) before the others, which it reaches  *)
(* over ssh.  Its guards read git, the permits and the proof files at      *)
(* different moments, while commits land, permits expire, a second train   *)
(* or a deploy by hand runs, and the train may die anywhere.               *)
(*                                                                         *)
(* Commits are the positions of a linear history, releases the positions   *)
(* of the tag sequence.  Hosts are 1 .. HostCount, the canary is 1.        *)
(* skills/ilk-upgrade/scripts/ilk_release.py keeps two links per host,     *)
(* current and previous; the daemon there runs what current named when it  *)
(* was last restarted.                                                     *)
(***************************************************************************)
EXTENDS Naturals, Sequences, FiniteSets

CONSTANTS Trains,      \* processes of `release_train.py run`
          Hands,       \* processes of `release_train.py deploy`
          NoTrain,
          HostCount,
          MaxLandings, \* commits that land
          MaxPermits,  \* times the permits are written
          MaxCrashes,  \* processes that die
          MaxDisturbances \* all of these and deploys by hand together

ASSUME TrainsAssumption == Trains \cap Hands = {} /\ NoTrain \notin Trains \cup Hands
ASSUME BoundsAssumption ==
  HostCount \in Nat \ {0} /\ {MaxLandings, MaxPermits, MaxCrashes, MaxDisturbances} \subseteq Nat

Procs  == Trains \cup Hands
Hosts  == 1 .. HostCount
Canary == 1

VARIABLES commits,   \* the history: work, or the CHANGELOG row of a cut
          tags,      \* the commit of each release
          published, \* releases whose tag is on origin
          dirty,     \* a CHANGELOG row was written and not committed
          proven,    \* commits whose proof file says so
          permits,   \* the valid permits under runtime/permits
          lock,      \* whose pid train.lock holds
          train,     \* what each process knows
          outcome,   \* what each process noted of each host
          current, previous, running, \* the releases of each host
          smoked,    \* releases seen running on the canary
          landings, written, crashes

repo  == <<commits, tags, published, dirty, proven>>
hosts == <<current, previous, running, smoked>>
env   == <<landings, written, crashes>>
vars  == <<repo, permits, lock, train, outcome, hosts, env>>

HEAD     == Len(commits)
LastTag  == Len(tags)

NextTag == LastTag + 1

\* raced: the lock was written between its look at it and its own write, or its
\* lock was replaced or removed by a train of which this is so.
\* crowded: was inside together with another process.
Blank(pc) == [pc |-> pc, head |-> 0, base |-> 0, next |-> 0, host |-> 0,
              raced |-> FALSE, crowded |-> FALSE]

\* A permit that is missing, consumed, revoked or past its hour.
Void == [head |-> 0, base |-> 0]

Init ==
  /\ commits = <<"work", "work">>
  /\ tags = <<1>> /\ published = {1}
  /\ dirty = FALSE /\ proven = {}
  /\ permits = [h \in Hosts |-> [head |-> 2, base |-> 1]]
  /\ lock = NoTrain
  /\ train = [p \in Procs |-> Blank("idle")]
  /\ outcome = [p \in Procs |-> [h \in Hosts |-> "none"]]
  /\ current = [h \in Hosts |-> 1] /\ previous = [h \in Hosts |-> 0]
  /\ running = [h \in Hosts |-> 1]
  /\ smoked = {1}
  /\ landings = 0 /\ written = 0 /\ crashes = 0

At(p, pc) == train[p].pc = pc

Disturbable ==
  landings + written + crashes + Cardinality({p \in Hands : ~At(p, "idle")}) < MaxDisturbances

\* stopped: refused, skipped, escalated, failed, rolled back or died.
Ended(p)   == train[p].pc \in {"released", "stopped"}
Outside(p) == Ended(p) \/ train[p].pc \in {"idle", "entering"}
Inside     == {p \in Procs : ~Outside(p)}

Goto(p, pc) == train' = [train EXCEPT ![p].pc = pc]
Exits(p, how) == train' = [train EXCEPT ![p] = Blank(how)]
Holds(q) == q \in Inside /\ q = lock

\* A process comes in with record r; whoever is inside notes it.
Joins(p, r) ==
  train' = [q \in Procs |->
    IF q = p THEN [r EXCEPT !.crowded = Inside # {}]
    ELSE IF q \in Inside
      THEN [train[q] EXCEPT !.crowded = TRUE, !.raced = @ \/ (r.raced /\ Holds(q))]
    ELSE IF At(q, "entering") THEN [train[q] EXCEPT !.raced = @ \/ p \in Trains]
      ELSE train[q]]

-----------------------------------------------------------------------------
(* The lock: a pid in a file, read first and written later.                *)

\* Mutated form: whoever comes replaces the lock.
NeverHeld(p) == FALSE

\* Only a live pid holds it.
HeldByOther(p) == lock # NoTrain /\ ~Ended(lock)

Enter(t) ==
  /\ t \in Trains /\ train[t].pc = "idle"
  /\ Goto(t, IF HeldByOther(t) THEN "stopped" ELSE "entering")
  /\ UNCHANGED <<repo, permits, lock, outcome, hosts, env>>

WriteLock(t) ==
  /\ t \in Trains /\ train[t].pc = "entering"
  /\ lock' = t
  /\ Joins(t, [Blank("locked") EXCEPT !.raced = train[t].raced])
  /\ UNCHANGED <<repo, permits, outcome, hosts, env>>

\* The finally clause unlinks the lock, whoever wrote it last.
Unlock(p) == lock' = IF p \in Trains THEN NoTrain ELSE lock

Leave(t, how) ==
  /\ train' = [q \in Procs |->
       IF q = t THEN Blank(how)
       ELSE [train[q] EXCEPT !.raced = @ \/ (train[t].raced /\ Holds(q))]]
  /\ Unlock(t)

-----------------------------------------------------------------------------
(* Before the tag.                                                         *)

\* The rest of check() is configuration and the kill switch: it may refuse.
Eligible == tags[LastTag] # HEAD /\ ~dirty

Check(t) ==
  /\ train[t].pc = "locked"
  /\ \/ Eligible /\ UNCHANGED lock
        /\ train' = [train EXCEPT ![t].pc = "checked", ![t].head = HEAD, ![t].base = LastTag]
     \/ Leave(t, "stopped")
  /\ UNCHANGED <<repo, permits, outcome, hosts, env>>

Lapse == permits' = [h \in Hosts |-> Void]

\* Every host, bound to the head and the tag that check() reported.
PermitsHold(t) ==
  \A h \in Hosts : permits[h] = [head |-> train[t].head, base |-> train[t].base]

\* A permit may lapse before it is read: its hour passes, or it is revoked.
\* prove() then reads HEAD anew, and writes its verdict on that commit later.
CheckPermits(t) ==
  /\ train[t].pc = "checked"
  /\ \/ /\ PermitsHold(t) /\ UNCHANGED <<permits, lock>>
        /\ train' = [train EXCEPT ![t].pc = "proving", ![t].next = HEAD]
     \/ ~PermitsHold(t) /\ Leave(t, "stopped") /\ UNCHANGED permits
     \/ Lapse /\ Leave(t, "stopped")
  /\ UNCHANGED <<repo, outcome, hosts, env>>

Prove(t) ==
  /\ train[t].pc = "proving"
  /\ LET c == train[t].next IN
     \/ proven' = proven \cup {c} /\ Goto(t, "proven") /\ UNCHANGED lock
     \/ proven' = proven \ {c} /\ Leave(t, "stopped")
  /\ UNCHANGED <<commits, tags, published, dirty, permits, outcome, hosts, env>>

-----------------------------------------------------------------------------
(* cut(): a refusal anywhere exits and leaves what was done.               *)

\* cut() starts from HEAD as it is now.
CutCheck(t) ==
  /\ train[t].pc = "proven"
  /\ \/ HEAD \in proven /\ Eligible /\ UNCHANGED lock
        /\ train' = [train EXCEPT ![t].pc = "cutting", ![t].next = NextTag]
     \/ Leave(t, "stopped")
  /\ UNCHANGED <<repo, permits, outcome, hosts, env>>

CutCommit(t) ==
  /\ train[t].pc = "cutting"
  /\ \/ commits' = Append(commits, "row") /\ dirty' = FALSE
        /\ Goto(t, "committed") /\ UNCHANGED lock
     \/ dirty' = TRUE /\ Leave(t, "stopped") /\ UNCHANGED commits
  /\ UNCHANGED <<tags, published, proven, permits, outcome, hosts, env>>

\* The tag goes to HEAD, and fails if somebody made it first; a push that
\* fails leaves it here.
CutTag(t) ==
  /\ train[t].pc = "committed"
  /\ \/ /\ NextTag = train[t].next
        /\ tags' = Append(tags, HEAD)
        /\ \/ published' = published \cup {NextTag} /\ Goto(t, "pushed") /\ UNCHANGED lock
           \/ Leave(t, "stopped") /\ UNCHANGED published
     \/ Leave(t, "stopped") /\ UNCHANGED <<tags, published>>
  /\ UNCHANGED <<commits, dirty, proven, permits, outcome, hosts, env>>

\* The permits are checked once more against what check() reported first, then
\* marked one file after the other; a file may refuse.
ConsumePermits(t) ==
  /\ train[t].pc = "pushed"
  /\ \/ ~PermitsHold(t) /\ Leave(t, "stopped") /\ UNCHANGED permits
     \/ Lapse /\ Leave(t, "stopped")
     \/ /\ PermitsHold(t)
        /\ \E n \in 0 .. HostCount :
             /\ permits' = [h \in Hosts |-> IF h <= n THEN Void ELSE permits[h]]
             /\ \/ /\ n = HostCount /\ UNCHANGED lock
                   /\ train' = [train EXCEPT ![t].pc = "flip", ![t].host = Canary,
                                              ![t].head = 0, ![t].base = 0]
                \/ n < HostCount /\ Leave(t, "stopped")
  /\ UNCHANGED <<repo, outcome, hosts, env>>

-----------------------------------------------------------------------------
(* deploy: one host after the other, the canary first.                     *)

Release(p) == train[p].next
Host(p)    == train[p].host

\* Mutated form: the fleet follows a canary that was rolled back, too.
CanaryTouched(o) == o # "failed"

\* The fleet follows only a canary that runs the release.
CanaryPassed(o) == o = "deployed"

\* What happened on this host is noted, and the next one is up.
Note(p, o) ==
  LET rest == {h \in Hosts : h > Host(p)}
      stop == Host(p) = Canary /\ ~CanaryPassed(o) IN
  /\ outcome' = [outcome EXCEPT ![p] =
       [h \in Hosts |-> IF h = Host(p) THEN o
                        ELSE IF stop /\ h \in rest THEN "skipped" ELSE @[h]]]
  /\ train' = IF p \in Trains /\ rest # {} /\ ~stop
                THEN [train EXCEPT ![p].pc = "flip", ![p].host = @ + 1, ![p].base = 0]
                ELSE [train EXCEPT ![p].pc = "reporting", ![p].base = 0]

\* A deploy by hand takes no lock and has one host.
StartHand(p) ==
  /\ p \in Hands /\ At(p, "idle") /\ Disturbable
  /\ Joins(p, [Blank("flip") EXCEPT !.next = LastTag, !.host = Canary])
  /\ UNCHANGED <<repo, permits, lock, outcome, hosts, env>>

\* Mutated form: current is saved also when it is the new release already.
PreviousOf(h, k) == current[h]

\* _flip_current(): previous keeps the other release.
Saved(h, k) == IF current[h] = k THEN previous[h] ELSE current[h]

MoveLinks(h, k) == /\ current' = [current EXCEPT ![h] = k]
                   /\ previous' = [previous EXCEPT ![h] = Saved(h, k)]
LeaveLinks == UNCHANGED <<current, previous>>

\* Here the extraction refuses, or is cut off with the links moved or not.
FlipHere(p) ==
  /\ Host(p) = Canary
  /\ \/ MoveLinks(Canary, Release(p)) /\ Goto(p, "bounce") /\ UNCHANGED outcome
     \/ (MoveLinks(Canary, Release(p)) \/ LeaveLinks) /\ Note(p, "failed")

\* There the fleet may be busy, the tag comes from origin, and the answer to a
\* command that was carried out may be lost.
FlipThere(p) ==
  /\ Host(p) # Canary
  /\ \/ LeaveLinks /\ Note(p, "failed")
     \/ /\ Release(p) \in published
        /\ MoveLinks(Host(p), Release(p))
        /\ \/ Goto(p, "bounce") /\ UNCHANGED outcome
           \/ Note(p, "failed")

Flip(p) ==
  /\ At(p, "flip") /\ (FlipHere(p) \/ FlipThere(p))
  /\ UNCHANGED <<repo, permits, lock, running, smoked, env>>

Restarts(h) == running' = [running EXCEPT ![h] = current[h]]

\* The release's own bouncer restarts a daemon of another release only.  The
\* canary's is believed; over ssh its answer is not read.
Bounce(p) ==
  /\ At(p, "bounce")
  /\ \/ running[Host(p)] # Release(p) /\ Restarts(Host(p))
        /\ Goto(p, "smoke") /\ UNCHANGED outcome
     \/ /\ UNCHANGED <<running, outcome>>
        /\ Goto(p, IF Host(p) = Canary THEN "restore" ELSE "smoke")
     \/ Host(p) = Canary /\ (Restarts(Canary) \/ UNCHANGED running) /\ Note(p, "failed")
  /\ UNCHANGED <<repo, permits, lock, current, previous, smoked, env>>

\* The daemon must run the release; it may fail its other checks.
Smoke(p) ==
  /\ At(p, "smoke")
  /\ \/ /\ running[Host(p)] = Release(p)
        /\ smoked' = IF Host(p) = Canary THEN smoked \cup {Release(p)} ELSE smoked
        /\ Note(p, "deployed")
     \/ Goto(p, "restore") /\ UNCHANGED <<smoked, outcome>>
     \/ Host(p) = Canary /\ Note(p, "failed") /\ UNCHANGED smoked
  /\ UNCHANGED <<repo, permits, lock, current, previous, running, env>>

\* Without a previous release there is nothing to swap.
Swap(h) == /\ previous[h] # 0
           /\ current' = [current EXCEPT ![h] = previous[h]]
           /\ previous' = [previous EXCEPT ![h] = current[h]]

\* --status names the release to return to, --rollback swaps the links.
Restore(p) ==
  /\ At(p, "restore")
  /\ LET h == Host(p) IN
     \/ /\ Swap(h) /\ UNCHANGED <<running, outcome>>
        /\ train' = [train EXCEPT ![p].pc = "return", ![p].base = previous[h]]
     \/ /\ Swap(h) \/ LeaveLinks
        /\ running' \in {running, [running EXCEPT ![h] = current'[h]]}
        /\ Note(p, "failed")
  /\ UNCHANGED <<repo, permits, lock, smoked, env>>

\* The bouncer and the smoke of the release that is back.
Return(p) ==
  /\ At(p, "return")
  /\ LET back == train[p].base IN
     \/ /\ running[Host(p)] # back => Restarts(Host(p))
        /\ running[Host(p)] = back => UNCHANGED running
        /\ running'[Host(p)] = back /\ Note(p, "restored")
     \/ (Restarts(Host(p)) \/ UNCHANGED running) /\ Note(p, "failed")
  /\ UNCHANGED <<repo, permits, lock, current, previous, smoked, env>>

\* Mutated form: the exit code of the last host.
LastExitZero(p) == outcome[p][HostCount] \in {"deployed", "skipped"}

\* The worst exit code; a host that was skipped counts as zero.
WorstExitZero(p) == \A h \in Hosts : outcome[p][h] \in {"none", "deployed", "skipped"}

Report(p) ==
  /\ At(p, "reporting")
  /\ Leave(p, IF p \in Trains /\ WorstExitZero(p) THEN "released" ELSE "stopped")
  /\ outcome' = [outcome EXCEPT ![p] = [h \in Hosts |-> "none"]]
  /\ UNCHANGED <<repo, permits, hosts, env>>

-----------------------------------------------------------------------------
(* What happens around the train.                                          *)

Die(p) ==
  /\ p \in Inside /\ crashes < MaxCrashes /\ Disturbable /\ crashes' = crashes + 1
  /\ Exits(p, "stopped")
  /\ outcome' = [outcome EXCEPT ![p] = [h \in Hosts |-> "none"]]
  /\ UNCHANGED <<repo, permits, lock, hosts, landings, written>>

\* A commit lands; what a failed cut left in the tree may be cleaned up with it.
Land ==
  /\ landings < MaxLandings /\ Disturbable /\ landings' = landings + 1
  /\ commits' = Append(commits, "work")
  /\ dirty' \in {dirty, FALSE}
  /\ UNCHANGED <<tags, published, proven, permits, lock, train, outcome, hosts, written, crashes>>

WritePermits ==
  /\ written < MaxPermits /\ Disturbable /\ written' = written + 1
  /\ permits' = [h \in Hosts |-> [head |-> HEAD, base |-> LastTag]]
  /\ UNCHANGED <<repo, lock, train, outcome, hosts, landings, crashes>>

Step(p) ==
  \/ Enter(p) \/ WriteLock(p) \/ Check(p) \/ CheckPermits(p) \/ Prove(p)
  \/ CutCheck(p) \/ CutCommit(p) \/ CutTag(p)
  \/ ConsumePermits(p)
  \/ StartHand(p) \/ Flip(p) \/ Bounce(p) \/ Smoke(p)
  \/ Restore(p) \/ Return(p) \/ Report(p) \/ Die(p)

Next ==
  \/ \E p \in Procs : Step(p)
  \/ Land \/ WritePermits

Spec == Init /\ [][Next]_vars

-----------------------------------------------------------------------------
(* Properties.                                                             *)

Pcs == {"idle", "entering", "locked", "checked", "proving", "proven", "cutting", "committed",
        "pushed", "flip", "bounce", "smoke", "restore", "return", "reporting",
        "released", "stopped"}

Outcomes == {"none", "deployed", "failed", "restored", "skipped"}

RowSet     == [pc : Pcs, head : Nat, base : Nat, next : Nat, host : 0 .. HostCount,
               raced : BOOLEAN, crowded : BOOLEAN]
PermitSet  == [head : 0 .. HEAD, base : 0 .. LastTag]

\* What the variables may hold: tags, proofs and permits name commits that
\* landed, the links and origin name releases that were cut, the lock names a
\* train that got past its check.
TypeOK ==
  /\ commits \in Seq({"work", "row"}) /\ proven \subseteq 1 .. HEAD
  /\ tags \in Seq(1 .. HEAD) /\ published \subseteq 1 .. LastTag
  /\ smoked \subseteq 1 .. LastTag /\ dirty \in BOOLEAN
  /\ permits \in [Hosts -> PermitSet]
  /\ {current, previous, running} \subseteq [Hosts -> 0 .. LastTag]
  /\ lock \in Trains \cup {NoTrain}
  /\ lock # NoTrain => train[lock].pc \notin {"idle", "entering"}
  /\ train \in [Procs -> RowSet] /\ outcome \in [Procs -> [Hosts -> Outcomes]]
  /\ {landings, written, crashes} \subseteq Nat

\* At most one train is past its lock, unless two saw the lock free before either
\* wrote it, or one of them lost its lock to such a train, which replaced it or
\* removed it on its way out ("a stale lock whose pid is dead is replaced").
OneTrain ==
  \A t, u \in Trains : t # u /\ {t, u} \subseteq Inside => train[t].raced \/ train[u].raced

\* No host is moved to a release before the canary was seen running it, however
\* trains die and deploys by hand interfere ("stop the fleet if it fails").
CanaryFirst ==
  \A h \in Hosts \ {Canary} : current[h] > 1 => current[h] \in smoked

\* A train reports released only when every host runs the release, unless
\* another process deployed beside it ("One host's failure cannot hide another
\* host's success").
ReleasedEverywhere ==
  [][\A t \in Trains :
       At(t, "reporting") /\ ~train[t].crowded /\ train'[t].pc = "released"
         => \A h \in Hosts : running[h] = Release(t)]_vars

\* A deploy that reports a verified rollback has left neither the link nor the
\* daemon on the release it deployed, also when an earlier deploy of that
\* release died half-way.
RollbackLeaves ==
  [][\A p \in Procs : \A h \in Hosts :
       ~train[p].crowded /\ outcome[p][h] # "restored" /\ outcome'[p][h] = "restored"
         => Release(p) \notin {current'[h], running'[h]}]_vars
=============================================================================

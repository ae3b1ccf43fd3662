----------------------- MODULE KnowledgeCommitProofs -----------------------
(***************************************************************************)
(* Theorems about KnowledgeCommit for any processes, generations and       *)
(* objects: type correctness, the closure of the committed manifest, the   *)
(* refinement of a register, what may leave the headers torn, what the     *)
(* manifest completes and replaces, and the bytes that a prune keeps.      *)
(***************************************************************************)
EXTENDS KnowledgeCommit, TLAPS

\* The assumptions on the constants, in the form the steps below use.
LEMMA ConstantFacts ==
    /\ FirstGen \in Gens
    /\ Encoded \in [Gens -> [Headers -> Contents]]
    /\ ObjectsOf \in [Gens -> SUBSET Objects]
    /\ Migrations \subseteq [orig : Gens, target : Gens]
    /\ Publishers \cap Cleaners = {}
    /\ NoProc \notin Procs
BY ProcsAssumption, EncodingAssumption DEF Procs

LEMMA NoJobTyped == NoJob \in Job
BY ConstantFacts DEF NoJob, Job

LEMMA NoSweepTyped == NoSweep \in PruneRecord
BY ConstantFacts DEF NoSweep, PruneRecord

(***************************************************************************)
(* Type correctness                                                        *)
(***************************************************************************)

LEMMA PublisherGoto ==
    ASSUME TypeOK, NEW p \in Publishers, NEW l \in PublisherLabels, Goto(p, l)
    PROVE  /\ pc' \in [Procs -> PublisherLabels \cup CleanerLabels]
           /\ \A r \in Publishers : pc'[r] \in PublisherLabels
           /\ \A q \in Cleaners : pc'[q] \in CleanerLabels
BY ConstantFacts DEF TypeOK, Goto, Procs

LEMMA CleanerGoto ==
    ASSUME TypeOK, NEW q \in Cleaners, NEW l \in CleanerLabels, Goto(q, l)
    PROVE  /\ pc' \in [Procs -> PublisherLabels \cup CleanerLabels]
           /\ \A r \in Publishers : pc'[r] \in PublisherLabels
           /\ \A r \in Cleaners : pc'[r] \in CleanerLabels
BY ConstantFacts DEF TypeOK, Goto, Procs

\* The publisher part of a step keeps the types: one step per action.
LEMMA PublisherTypes ==
    ASSUME TypeOK, NEW p \in Publishers,
           \/ \E g \in Gens : Generate(p, g)
           \/ \E m \in Migrations : Migrate(p, m)
           \/ \E b \in backups : Recover(p, b)
           \/ PublisherWork(p)
           \/ Interrupt(p)
    PROVE  TypeOK'
<1> USE ConstantFacts, NoJobTyped DEF Headers
<1>1. p \in Procs /\ p \notin Cleaners
  BY DEF Procs
<1>2. ASSUME NEW k \in {"generate", "migrate", "recover"}, NEW g \in Gens, Start(p, k, g)
      PROVE  TypeOK'
  <2>1. [NoJob EXCEPT !.kind = k, !.gen = g, !.base = disk] \in Job
    BY DEF TypeOK, NoJob, Job
  <2>2. job' \in [Publishers -> Job]
    BY <1>2, <2>1 DEF TypeOK, Start
  <2> QED
    BY <1>1, <1>2, <2>2 DEF TypeOK, Start, EnterOperation, Acquire, Goto, PublisherLabels
<1>3. CASE \E g \in Gens : Generate(p, g)
  BY <1>2, <1>3 DEF Generate
<1>4. CASE \E m \in Migrations : Migrate(p, m)
  BY <1>2, <1>4 DEF Migrate
<1>5. CASE \E b \in backups : Recover(p, b)
  BY <1>2, <1>5 DEF Recover, TypeOK
<1>6. CASE PlanObjects(p)
  <2>1. job' \in [Publishers -> Job]
    <3>1. [job[p] EXCEPT !.have = ObjectsOf[job[p].gen] \cap objects] \in Job
      BY DEF TypeOK, Job
    <3> QED
      BY <1>6, <3>1 DEF TypeOK, PlanObjects
  <2>2. Goto(p, "planSurface") /\ "planSurface" \in PublisherLabels
    BY <1>6 DEF PlanObjects, PublisherLabels
  <2> QED
    BY <1>6, <2>1, <2>2, PublisherGoto DEF TypeOK, PlanObjects
<1>7. ASSUME NEW f \in Headers, NEW here, NEW next \in PublisherLabels,
             PlanHeader(p, f, here, next)
      PROVE  TypeOK'
  <2>1. [job[p] EXCEPT !.prev[f] = disk[f]] \in Job
    BY DEF TypeOK, Job
  <2>2. job' \in [Publishers -> Job]
    BY <1>7, <2>1 DEF TypeOK, PlanHeader
  <2> QED
    BY <1>1, <1>7, <2>2 DEF TypeOK, PlanHeader, Goto, PublisherLabels
<1>8. CASE SaveBackup(p)
  <2>1. Goto(p, "recheck") /\ "recheck" \in PublisherLabels
    BY <1>8 DEF SaveBackup, PublisherLabels
  <2>2. backups' \in SUBSET Migrations
    BY <1>8 DEF SaveBackup, TypeOK
  <2> QED
    BY <1>8, <2>1, <2>2, PublisherGoto DEF TypeOK, SaveBackup
<1>9. CASE Recheck(p) \/ Precheck(p) \/ ObjectsWritten(p) \/ Verify(p)
  <2>1. PICK l \in PublisherLabels : Goto(p, l)
    BY <1>9 DEF Recheck, Precheck, ObjectsWritten, Verify, PublisherLabels
  <2>2. UNCHANGED <<disk, objects, lock, job, sweep, backups, pruneLog, pruned, interrupted>>
    BY <1>9 DEF Recheck, Precheck, ObjectsWritten, Verify
  <2> QED
    BY <2>1, <2>2, PublisherGoto DEF TypeOK
<1>10. CASE EnterCommit(p)
  <2>1. PICK l \in PublisherLabels : Goto(p, l)
    BY <1>10 DEF EnterCommit, PublisherLabels
  <2> QED
    BY <1>1, <1>10, <2>1, PublisherGoto DEF TypeOK, EnterCommit, Acquire
<1>11. CASE WriteObject(p)
  <2>1. PICK o \in ObjectsOf[job[p].gen] \ job[p].have :
               /\ objects' = objects \cup {o}
               /\ job' = [job EXCEPT ![p].have = @ \cup {o}]
    BY <1>11 DEF WriteObject
  <2>2. o \in Objects /\ [job[p] EXCEPT !.have = @ \cup {o}] \in Job
    BY DEF TypeOK, Job
  <2>3. job' \in [Publishers -> Job]
    BY <2>1, <2>2 DEF TypeOK
  <2> QED
    BY <1>11, <2>1, <2>2, <2>3 DEF TypeOK, WriteObject
<1>12. ASSUME NEW f \in Headers, NEW here, NEW next \in PublisherLabels,
              WriteHeader(p, f, here, next)
       PROVE  TypeOK'
  <2>1. disk' \in [Headers -> Contents]
    <3>1. Encoded[job[p].gen][f] \in Contents
      BY DEF TypeOK, Job
    <3> QED
      BY <1>12, <3>1 DEF TypeOK, WriteHeader
  <2>2. job' \in [Publishers -> Job]
    <3>1. \A r \in Publishers : [job[r] EXCEPT !.stale = TRUE] \in Job
      BY DEF TypeOK, Job
    <3>2. NewIdentity(p) \in [Publishers -> Job]
      BY <3>1 DEF NewIdentity, TypeOK
    <3> QED
      BY <1>12, <3>2 DEF TypeOK, WriteHeader
  <2> QED
    BY <1>12, <2>1, <2>2, PublisherGoto DEF TypeOK, WriteHeader
<1>13. CASE Finish(p) \/ Fail(p) \/ Interrupt(p)
  <2>1. /\ Goto(p, "idle") /\ Release(p)
        /\ job' = [job EXCEPT ![p] = NoJob]
        /\ UNCHANGED <<disk, objects, sweep, backups, pruneLog, pruned>>
    BY <1>13 DEF Finish, Fail, Interrupt, Leave
  <2>2. interrupted' \in BOOLEAN
    BY <1>13 DEF TypeOK, Finish, Fail, Interrupt, Leave
  <2>3. lock' \in Procs \cup {NoProc} /\ job' \in [Publishers -> Job]
    BY <2>1 DEF TypeOK, Release
  <2>4. "idle" \in PublisherLabels
    BY DEF PublisherLabels
  <2> QED
    BY <2>1, <2>2, <2>3, <2>4, PublisherGoto DEF TypeOK
<1> QED
  BY <1>3, <1>4, <1>5, <1>6, <1>7, <1>8, <1>9, <1>10, <1>11, <1>12, <1>13
     DEF PublisherWork, PublisherLabels

\* The cleaner part of a step keeps the types.
LEMMA CleanerTypes ==
    ASSUME TypeOK, NEW q \in Cleaners,
           \/ \E g \in Gens : Audit(q, g)
           \/ \E r \in pruneLog : EnterRestore(q, r)
           \/ CleanerWork(q)
    PROVE  TypeOK'
<1> USE ConstantFacts, NoSweepTyped DEF Headers
<1>1. q \in Procs /\ q \notin Publishers
  BY DEF Procs
<1>2. CASE \E g \in Gens : Audit(q, g)
  BY <1>1, <1>2 DEF TypeOK, Audit, Goto, CleanerLabels, PruneRecord
<1>3. CASE \E r \in pruneLog : EnterRestore(q, r)
  BY <1>1, <1>3 DEF TypeOK, EnterRestore, Acquire, Goto, CleanerLabels
<1>4. CASE EnterPrune(q)
  BY <1>1, <1>4 DEF TypeOK, EnterPrune, Acquire, Goto, CleanerLabels
<1>5. CASE SavePreimages(q)
  <2>1. Goto(q, "pruning") /\ "pruning" \in CleanerLabels
    BY <1>5 DEF SavePreimages, CleanerLabels
  <2>2. pruneLog' \in SUBSET PruneRecord
    BY <1>5 DEF SavePreimages, TypeOK
  <2> QED
    BY <1>5, <2>1, <2>2, CleanerGoto DEF TypeOK, SavePreimages
<1>6. CASE Prune(q) \/ RestoreObject(q)
  <2>1. PICK o \in sweep[q].cands :
               sweep' = [sweep EXCEPT ![q].cands = @ \ {o}]
    BY <1>6 DEF Prune, RestoreObject
  <2>2. o \in Objects /\ [sweep[q] EXCEPT !.cands = @ \ {o}] \in PruneRecord
    BY <2>1 DEF TypeOK, PruneRecord
  <2>3. sweep' \in [Cleaners -> PruneRecord]
    BY <2>1, <2>2 DEF TypeOK
  <2>4. objects' \in SUBSET Objects /\ pruned' \in SUBSET Objects
    <3>1. \A r \in sweep[q].cands : r \in Objects
      BY DEF TypeOK, PruneRecord
    <3> QED
      BY <1>6, <3>1 DEF TypeOK, Prune, RestoreObject
  <2> QED
    BY <1>6, <2>3, <2>4 DEF TypeOK, Prune, RestoreObject
<1>7. CASE StopCleaner(q)
  BY <1>1, <1>7 DEF TypeOK, StopCleaner, Release, Goto, CleanerLabels
<1> QED
  BY <1>2, <1>3, <1>4, <1>5, <1>6, <1>7 DEF CleanerWork

LEMMA TypeStep == TypeOK /\ [Next]_vars => TypeOK'
<1> SUFFICES ASSUME TypeOK, [Next]_vars PROVE TypeOK'
  OBVIOUS
<1>1. CASE UNCHANGED vars
  BY <1>1 DEF TypeOK, vars
<1>2. CASE Next
  BY <1>2, PublisherTypes, CleanerTypes DEF Next
<1> QED
  BY <1>1, <1>2

LEMMA TypeInit == Init => TypeOK
<1> SUFFICES ASSUME Init PROVE TypeOK
  OBVIOUS
<1>1. disk \in [Headers -> Contents] /\ objects \in SUBSET Objects
  BY ConstantFacts DEF Init
<1>2. /\ pc \in [Procs -> PublisherLabels \cup CleanerLabels]
      /\ \A p \in Publishers : pc[p] \in PublisherLabels
      /\ \A q \in Cleaners : pc[q] \in CleanerLabels
  BY DEF Init, PublisherLabels, CleanerLabels, Procs
<1>3. job \in [Publishers -> Job] /\ sweep \in [Cleaners -> PruneRecord]
  BY NoJobTyped, NoSweepTyped DEF Init
<1> QED
  BY <1>1, <1>2, <1>3 DEF Init, TypeOK

\* Every reachable state is of the declared types.
THEOREM TypeCorrect == Spec => []TypeOK
BY TypeInit, TypeStep, PTL DEF Spec

(***************************************************************************)
(* The committed manifest never names a missing object                     *)
(***************************************************************************)

Committing == {"precheck", "writeObjects", "writeSurface", "writeRoot", "verify",
               "writeManifest", "final"}
Deleting == {"pruneBackup", "pruning"}

\* Whoever writes or deletes holds the lock.
LockHeld ==
    /\ \A p \in Publishers : pc[p] \in Committing => lock = p
    /\ \A q \in Cleaners : pc[q] \in Deleting \cup {"restoring"} => lock = q

\* A publisher about to write the manifest has verified its objects.
Verified ==
    \A p \in Publishers : pc[p] = "writeManifest" => ObjectsOf[job[p].gen] \subseteq objects

\* A cleaner deletes only what the still committed generation does not use.
Sweeping ==
    \A q \in Cleaners :
       /\ pc[q] \in Deleting => disk["manifest"] = Encoded[sweep[q].gen]["manifest"]
       /\ pc[q] \in Deleting \cup {"audited"} => sweep[q].cands \cap ObjectsOf[sweep[q].gen] = {}

ClosureInv == TypeOK /\ LockHeld /\ Verified /\ Sweeping /\ CommittedClosure

\* A free lock means that nobody is writing or deleting.
LEMMA FreeLock ==
    ASSUME ClosureInv, lock = NoProc
    PROVE  /\ \A p \in Publishers : pc[p] \notin Committing
           /\ \A q \in Cleaners : pc[q] \notin Deleting \cup {"restoring"}
BY ConstantFacts DEF ClosureInv, LockHeld, Procs

LEMMA ClosureInit == Init => ClosureInv
<1> SUFFICES ASSUME Init PROVE ClosureInv
  OBVIOUS
<1>1. TypeOK
  BY TypeInit
<1>2. LockHeld /\ Verified /\ Sweeping
  BY DEF Init, LockHeld, Verified, Sweeping, Committing, Deleting, Procs
<1>3. CommittedClosure
  BY ConstantFacts DEF Init, CommittedClosure
<1> QED
  BY <1>1, <1>2, <1>3 DEF ClosureInv

\* What a publisher does to the invariant: one step per kind of action.
LEMMA ClosurePublisher ==
    ASSUME ClosureInv, TypeOK', NEW p \in Publishers,
           \/ \E g \in Gens : Generate(p, g)
           \/ \E m \in Migrations : Migrate(p, m)
           \/ \E b \in backups : Recover(p, b)
           \/ PublisherWork(p)
           \/ Interrupt(p)
    PROVE  ClosureInv'
<1> USE ConstantFacts DEF Headers, Committing, Deleting
<1>1. p \in Procs /\ p \notin Cleaners /\ p # NoProc
  BY DEF Procs
<1>2. ASSUME NEW k, NEW g \in Gens, Start(p, k, g)
      PROVE  ClosureInv'
  <2>1. /\ pc[p] = "idle" /\ pc' = [pc EXCEPT ![p] = "planObjects"]
        /\ lock' = lock \/ (lock = NoProc /\ lock' = p)
        /\ \A r \in Publishers : r # p => job'[r] = job[r]
        /\ UNCHANGED <<disk, objects, sweep>>
    BY <1>2 DEF Start, EnterOperation, Acquire, Goto, ClosureInv, TypeOK
  <2>2. LockHeld'
    BY <1>1, <2>1, FreeLock DEF ClosureInv, TypeOK, LockHeld
  <2> QED
    BY <1>1, <2>1, <2>2 DEF ClosureInv, TypeOK, Verified, Sweeping, CommittedClosure
<1>3. CASE \/ \E g \in Gens : Generate(p, g)
           \/ \E m \in Migrations : Migrate(p, m)
           \/ \E b \in backups : Recover(p, b)
  BY <1>2, <1>3 DEF Generate, Migrate, Recover, ClosureInv, TypeOK
<1>4. ASSUME UNCHANGED <<disk, objects, lock, sweep>>,
             NEW l \in PublisherLabels, Goto(p, l),
             l \in Committing => lock = p,
             l # "writeManifest",
             \A r \in Publishers : r # p => job'[r] = job[r]
      PROVE  ClosureInv'
  BY <1>1, <1>4 DEF ClosureInv, TypeOK, LockHeld, Verified, Sweeping, CommittedClosure, Goto
<1>5. CASE PlanObjects(p)
  BY <1>1, <1>4, <1>5 DEF PlanObjects, PublisherLabels, ClosureInv, TypeOK
<1>6. ASSUME NEW f \in Headers, NEW here,
             NEW next \in {"planRoot", "planManifest", "backup"},
             PlanHeader(p, f, here, next)
      PROVE  ClosureInv'
  BY <1>1, <1>4, <1>6 DEF PlanHeader, PublisherLabels, ClosureInv, TypeOK
<1>7. CASE SaveBackup(p) \/ Recheck(p)
  BY <1>1, <1>4, <1>7 DEF SaveBackup, Recheck, PublisherLabels
<1>8. CASE Precheck(p) \/ ObjectsWritten(p)
  BY <1>1, <1>4, <1>8 DEF Precheck, ObjectsWritten, PublisherLabels, ClosureInv, LockHeld
<1>9. CASE EnterCommit(p)
  <2>1. PICK l \in {"precheck", "writeSurface"} : pc' = [pc EXCEPT ![p] = l]
    BY <1>9 DEF EnterCommit, Goto
  <2>2. lock' = p /\ (lock = NoProc \/ lock = p) /\ UNCHANGED <<disk, objects, sweep, job>>
    BY <1>9 DEF EnterCommit, Acquire
  <2>3. LockHeld'
    BY <1>1, <2>1, <2>2, FreeLock DEF ClosureInv, TypeOK, LockHeld
  <2> QED
    BY <1>1, <2>1, <2>2, <2>3 DEF ClosureInv, TypeOK, Verified, Sweeping, CommittedClosure
<1>10. CASE WriteObject(p)
  BY <1>1, <1>10 DEF ClosureInv, TypeOK, LockHeld, Verified, Sweeping, CommittedClosure,
                     WriteObject
<1>11. CASE Verify(p)
  <2>1. ObjectsOf[job[p].gen] \subseteq objects
    BY <1>11, EncodingAssumption DEF Verify, Guarded, ClosureInv, TypeOK, Job
  <2> QED
    BY <1>1, <1>11, <2>1 DEF ClosureInv, TypeOK, LockHeld, Verified, Sweeping,
                             CommittedClosure, Verify, Goto
<1>12. ASSUME NEW f \in {"surface", "root"}, NEW here \in {"writeSurface", "writeRoot"},
              NEW next \in {"writeRoot", "verify"}, WriteHeader(p, f, here, next)
       PROVE  ClosureInv'
  <2>1. lock = p /\ disk'["manifest"] = disk["manifest"]
    BY <1>12 DEF ClosureInv, TypeOK, LockHeld, WriteHeader
  <2>2. \A r \in Publishers : job'[r].gen = job[r].gen
    BY <1>12 DEF ClosureInv, TypeOK, Job, WriteHeader, NewIdentity
  <2> QED
    BY <1>1, <1>12, <2>1, <2>2 DEF ClosureInv, TypeOK, LockHeld, Verified, Sweeping,
                                   CommittedClosure, WriteHeader, Goto
<1>13. CASE WriteHeader(p, "manifest", "writeManifest", "final")
  <2>1. lock = p /\ ObjectsOf[job[p].gen] \subseteq objects /\ job[p].gen \in Gens
    BY <1>13 DEF ClosureInv, TypeOK, Job, LockHeld, Verified, WriteHeader
  <2>2. \A r \in Publishers : job'[r].gen = job[r].gen
    BY <1>13 DEF ClosureInv, TypeOK, Job, WriteHeader, NewIdentity
  <2>3. CommittedClosure'
    BY <1>13, <2>1 DEF ClosureInv, TypeOK, CommittedClosure, WriteHeader
  <2>4. Sweeping'
    BY <1>1, <1>13, <2>1 DEF ClosureInv, TypeOK, LockHeld, Sweeping, WriteHeader, Goto
  <2>5. LockHeld' /\ Verified'
    BY <1>1, <1>13, <2>1, <2>2 DEF ClosureInv, TypeOK, LockHeld, Verified, WriteHeader, Goto
  <2> QED
    BY <2>3, <2>4, <2>5 DEF ClosureInv
<1>14. CASE Finish(p) \/ Fail(p) \/ Interrupt(p)
  <2>1. /\ Goto(p, "idle") /\ Release(p)
        /\ job' = [job EXCEPT ![p] = NoJob]
        /\ UNCHANGED <<disk, objects, sweep>>
    BY <1>14 DEF Finish, Fail, Interrupt, Leave
  <2> QED
    BY <1>1, <2>1 DEF ClosureInv, TypeOK, LockHeld, Verified, Sweeping, CommittedClosure,
                      Release, Goto
<1> QED
  BY <1>3, <1>5, <1>6, <1>7, <1>8, <1>9, <1>10, <1>11, <1>12, <1>13, <1>14
     DEF PublisherWork

\* What a cleaner does to it.
LEMMA ClosureCleaner ==
    ASSUME ClosureInv, TypeOK', NEW q \in Cleaners,
           \/ \E g \in Gens : Audit(q, g)
           \/ \E r \in pruneLog : EnterRestore(q, r)
           \/ CleanerWork(q)
    PROVE  ClosureInv'
<1> USE ConstantFacts DEF Headers, Committing, Deleting
<1>1. q \in Procs /\ q \notin Publishers /\ q # NoProc
  BY DEF Procs
<1>2. CASE \E g \in Gens : Audit(q, g)
  BY <1>1, <1>2 DEF ClosureInv, TypeOK, LockHeld, Verified, Sweeping, CommittedClosure,
                    Audit, Goto
<1>3. CASE \E r \in pruneLog : EnterRestore(q, r)
  <2>1. /\ lock = NoProc /\ lock' = q /\ pc[q] = "idle"
        /\ pc' = [pc EXCEPT ![q] = "restoring"]
        /\ \A r \in Cleaners : r # q => sweep'[r] = sweep[r]
        /\ UNCHANGED <<disk, objects, job>>
    BY <1>3 DEF EnterRestore, Acquire, Goto, ClosureInv, TypeOK
  <2>2. LockHeld'
    BY <1>1, <2>1, FreeLock DEF ClosureInv, TypeOK, LockHeld
  <2> QED
    BY <1>1, <2>1, <2>2 DEF ClosureInv, TypeOK, Verified, Sweeping, CommittedClosure
<1>4. CASE EnterPrune(q)
  <2>1. /\ lock = NoProc /\ lock' = q /\ pc[q] = "audited"
        /\ pc' = [pc EXCEPT ![q] = "pruneBackup"]
        /\ disk = Encoded[sweep[q].gen]
        /\ UNCHANGED <<disk, objects, job, sweep>>
    BY <1>4 DEF EnterPrune, Acquire, Goto, Valid
  <2>2. LockHeld'
    BY <1>1, <2>1, FreeLock DEF ClosureInv, TypeOK, LockHeld
  <2>3. Sweeping'
    BY <1>1, <2>1 DEF ClosureInv, TypeOK, Sweeping
  <2> QED
    BY <1>1, <2>1, <2>2, <2>3 DEF ClosureInv, TypeOK, Verified, CommittedClosure
<1>5. CASE SavePreimages(q)
  BY <1>1, <1>5 DEF ClosureInv, TypeOK, LockHeld, Verified, Sweeping, CommittedClosure,
                    SavePreimages, Goto
<1>6. CASE Prune(q)
  <2>1. PICK o \in sweep[q].cands :
               /\ objects' = objects \ {o}
               /\ sweep' = [sweep EXCEPT ![q].cands = @ \ {o}]
    BY <1>6 DEF Prune
  <2>2. lock = q /\ UNCHANGED <<disk, lock, pc, job>>
    BY <1>6 DEF Prune, ClosureInv, LockHeld
  <2>3. PICK g \in Gens : disk["manifest"] = Encoded[g]["manifest"]
                          /\ ObjectsOf[g] \subseteq objects
    BY DEF ClosureInv, CommittedClosure
  <2>4. g = sweep[q].gen /\ o \notin ObjectsOf[g]
    BY <1>6, <2>1, <2>3, EncodingAssumption
       DEF Prune, ClosureInv, TypeOK, PruneRecord, Sweeping
  <2>5. CommittedClosure'
    BY <2>1, <2>2, <2>3, <2>4 DEF CommittedClosure
  <2>6. Verified'
    BY <1>1, <2>2 DEF Verified, ClosureInv, LockHeld
  <2>7. Sweeping' /\ LockHeld'
    BY <2>1, <2>2 DEF Sweeping, LockHeld, ClosureInv, TypeOK, PruneRecord
  <2> QED
    BY <2>5, <2>6, <2>7 DEF ClosureInv
<1>7. CASE RestoreObject(q)
  BY <1>1, <1>7 DEF ClosureInv, TypeOK, LockHeld, Verified, Sweeping, CommittedClosure,
                    RestoreObject
<1>8. CASE StopCleaner(q)
  BY <1>1, <1>8 DEF ClosureInv, TypeOK, LockHeld, Verified, Sweeping, CommittedClosure,
                    StopCleaner, Release, Goto
<1> QED
  BY <1>2, <1>3, <1>4, <1>5, <1>6, <1>7, <1>8 DEF CleanerWork

LEMMA ClosureStep == ClosureInv /\ [Next]_vars => ClosureInv'
<1> SUFFICES ASSUME ClosureInv, [Next]_vars PROVE ClosureInv'
  OBVIOUS
<1>1. TypeOK'
  BY TypeStep DEF ClosureInv
<1>2. CASE UNCHANGED vars
  BY <1>2 DEF ClosureInv, TypeOK, LockHeld, Verified, Sweeping, CommittedClosure, vars
<1>3. CASE Next
  BY <1>1, <1>3, ClosurePublisher, ClosureCleaner DEF Next
<1> QED
  BY <1>2, <1>3

\* Whoever crashes where, and whatever is pruned meanwhile, the manifest on
\* disk names a generation all of whose storage objects are present.
THEOREM ClosureHolds == Spec => []CommittedClosure
<1>1. ClosureInv => CommittedClosure
  BY DEF ClosureInv
<1> QED
  BY <1>1, ClosureInit, ClosureStep, PTL DEF Spec

(***************************************************************************)
(* What the commit under way has made of the headers                       *)
(***************************************************************************)

\* The headers as a commit finds and leaves them, phase by phase: nobody else
\* writes while it holds the lock, so what it has compared is what it replaces.
Written(p) ==
    LET new == Encoded[job[p].gen] IN
    /\ pc[p] \in {"writeObjects", "writeSurface"} => disk = job[p].prev
    /\ pc[p] \in HeaderPhases => disk["surface"] = new["surface"]
    /\ pc[p] \in {"verify", "writeManifest", "final"} => disk["root"] = new["root"]
    /\ pc[p] = "writeRoot" => disk["root"] = job[p].prev["root"]
    /\ pc[p] \in {"writeRoot", "verify", "writeManifest"} =>
          disk["manifest"] = job[p].prev["manifest"]
    /\ pc[p] = "final" => disk["manifest"] = new["manifest"]
    /\ pc[p] \in {"writeSurface"} \cup HeaderPhases => ObjectsOf[job[p].gen] \subseteq objects

\* A flat commit compares nothing before it reads its writes back.
ReadBack(p) ==
    pc[p] = "writeManifest" =>
       \A f \in {"surface", "root"} : disk[f] = Encoded[job[p].gen][f]

CoherentInv ==
    /\ ClosureInv
    /\ \A p \in Publishers : (Guarded(p) => Written(p)) /\ ReadBack(p)
    /\ TornOnlyByInterruption

\* A publisher that does nothing, while whoever else writes holds the lock.
LEMMA WrittenKept ==
    ASSUME CoherentInv, NEW r \in Publishers,
           pc'[r] = pc[r], job'[r].gen = job[r].gen, job'[r].kind = job[r].kind,
           job'[r].prev = job[r].prev,
           pc[r] \in Committing => disk' = disk /\ objects \subseteq objects'
    PROVE  (Guarded(r)' => Written(r)') /\ ReadBack(r)'
<1>1. Guarded(r)' <=> Guarded(r)
  BY DEF Guarded
<1>2. CASE pc[r] \in Committing
  <2>1. Written(r) => Written(r)'
    BY <1>2 DEF Written
  <2>2. ReadBack(r)'
    BY <1>2 DEF CoherentInv, ReadBack
  <2> QED
    BY <1>1, <2>1, <2>2 DEF CoherentInv
<1>3. CASE pc[r] \notin Committing
  BY <1>3 DEF Written, ReadBack, Committing, HeaderPhases
<1> QED
  BY <1>2, <1>3

\* A valid snapshot stays valid while its headers stay and objects are added.
LEMMA TornKept ==
    ASSUME TornOnlyByInterruption, disk' = disk, objects \subseteq objects',
           interrupted => interrupted',
           \A r \in Publishers : pc[r] \in HeaderPhases => pc'[r] = pc[r]
    PROVE  TornOnlyByInterruption'
BY DEF TornOnlyByInterruption, Valid

LEMMA CoherentInit == Init => CoherentInv
<1> SUFFICES ASSUME Init PROVE CoherentInv
  OBVIOUS
<1>1. \A p \in Publishers : Written(p) /\ ReadBack(p)
  BY DEF Init, Written, ReadBack, HeaderPhases, Procs
<1>2. TornOnlyByInterruption
  BY ConstantFacts DEF Init, TornOnlyByInterruption, Valid
<1> QED
  BY <1>1, <1>2, ClosureInit DEF CoherentInv

\* A commit of indexed storage finds what it compared and is not refused once
\* it has written a header.
LEMMA NotRefused ==
    ASSUME CoherentInv, NEW p \in Publishers, Guarded(p), pc[p] \in HeaderPhases
    PROVE  ~Refused(p)
<1>1. Written(p) /\ disk \in [Headers -> Contents] /\ job[p].gen \in Gens
  BY DEF CoherentInv, ClosureInv, TypeOK, Job
<1>2. Encoded[job[p].gen] \in [Headers -> Contents]
  BY <1>1, ConstantFacts
<1>3. pc[p] = "final" => disk = Encoded[job[p].gen]
  BY <1>1, <1>2 DEF Written, HeaderPhases, Headers
<1> QED
  BY <1>1, <1>3 DEF Refused, Written, HeaderPhases

LEMMA CoherentPublisher ==
    ASSUME CoherentInv, ClosureInv', NEW p \in Publishers,
           \/ \E g \in Gens : Generate(p, g)
           \/ \E m \in Migrations : Migrate(p, m)
           \/ \E b \in backups : Recover(p, b)
           \/ PublisherWork(p)
           \/ Interrupt(p)
    PROVE  CoherentInv'
<1> USE DEF Headers
<1>1. /\ p \in Procs /\ pc \in [Procs -> PublisherLabels \cup CleanerLabels]
      /\ job \in [Publishers -> Job] /\ job[p].gen \in Gens
      /\ \A r \in Publishers : r \in Procs
  BY DEF CoherentInv, ClosureInv, TypeOK, Procs, Job
<1>2. ASSUME disk' = disk, objects \subseteq objects', UNCHANGED interrupted,
             NEW l, Goto(p, l), pc[p] \notin HeaderPhases,
             \A r \in Publishers : r # p => job'[r] = job[r],
             Guarded(p)' => Written(p)', ReadBack(p)'
      PROVE  CoherentInv'
  <2>1. \A r \in Publishers : r # p => pc'[r] = pc[r]
    BY <1>1, <1>2 DEF Goto
  <2>2. TornOnlyByInterruption'
    BY <1>2, <2>1, TornKept DEF CoherentInv
  <2>3. ASSUME NEW r \in Publishers, r # p PROVE (Guarded(r)' => Written(r)') /\ ReadBack(r)'
    BY <1>2, <2>1, <2>3, WrittenKept
  <2> QED
    BY <1>2, <2>2, <2>3 DEF CoherentInv
<1>3. ASSUME pc'[p] \notin Committing PROVE Written(p)' /\ ReadBack(p)'
  BY <1>3 DEF Written, ReadBack, Committing, HeaderPhases
<1>4. ASSUME NEW k, NEW g, Start(p, k, g) PROVE CoherentInv'
  <2>1. /\ UNCHANGED <<disk, objects, interrupted>> /\ Goto(p, "planObjects")
        /\ pc[p] \notin HeaderPhases
        /\ \A r \in Publishers : r # p => job'[r] = job[r]
    BY <1>1, <1>4 DEF Start, HeaderPhases
  <2>2. pc'[p] \notin Committing
    BY <1>1, <2>1 DEF Goto, Committing
  <2> QED
    BY <1>2, <1>3, <2>1, <2>2
<1>5. CASE \/ \E g \in Gens : Generate(p, g)
           \/ \E m \in Migrations : Migrate(p, m)
           \/ \E b \in backups : Recover(p, b)
  BY <1>4, <1>5 DEF Generate, Migrate, Recover
<1>6. CASE PlanObjects(p) \/ SaveBackup(p) \/ Recheck(p)
  <2>1. PICK l \in {"planSurface", "recheck", "lock"} : Goto(p, l)
    BY <1>6 DEF PlanObjects, SaveBackup, Recheck
  <2>2. /\ UNCHANGED <<disk, objects, interrupted>> /\ pc[p] \notin HeaderPhases
        /\ \A r \in Publishers : r # p => job'[r] = job[r]
    BY <1>1, <1>6 DEF PlanObjects, SaveBackup, Recheck, HeaderPhases
  <2>3. pc'[p] \notin Committing
    BY <1>1, <2>1 DEF Goto, Committing
  <2> QED
    BY <1>2, <1>3, <2>1, <2>2, <2>3
<1>7. ASSUME NEW f, NEW here \in {"planSurface", "planRoot", "planManifest"},
             NEW next \in {"planRoot", "planManifest", "backup"}, PlanHeader(p, f, here, next)
      PROVE  CoherentInv'
  <2>1. /\ UNCHANGED <<disk, objects, interrupted>> /\ Goto(p, next)
        /\ pc[p] \notin HeaderPhases
        /\ \A r \in Publishers : r # p => job'[r] = job[r]
    BY <1>1, <1>7 DEF PlanHeader, HeaderPhases
  <2>2. pc'[p] \notin Committing
    BY <1>1, <2>1 DEF Goto, Committing
  <2> QED
    BY <1>2, <1>3, <2>1, <2>2
<1>8. CASE EnterCommit(p)
  <2>1. /\ UNCHANGED <<disk, objects, interrupted, job>> /\ pc[p] \notin HeaderPhases
        /\ Goto(p, IF Guarded(p) THEN "precheck" ELSE "writeSurface")
    BY <1>8 DEF EnterCommit, HeaderPhases
  <2>2. (Guarded(p)' <=> Guarded(p)) /\ (Guarded(p) => pc'[p] = "precheck") /\ pc'[p] # "writeManifest"
    BY <1>1, <2>1 DEF Guarded, Goto
  <2>3. (Guarded(p)' => Written(p)') /\ ReadBack(p)'
    BY <2>2 DEF Written, ReadBack, HeaderPhases
  <2> QED
    BY <1>2, <2>1, <2>3
<1>9. CASE Precheck(p)
  <2>1. /\ UNCHANGED <<disk, objects, interrupted, job>> /\ pc[p] \notin HeaderPhases
        /\ Goto(p, "writeObjects") /\ disk = job[p].prev
    BY <1>9 DEF Precheck, HeaderPhases
  <2>2. Written(p)' /\ ReadBack(p)'
    BY <1>1, <2>1 DEF Written, ReadBack, HeaderPhases, Goto
  <2> QED
    BY <1>2, <2>1, <2>2
<1>10. CASE WriteObject(p)
  <2>1. /\ UNCHANGED <<disk, pc, interrupted>> /\ pc[p] = "writeObjects" /\ objects \subseteq objects'
        /\ \A r \in Publishers : job'[r].prev = job[r].prev /\ job'[r].gen = job[r].gen
                                 /\ job'[r].kind = job[r].kind
    BY <1>1, <1>10 DEF WriteObject, Job
  <2>2. \A r \in Publishers : (Guarded(r)' => Written(r)') /\ ReadBack(r)'
    BY <2>1, WrittenKept
  <2>3. TornOnlyByInterruption'
    BY <2>1, TornKept DEF CoherentInv
  <2> QED
    BY <2>2, <2>3 DEF CoherentInv
<1>11. CASE ObjectsWritten(p)
  <2>1. /\ UNCHANGED <<disk, objects, interrupted, job>> /\ pc[p] = "writeObjects"
        /\ Goto(p, "writeSurface") /\ ObjectsOf[job[p].gen] \subseteq objects
    BY <1>11 DEF ObjectsWritten
  <2>2. pc'[p] = "writeSurface"
    BY <1>1, <2>1 DEF Goto
  <2>3. Guarded(p)' => Written(p)'
    BY <2>1, <2>2 DEF Written, HeaderPhases, CoherentInv, Guarded
  <2>4. ReadBack(p)' /\ pc[p] \notin HeaderPhases
    BY <2>1, <2>2 DEF ReadBack, HeaderPhases
  <2> QED
    BY <1>2, <2>1, <2>3, <2>4
<1>12. ASSUME NEW f \in Headers, NEW here \in Committing, NEW next \in HeaderPhases,
              WriteHeader(p, f, here, next),
              Guarded(p) /\ Written(p) => Written(p)', ReadBack(p)'
       PROVE  CoherentInv'
  <2>1. /\ pc[p] = here /\ pc'[p] = next
        /\ \A r \in Publishers : r # p => pc'[r] = pc[r]
    BY <1>1, <1>12 DEF WriteHeader, Goto
  <2>2. \A r \in Publishers : job'[r].prev = job[r].prev /\ job'[r].gen = job[r].gen
                              /\ job'[r].kind = job[r].kind
    BY <1>1, <1>12 DEF WriteHeader, NewIdentity, Job
  <2>3. \A r \in Publishers : r # p => pc[r] \notin Committing
    BY <1>12, <2>1 DEF CoherentInv, ClosureInv, LockHeld
  <2>4. \A r \in Publishers : r # p => (Guarded(r)' => Written(r)') /\ ReadBack(r)'
    BY <2>1, <2>2, <2>3, WrittenKept
  <2>5. Guarded(p)' => Written(p)'
    BY <1>12, <2>2 DEF CoherentInv, Guarded
  <2>6. TornOnlyByInterruption'
    BY <2>1 DEF TornOnlyByInterruption
  <2> QED
    BY <1>12, <2>4, <2>5, <2>6 DEF CoherentInv
<1>13. ASSUME NEW f \in Headers, NEW here, NEW next, WriteHeader(p, f, here, next)
       PROVE  /\ pc[p] = here /\ pc'[p] = next
              /\ job'[p] = job[p] /\ objects' = objects
              /\ \A h \in Headers : h # f => disk'[h] = disk[h]
              /\ Guarded(p) => disk'[f] = Encoded[job[p].gen][f]
  <2>1. disk \in [Headers -> Contents] /\ Encoded[job[p].gen] \in [Headers -> Contents]
    BY <1>1, ConstantFacts DEF CoherentInv, ClosureInv, TypeOK
  <2>2. job'[p] = job[p]
    BY <1>13 DEF WriteHeader, NewIdentity
  <2> QED
    BY <1>1, <1>13, <2>1, <2>2 DEF WriteHeader, Goto
<1>14. CASE WriteHeader(p, "surface", "writeSurface", "writeRoot")
  <2>1. Guarded(p) /\ Written(p) => Written(p)'
    BY <1>13, <1>14 DEF Written, HeaderPhases
  <2>2. ReadBack(p)'
    BY <1>13, <1>14 DEF ReadBack
  <2> QED
    BY <1>12, <1>14, <2>1, <2>2 DEF Committing, HeaderPhases
<1>15. CASE WriteHeader(p, "root", "writeRoot", "verify")
  <2>1. Guarded(p) /\ Written(p) => Written(p)'
    BY <1>13, <1>15 DEF Written, HeaderPhases
  <2>2. ReadBack(p)'
    BY <1>13, <1>15 DEF ReadBack
  <2> QED
    BY <1>12, <1>15, <2>1, <2>2 DEF Committing, HeaderPhases
<1>16. CASE WriteHeader(p, "manifest", "writeManifest", "final")
  <2>1. Guarded(p) /\ Written(p) => Written(p)'
    BY <1>13, <1>16 DEF Written, HeaderPhases
  <2>2. ReadBack(p)'
    BY <1>13, <1>16 DEF ReadBack
  <2> QED
    BY <1>12, <1>16, <2>1, <2>2 DEF Committing, HeaderPhases
<1>17. CASE Verify(p)
  <2>1. /\ UNCHANGED <<disk, objects, interrupted, job>> /\ pc[p] = "verify"
        /\ pc'[p] = "writeManifest" /\ \A r \in Publishers : r # p => pc'[r] = pc[r]
        /\ \A f \in {"surface", "root"} : disk[f] = Encoded[job[p].gen][f]
    BY <1>1, <1>17 DEF Verify, Goto
  <2>2. \A r \in Publishers : r # p => (Guarded(r)' => Written(r)') /\ ReadBack(r)'
    BY <2>1, WrittenKept
  <2>3. Guarded(p)' => Written(p)'
    BY <2>1 DEF CoherentInv, Guarded, Written, HeaderPhases
  <2>4. ReadBack(p)' /\ TornOnlyByInterruption'
    BY <2>1 DEF ReadBack, TornOnlyByInterruption, HeaderPhases
  <2> QED
    BY <2>2, <2>3, <2>4 DEF CoherentInv
<1>18. CASE Finish(p) \/ Fail(p) \/ Interrupt(p)
  <2>1. /\ Goto(p, "idle") /\ UNCHANGED <<disk, objects>>
        /\ job' = [job EXCEPT ![p] = NoJob]
    BY <1>18 DEF Finish, Fail, Interrupt, Leave
  <2>2. pc'[p] = "idle" /\ \A r \in Publishers : r # p => pc'[r] = pc[r] /\ job'[r] = job[r]
    BY <1>1, <2>1 DEF Goto
  <2>3. \A r \in Publishers : r # p => (Guarded(r)' => Written(r)') /\ ReadBack(r)'
    BY <2>1, <2>2, WrittenKept
  <2>4. Written(p)' /\ ReadBack(p)'
    BY <1>3, <2>2 DEF Committing
  <2>5. TornOnlyByInterruption'
    <3>1. CASE Finish(p)
      <4>1. disk = Encoded[job[p].gen] /\ ObjectsOf[job[p].gen] \subseteq objects
        BY <1>1, <3>1, EncodingAssumption DEF Finish, Guarded
      <4> QED
        BY <1>1, <2>1, <4>1 DEF TornOnlyByInterruption, Valid
    <3>2. CASE (Fail(p) \/ Interrupt(p)) /\ pc[p] \in HeaderPhases
      <4>1. interrupted'
        BY <3>2, NotRefused DEF Fail, Interrupt
      <4> QED
        BY <4>1 DEF TornOnlyByInterruption
    <3>3. CASE (Fail(p) \/ Interrupt(p)) /\ pc[p] \notin HeaderPhases
      <4>1. interrupted => interrupted'
        BY <3>3 DEF Fail, Interrupt
      <4> QED
        BY <2>1, <2>2, <3>3, <4>1, TornKept DEF CoherentInv
    <3> QED
      BY <1>18, <3>1, <3>2, <3>3
  <2> QED
    BY <2>3, <2>4, <2>5 DEF CoherentInv
<1> QED
  BY <1>5, <1>6, <1>7, <1>8, <1>9, <1>10, <1>11, <1>14, <1>15, <1>16, <1>17, <1>18
     DEF PublisherWork

LEMMA CoherentCleaner ==
    ASSUME CoherentInv, ClosureInv', NEW q \in Cleaners,
           \/ \E g \in Gens : Audit(q, g)
           \/ \E r \in pruneLog : EnterRestore(q, r)
           \/ CleanerWork(q)
    PROVE  CoherentInv'
<1>1. UNCHANGED <<disk, job, interrupted>>
  BY DEF Audit, EnterRestore, CleanerWork, EnterPrune, SavePreimages, Prune, RestoreObject,
         StopCleaner
<1>2. \A p \in Publishers : pc'[p] = pc[p]
  <2>1. pc' = pc \/ \E l : pc' = [pc EXCEPT ![q] = l]
    BY DEF Audit, EnterRestore, CleanerWork, EnterPrune, SavePreimages, Prune, RestoreObject,
           StopCleaner, Goto
  <2> QED
    BY <2>1, ConstantFacts DEF CoherentInv, ClosureInv, TypeOK, Procs
<1>3. CASE Prune(q)
  <2>1. lock = q
    BY <1>3 DEF Prune, CoherentInv, ClosureInv, LockHeld, Deleting
  <2>2. \A p \in Publishers : pc[p] \notin Committing
    BY <2>1, ConstantFacts DEF CoherentInv, ClosureInv, LockHeld
  <2>3. PICK o \in sweep[q].cands : objects' = objects \ {o}
    BY <1>3 DEF Prune
  <2>4. ASSUME NEW g \in Gens, Valid(g) PROVE Valid(g)'
    <3>1. g = sweep[q].gen /\ o \notin ObjectsOf[g]
      BY <1>3, <2>3, <2>4, EncodingAssumption
         DEF Prune, CoherentInv, ClosureInv, TypeOK, PruneRecord, Sweeping, Valid, Deleting
    <3> QED
      BY <1>1, <2>3, <2>4, <3>1 DEF Valid
  <2>5. TornOnlyByInterruption'
    BY <1>1, <1>2, <2>4 DEF CoherentInv, TornOnlyByInterruption
  <2>6. \A r \in Publishers : (Guarded(r)' => Written(r)') /\ ReadBack(r)'
    BY <1>1, <1>2, <2>2, WrittenKept
  <2> QED
    BY <2>5, <2>6 DEF CoherentInv
<1>4. CASE ~Prune(q)
  <2>1. objects \subseteq objects'
    BY <1>4 DEF Audit, EnterRestore, CleanerWork, EnterPrune, SavePreimages, RestoreObject,
                StopCleaner
  <2>2. \A r \in Publishers : (Guarded(r)' => Written(r)') /\ ReadBack(r)'
    BY <1>1, <1>2, <2>1, WrittenKept
  <2>3. TornOnlyByInterruption'
    BY <1>1, <1>2, <2>1, TornKept DEF CoherentInv
  <2> QED
    BY <2>2, <2>3 DEF CoherentInv
<1> QED
  BY <1>3, <1>4

LEMMA CoherentStep == CoherentInv /\ [Next]_vars => CoherentInv'
<1> SUFFICES ASSUME CoherentInv, [Next]_vars PROVE CoherentInv'
  OBVIOUS
<1>1. ClosureInv'
  BY ClosureStep DEF CoherentInv
<1>2. CASE UNCHANGED vars
  <2>1. \A r \in Publishers : (Guarded(r)' => Written(r)') /\ ReadBack(r)'
    BY <1>2, WrittenKept DEF vars
  <2>2. TornOnlyByInterruption'
    BY <1>2, TornKept DEF vars, CoherentInv
  <2> QED
    BY <1>1, <2>1, <2>2 DEF CoherentInv
<1>3. CASE Next
  BY <1>1, <1>3, CoherentPublisher, CoherentCleaner DEF Next
<1> QED
  BY <1>2, <1>3

\* Torn headers are the work of a commit under way, of one that was cut short,
\* or of a flat one that was refused; an indexed one is refused before it writes.
THEOREM TornOnlyIfCutShort == Spec => []TornOnlyByInterruption
<1>1. CoherentInv => TornOnlyByInterruption
  BY DEF CoherentInv
<1> QED
  BY <1>1, CoherentInit, CoherentStep, PTL DEF Spec

\* Only a step of WriteHeader at the manifest changes the manifest.
LEMMA ManifestChanges ==
    ASSUME CoherentInv, [Next]_vars, disk'["manifest"] # disk["manifest"]
    PROVE  \E p \in Publishers : WriteHeader(p, "manifest", "writeManifest", "final")
<1>1. disk \in [Headers -> Contents]
  BY DEF CoherentInv, ClosureInv, TypeOK
<1>2. PICK p \in Publishers : disk' # disk /\ PublisherWork(p)
  BY DEF Next, vars, Generate, Migrate, Recover, Start, Interrupt, Leave, Audit, EnterRestore,
         CleanerWork, EnterPrune, SavePreimages, Prune, RestoreObject, StopCleaner
<1>3. \/ WriteHeader(p, "surface", "writeSurface", "writeRoot")
      \/ WriteHeader(p, "root", "writeRoot", "verify")
      \/ WriteHeader(p, "manifest", "writeManifest", "final")
  BY <1>2 DEF PublisherWork, PlanObjects, PlanHeader, SaveBackup, Recheck, EnterCommit, Precheck,
              WriteObject, ObjectsWritten, Verify, Finish, Fail, Leave
<1> QED
  BY <1>1, <1>3 DEF WriteHeader, Headers

\* The manifest is the last header of a generation that is otherwise in place,
\* indexed or flat, whatever its plan was drawn against.
THEOREM ManifestCompletes == Spec => PublishedComplete
<1>1. CoherentInv /\ [Next]_vars =>
        (disk'["manifest"] # disk["manifest"] => (\E g \in Gens : Valid(g))')
  <2> SUFFICES ASSUME CoherentInv, [Next]_vars, disk'["manifest"] # disk["manifest"]
               PROVE  (\E g \in Gens : Valid(g))'
    OBVIOUS
  <2>1. PICK p \in Publishers : WriteHeader(p, "manifest", "writeManifest", "final")
    BY ManifestChanges
  <2>2. job[p].gen \in Gens /\ disk \in [Headers -> Contents]
        /\ Encoded[job[p].gen] \in [Headers -> Contents]
    BY ConstantFacts DEF CoherentInv, ClosureInv, TypeOK, Job
  <2>3. disk' = [disk EXCEPT !["manifest"] = Encoded[job[p].gen]["manifest"]]
        /\ objects' = objects /\ pc[p] = "writeManifest"
    BY <2>1 DEF WriteHeader
  <2>4. /\ \A f \in {"surface", "root"} : disk[f] = Encoded[job[p].gen][f]
        /\ ObjectsOf[job[p].gen] \subseteq objects
    BY <2>3 DEF CoherentInv, ClosureInv, ReadBack, Verified
  <2>5. disk' = Encoded[job[p].gen]
    BY <2>2, <2>3, <2>4 DEF Headers
  <2> QED
    BY <2>2, <2>3, <2>4, <2>5 DEF Valid
<1> QED
  BY <1>1, CoherentInit, CoherentStep, PTL DEF Spec, PublishedComplete

(***************************************************************************)
(* What was captured at the start is what is replaced                      *)
(***************************************************************************)

\* The phases that read the wiki, before the recheck that ends them.
Reading == {"planObjects", "planSurface", "planRoot", "planManifest", "backup", "recheck"}

\* The header f has been planned.
Planned(p, f) ==
    \/ pc[p] \in PlannedPhases \cup {"final"}
    \/ pc[p] = "planManifest" /\ f # "manifest"
    \/ pc[p] = "planRoot" /\ f = "surface"

\* An operation under the lock keeps the manifest it captured in place.
HolderKeeps(p) ==
    p \in Holders => /\ lock = p
                     /\ pc[p] # "final" => job[p].base["manifest"] = disk["manifest"]

\* A read session whose files were not replaced still sees what it captured,
\* and past its recheck it has planned on nothing else.
SessionKeeps(p) ==
    job[p].kind # "generate" =>
       /\ Guarded(p)
       /\ pc[p] \in Reading /\ ~job[p].stale => disk = job[p].base
       /\ pc[p] \notin Reading \/ ~job[p].stale =>
             \A f \in Headers : Planned(p, f) => job[p].prev[f] = job[p].base[f]

\* A recovery undoes a migration that is on record.
RecoverySource(p) ==
    job[p].kind = "recover" =>
       \E b \in backups :
          /\ b.orig = job[p].gen
          /\ job[p].base["manifest"] \in {Encoded[b.orig]["manifest"], Encoded[b.target]["manifest"]}

Captured(p) ==
    pc[p] # "idle" =>
       /\ job[p].kind \in {"generate", "migrate", "recover"}
       /\ HolderKeeps(p) /\ SessionKeeps(p) /\ RecoverySource(p)

CapturedInv == CoherentInv /\ \A p \in Publishers : Captured(p)

LEMMA CapturedInit == Init => CapturedInv
BY CoherentInit DEF Init, CapturedInv, Captured, Procs

\* A publisher that does nothing while the manifest of a lock holder stays,
\* and whatever is replaced is seen as replaced.
LEMMA CapturedKept ==
    ASSUME CapturedInv, NEW r \in Publishers,
           pc'[r] = pc[r], job'[r].gen = job[r].gen, job'[r].kind = job[r].kind,
           job'[r].prev = job[r].prev, job'[r].base = job[r].base,
           backups \subseteq backups', lock = r => lock' = r,
           lock = r => disk'["manifest"] = disk["manifest"],
           pc[r] # "idle" => job'[r].stale \/ (disk' = disk /\ job'[r].stale = job[r].stale)
    PROVE  Captured(r)'
<1> SUFFICES ASSUME pc'[r] # "idle" PROVE Captured(r)'
  BY DEF Captured
<1>1. /\ job[r].kind \in {"generate", "migrate", "recover"}
      /\ HolderKeeps(r) /\ SessionKeeps(r) /\ RecoverySource(r)
  BY DEF CapturedInv, Captured
<1>2. HolderKeeps(r)' /\ RecoverySource(r)'
  BY <1>1 DEF HolderKeeps, RecoverySource
<1>3. SessionKeeps(r)'
  <2>1. (Guarded(r)' <=> Guarded(r)) /\ \A f \in Headers : Planned(r, f)' <=> Planned(r, f)
    BY DEF Guarded, Planned
  <2> QED
    BY <1>1, <2>1 DEF SessionKeeps
<1> QED
  BY <1>1, <1>2, <1>3 DEF Captured

LEMMA CapturedPublisher ==
    ASSUME CapturedInv, CoherentInv', NEW p \in Publishers,
           \/ \E g \in Gens : Generate(p, g)
           \/ \E m \in Migrations : Migrate(p, m)
           \/ \E b \in backups : Recover(p, b)
           \/ PublisherWork(p)
           \/ Interrupt(p)
    PROVE  CapturedInv'
<1> USE DEF Headers
<1>1. /\ p \in Procs /\ pc \in [Procs -> PublisherLabels \cup CleanerLabels]
      /\ job \in [Publishers -> Job] /\ p # NoProc /\ disk \in [Headers -> Contents]
      /\ \A r \in Publishers : r \in Procs /\ r # NoProc
  BY ConstantFacts DEF CapturedInv, CoherentInv, ClosureInv, TypeOK, Procs
\* A step without a write leaves the other publishers as they are.
<1>2. ASSUME disk' = disk, NEW l, Goto(p, l), backups \subseteq backups',
             \A r \in Publishers : r # p => job'[r] = job[r],
             lock' = lock \/ (lock = NoProc /\ lock' = p) \/ (lock = p /\ lock' = NoProc),
             Captured(p)'
      PROVE  CapturedInv'
  <2>1. \A r \in Publishers : r # p => pc'[r] = pc[r]
    BY <1>1, <1>2 DEF Goto
  <2>2. ASSUME NEW r \in Publishers, r # p PROVE Captured(r)'
    BY <1>1, <1>2, <2>1, <2>2, CapturedKept
  <2> QED
    BY <1>2, <2>2 DEF CapturedInv
<1>3. ASSUME NEW k \in {"generate", "migrate", "recover"}, NEW g, Start(p, k, g),
             k # "generate" => k = "recover" \/ g \notin FlatGens,
             k = "recover" =>
                \E b \in backups :
                   /\ b.orig = g
                   /\ disk["manifest"] \in {Encoded[b.orig]["manifest"], Encoded[b.target]["manifest"]}
      PROVE  CapturedInv'
  <2>1. /\ UNCHANGED <<disk, backups>> /\ pc[p] = "idle" /\ Goto(p, "planObjects")
        /\ pc'[p] = "planObjects"
        /\ \A r \in Publishers : r # p => job'[r] = job[r]
        /\ job'[p].kind = k /\ job'[p].gen = g /\ job'[p].base = disk
    BY <1>1, <1>3 DEF Start, Goto, NoJob
  <2>2. lock' = lock \/ (lock = NoProc /\ lock' = p)
    BY <1>3 DEF Start, EnterOperation, Acquire
  <2>3. HolderKeeps(p)'
    BY <1>3, <2>1 DEF HolderKeeps, Start, EnterOperation, Acquire
  <2>4. SessionKeeps(p)'
    <3>1. \A f \in Headers : ~Planned(p, f)'
      BY <2>1 DEF Planned, PlannedPhases
    <3> QED
      BY <1>3, <2>1, <3>1 DEF SessionKeeps, Guarded, Reading
  <2>5. RecoverySource(p)'
    BY <1>3, <2>1 DEF RecoverySource
  <2> QED
    BY <1>2, <2>1, <2>2, <2>3, <2>4, <2>5 DEF Captured
<1>4. CASE \E g \in Gens : Generate(p, g)
  BY <1>3, <1>4 DEF Generate
<1>5. CASE \E m \in Migrations : Migrate(p, m)
  BY <1>3, <1>5, MigrationAssumption DEF Migrate
<1>6. CASE \E b \in backups : Recover(p, b)
  BY <1>3, <1>6 DEF Recover
\* A step that keeps the headers and the job keeps what was captured.
<1>7. ASSUME disk' = disk, NEW l, l # "idle", Goto(p, l), pc[p] # "idle",
             backups \subseteq backups',
             \A r \in Publishers : r # p => job'[r] = job[r],
             job'[p].kind = job[p].kind, job'[p].gen = job[p].gen,
             job'[p].base = job[p].base, job'[p].stale = job[p].stale,
             lock' = lock \/ (lock = NoProc /\ lock' = p),
             pc[p] = "final" => l = "final",
             SessionKeeps(p) => SessionKeeps(p)'
      PROVE  CapturedInv'
  <2>1. pc'[p] = l
    BY <1>1, <1>7 DEF Goto
  <2>2. /\ job[p].kind \in {"generate", "migrate", "recover"}
        /\ HolderKeeps(p) /\ SessionKeeps(p) /\ RecoverySource(p)
    BY <1>7 DEF CapturedInv, Captured
  <2>3. HolderKeeps(p)' /\ RecoverySource(p)'
    BY <1>1, <1>7, <2>1, <2>2 DEF HolderKeeps, RecoverySource
  <2> QED
    BY <1>2, <1>7, <2>2, <2>3 DEF Captured
<1>8. CASE PlanObjects(p)
  <2>1. /\ UNCHANGED <<disk, backups, lock>> /\ pc[p] = "planObjects" /\ Goto(p, "planSurface")
        /\ pc'[p] = "planSurface" /\ \A r \in Publishers : r # p => job'[r] = job[r]
        /\ job'[p].kind = job[p].kind /\ job'[p].gen = job[p].gen
        /\ job'[p].base = job[p].base /\ job'[p].stale = job[p].stale
    BY <1>1, <1>8 DEF PlanObjects, Goto, Job
  <2>2. SessionKeeps(p) => SessionKeeps(p)'
    BY <2>1 DEF SessionKeeps, Reading, Planned, PlannedPhases, Guarded
  <2> QED
    BY <1>7, <2>1, <2>2
<1>9. ASSUME NEW f \in Headers, NEW here \in Reading, NEW next \in Reading,
             PlanHeader(p, f, here, next),
             \A h \in Headers : Planned(p, h)' => h = f \/ Planned(p, h)
      PROVE  CapturedInv'
  <2>1. /\ UNCHANGED <<disk, backups, lock>> /\ pc[p] = here /\ Goto(p, next)
        /\ pc'[p] = next /\ \A r \in Publishers : r # p => job'[r] = job[r]
        /\ job'[p].kind = job[p].kind /\ job'[p].gen = job[p].gen
        /\ job'[p].base = job[p].base /\ job'[p].stale = job[p].stale
        /\ \A h \in Headers : job'[p].prev[h] = IF h = f THEN disk[f] ELSE job[p].prev[h]
    BY <1>1, <1>9 DEF PlanHeader, Goto, Job
  <2>2. SessionKeeps(p) => SessionKeeps(p)'
    BY <1>9, <2>1 DEF SessionKeeps, Guarded
  <2> QED
    BY <1>7, <2>1, <2>2 DEF Reading
<1>10. CASE PlanHeader(p, "surface", "planSurface", "planRoot")
  BY <1>1, <1>9, <1>10 DEF Reading, Planned, PlannedPhases, PlanHeader, Goto
<1>11. CASE PlanHeader(p, "root", "planRoot", "planManifest")
  BY <1>1, <1>9, <1>11 DEF Reading, Planned, PlannedPhases, PlanHeader, Goto
<1>12. CASE PlanHeader(p, "manifest", "planManifest", "backup")
  BY <1>1, <1>9, <1>12 DEF Reading, Planned, PlannedPhases, PlanHeader, Goto
\* Past the plan the job stands; only the recheck leaves the reading phases.
<1>13. ASSUME disk' = disk, job' = job, NEW l \in PlannedPhases, Goto(p, l),
              pc[p] \in PlannedPhases, backups \subseteq backups',
              lock' = lock \/ (lock = NoProc /\ lock' = p),
              l \in Reading => pc[p] \in Reading,
              l \notin Reading => pc[p] \notin Reading \/ Unchanged(p)
       PROVE  CapturedInv'
  <2>1. pc'[p] = l /\ (Guarded(p)' <=> Guarded(p))
    BY <1>1, <1>13 DEF Goto, Guarded
  <2>2. \A f \in Headers : Planned(p, f)
    BY <1>13 DEF Planned
  <2>3. SessionKeeps(p) => SessionKeeps(p)'
    BY <1>13, <2>1, <2>2 DEF SessionKeeps, Unchanged
  <2> QED
    BY <1>7, <1>13, <2>3 DEF PlannedPhases
<1>14. CASE SaveBackup(p)
  <2>1. backups \subseteq backups'
    BY <1>14 DEF SaveBackup
  <2> QED
    BY <1>13, <1>14, <2>1 DEF SaveBackup, PlannedPhases, Reading
<1>15. CASE Recheck(p)
  BY <1>13, <1>15 DEF Recheck, PlannedPhases, Reading
<1>16. CASE EnterCommit(p)
  <2>1. PICK l \in {"precheck", "writeSurface"} : Goto(p, l)
    BY <1>16 DEF EnterCommit
  <2> QED
    BY <1>13, <1>16, <2>1 DEF EnterCommit, PlannedPhases, Reading, Acquire
<1>17. CASE Precheck(p)
  BY <1>13, <1>17 DEF Precheck, PlannedPhases, Reading
<1>18. CASE ObjectsWritten(p)
  BY <1>13, <1>18 DEF ObjectsWritten, PlannedPhases, Reading
<1>19. CASE Verify(p)
  BY <1>13, <1>19 DEF Verify, PlannedPhases, Reading
<1>20. CASE WriteObject(p)
  <2>1. /\ UNCHANGED <<disk, pc, lock, backups>>
        /\ \A r \in Publishers :
              /\ job'[r].prev = job[r].prev /\ job'[r].gen = job[r].gen
              /\ job'[r].kind = job[r].kind /\ job'[r].base = job[r].base
              /\ job'[r].stale = job[r].stale
    BY <1>1, <1>20 DEF WriteObject, Job
  <2>2. \A r \in Publishers : Captured(r)'
    BY <2>1, CapturedKept
  <2> QED
    BY <2>2 DEF CapturedInv
<1>21. ASSUME NEW f \in Headers, NEW here \in Committing, NEW next \in HeaderPhases,
              WriteHeader(p, f, here, next), here # "final",
              f = "manifest" => next = "final"
       PROVE  CapturedInv'
  <2>1. /\ UNCHANGED <<lock, backups>> /\ pc[p] = here /\ pc'[p] = next /\ job'[p] = job[p]
        /\ \A r \in Publishers : r # p => pc'[r] = pc[r]
        /\ f # "manifest" => disk'["manifest"] = disk["manifest"]
    BY <1>1, <1>21 DEF WriteHeader, NewIdentity, Goto
  <2>2. \A r \in Publishers :
           /\ job'[r].prev = job[r].prev /\ job'[r].gen = job[r].gen
           /\ job'[r].kind = job[r].kind /\ job'[r].base = job[r].base
    BY <1>1, <1>21 DEF WriteHeader, NewIdentity, Job
  <2>3. lock = p
    BY <1>21, <2>1 DEF CapturedInv, CoherentInv, ClosureInv, LockHeld
  <2>4. ASSUME NEW r \in Publishers, r # p, pc[r] # "idle"
        PROVE  job'[r].stale \/ (disk' = disk /\ job'[r].stale = job[r].stale)
    <3>1. job[r].kind # "none"
      BY <2>4 DEF CapturedInv, Captured
    <3>2. CASE disk' # disk
      <4>1. job' = NewIdentity(p)
        BY <1>21, <3>2 DEF WriteHeader
      <4> QED
        BY <1>1, <2>4, <3>1, <4>1 DEF NewIdentity, Job
    <3>3. CASE disk' = disk
      <4>1. job'[r] = job[r] \/ job'[r] = [job[r] EXCEPT !.stale = TRUE]
        BY <1>21, <2>4 DEF WriteHeader, NewIdentity
      <4> QED
        BY <1>1, <3>3, <4>1 DEF Job
    <3> QED
      BY <3>2, <3>3
  <2>5. ASSUME NEW r \in Publishers, r # p PROVE Captured(r)'
    BY <2>1, <2>2, <2>3, <2>4, <2>5, CapturedKept
  <2>6. Captured(p)'
    <3>1. pc[p] # "idle" /\ pc[p] \notin Reading /\ pc'[p] \notin Reading /\ pc[p] # "final"
      BY <1>21, <2>1 DEF Committing, HeaderPhases, Reading
    <3>2. /\ job[p].kind \in {"generate", "migrate", "recover"}
          /\ HolderKeeps(p) /\ SessionKeeps(p) /\ RecoverySource(p)
      BY <3>1 DEF CapturedInv, Captured
    <3>3. HolderKeeps(p)' /\ RecoverySource(p)'
      BY <1>21, <2>1, <3>1, <3>2 DEF HolderKeeps, RecoverySource
    <3>4. \A h \in Headers : Planned(p, h)
      BY <1>21, <2>1 DEF Committing, Planned, PlannedPhases
    <3>5. SessionKeeps(p)'
      BY <2>1, <3>1, <3>2, <3>4 DEF SessionKeeps, Guarded
    <3> QED
      BY <2>1, <3>2, <3>3, <3>5 DEF Captured
  <2> QED
    BY <2>5, <2>6 DEF CapturedInv
<1>22. CASE WriteHeader(p, "surface", "writeSurface", "writeRoot")
  BY <1>21, <1>22 DEF Committing, HeaderPhases
<1>23. CASE WriteHeader(p, "root", "writeRoot", "verify")
  BY <1>21, <1>23 DEF Committing, HeaderPhases
<1>24. CASE WriteHeader(p, "manifest", "writeManifest", "final")
  BY <1>21, <1>24 DEF Committing, HeaderPhases
<1>25. CASE Finish(p) \/ Fail(p) \/ Interrupt(p)
  <2>1. /\ Goto(p, "idle") /\ UNCHANGED <<disk, backups>> /\ Release(p)
        /\ job' = [job EXCEPT ![p] = NoJob]
    BY <1>25 DEF Finish, Fail, Interrupt, Leave
  <2>2. Captured(p)'
    BY <1>1, <2>1 DEF Goto, Captured
  <2>3. lock' = lock \/ (lock = p /\ lock' = NoProc)
    BY <2>1 DEF Release
  <2> QED
    BY <1>2, <2>1, <2>2, <2>3
<1> QED
  BY <1>4, <1>5, <1>6, <1>8, <1>10, <1>11, <1>12, <1>14, <1>15, <1>16, <1>17, <1>18, <1>19,
     <1>20, <1>22, <1>23, <1>24, <1>25 DEF PublisherWork

LEMMA CapturedStep == CapturedInv /\ [Next]_vars => CapturedInv'
<1> SUFFICES ASSUME CapturedInv, [Next]_vars PROVE CapturedInv'
  OBVIOUS
<1>1. CoherentInv'
  BY CoherentStep DEF CapturedInv
<1>2. CASE UNCHANGED vars
  <2>1. \A r \in Publishers : Captured(r)'
    BY <1>2, CapturedKept DEF vars
  <2> QED
    BY <1>1, <2>1 DEF CapturedInv
<1>3. ASSUME NEW q \in Cleaners,
             \/ \E g \in Gens : Audit(q, g)
             \/ \E r \in pruneLog : EnterRestore(q, r)
             \/ CleanerWork(q)
      PROVE  CapturedInv'
  <2>1. UNCHANGED <<disk, job, backups>>
    BY <1>3 DEF Audit, EnterRestore, CleanerWork, EnterPrune, SavePreimages, Prune,
                RestoreObject, StopCleaner
  <2>2. pc' = pc \/ \E l : pc' = [pc EXCEPT ![q] = l]
    BY <1>3 DEF Audit, EnterRestore, CleanerWork, EnterPrune, SavePreimages, Prune,
                RestoreObject, StopCleaner, Goto
  <2>3. \A r \in Publishers : pc'[r] = pc[r]
    BY <2>2, ConstantFacts DEF CapturedInv, CoherentInv, ClosureInv, TypeOK, Procs
  <2>4. lock' = lock \/ lock = NoProc \/ lock = q
    BY <1>3 DEF Audit, EnterRestore, CleanerWork, EnterPrune, SavePreimages, Prune,
                RestoreObject, StopCleaner, Acquire, Release
  <2>5. \A r \in Publishers : lock = r => lock' = r
    BY <2>4, ConstantFacts DEF Procs
  <2>6. \A r \in Publishers : Captured(r)'
    BY <2>1, <2>3, <2>5, CapturedKept
  <2> QED
    BY <1>1, <2>6 DEF CapturedInv
<1> QED
  BY <1>1, <1>2, <1>3, CapturedPublisher DEF Next

\* Whatever was published between its capture and its commit, a migration, a
\* recovery or an operation under the lock replaces the manifest it captured,
\* and a recovery only the one its own migration left.
THEOREM ReplacesWhatItCaptured == Spec => PublishReplacesCaptured
<1>1. ASSUME CapturedInv, [Next]_vars, disk'["manifest"] # disk["manifest"]
      PROVE  \E p \in Publishers :
                /\ pc[p] = "writeManifest"
                /\ job[p].kind # "generate" \/ p \in Holders
                   => job[p].base["manifest"] = disk["manifest"]
                /\ job[p].kind = "recover"
                   => \E b \in backups : /\ b.orig = job[p].gen
                                         /\ disk["manifest"] = Encoded[b.target]["manifest"]
  <2>1. PICK p \in Publishers : WriteHeader(p, "manifest", "writeManifest", "final")
    BY <1>1, ManifestChanges DEF CapturedInv
  <2>2. /\ pc[p] = "writeManifest"
        /\ Guarded(p) => disk["manifest"] = job[p].prev["manifest"]
        /\ job[p].prev["manifest"] # Encoded[job[p].gen]["manifest"]
    BY <1>1, <2>1 DEF WriteHeader
  <2>3. HolderKeeps(p) /\ SessionKeeps(p) /\ RecoverySource(p)
    BY <1>1, <2>2 DEF CapturedInv, Captured
  <2>4. p \in Holders => job[p].base["manifest"] = disk["manifest"]
    BY <2>2, <2>3 DEF HolderKeeps
  <2>5. job[p].kind # "generate" =>
           /\ job[p].base["manifest"] = disk["manifest"]
           /\ disk["manifest"] # Encoded[job[p].gen]["manifest"]
    BY <2>2, <2>3 DEF SessionKeeps, Planned, PlannedPhases, Reading, Headers
  <2>6. job[p].kind = "recover" =>
           \E b \in backups : /\ b.orig = job[p].gen
                              /\ disk["manifest"] = Encoded[b.target]["manifest"]
    BY <2>3, <2>5 DEF RecoverySource
  <2> QED
    BY <2>2, <2>4, <2>5, <2>6
<1> QED
  BY <1>1, CapturedInit, CapturedStep, PTL DEF Spec, PublishReplacesCaptured

(***************************************************************************)
(* Every removed object can be restored                                    *)
(***************************************************************************)

\* Every object that is or will be removed has its preimage on record.
OnRecord == UNION {r.cands : r \in pruneLog}
RecordedInv ==
    /\ pruned \subseteq OnRecord
    /\ \A q \in Cleaners : pc[q] = "pruning" => sweep[q].cands \subseteq OnRecord

\* What a cleaner removes, it has saved before, and no record is ever dropped.
THEOREM PrunedBytesAreKept == Spec => []PrunedBytesKept
<1>1. Init => RecordedInv
  BY DEF Init, RecordedInv, Procs
<1>2. TypeOK /\ RecordedInv /\ [Next]_vars => RecordedInv'
  <2> SUFFICES ASSUME TypeOK, RecordedInv, [Next]_vars PROVE RecordedInv'
    OBVIOUS
  <2>1. CASE UNCHANGED vars
    BY <2>1 DEF RecordedInv, OnRecord, vars
  <2>2. ASSUME NEW p \in Publishers,
               UNCHANGED <<sweep, pruneLog, pruned>>,
               NEW l, pc' = pc \/ Goto(p, l)
        PROVE  RecordedInv'
    <3>1. \A q \in Cleaners : pc'[q] = pc[q]
      BY <2>2, ConstantFacts DEF TypeOK, Goto, Procs
    <3> QED
      BY <2>2, <3>1 DEF RecordedInv, OnRecord
  <2>3. ASSUME NEW p \in Publishers,
               \/ \E g \in Gens : Generate(p, g)
               \/ \E m \in Migrations : Migrate(p, m)
               \/ \E b \in backups : Recover(p, b)
               \/ PublisherWork(p)
               \/ Interrupt(p)
        PROVE  RecordedInv'
    <3>1. UNCHANGED <<sweep, pruneLog, pruned>>
      BY <2>3 DEF Generate, Migrate, Recover, Start, PublisherWork, Interrupt, Leave, PlanObjects,
                  PlanHeader, SaveBackup, Recheck, EnterCommit, Precheck, WriteObject,
                  ObjectsWritten, WriteHeader, Verify, Finish, Fail
    <3>2. pc' = pc \/ \E l : Goto(p, l)
      BY <2>3 DEF Generate, Migrate, Recover, Start, PublisherWork, Interrupt, Leave, PlanObjects,
                  PlanHeader, SaveBackup, Recheck, EnterCommit, Precheck, WriteObject,
                  ObjectsWritten, WriteHeader, Verify, Finish, Fail
    <3> QED
      BY <2>2, <3>1, <3>2
  <2>4. ASSUME NEW q \in Cleaners,
               \/ \E g \in Gens : Audit(q, g)
               \/ \E r \in pruneLog : EnterRestore(q, r)
               \/ EnterPrune(q) \/ RestoreObject(q) \/ StopCleaner(q)
        PROVE  RecordedInv'
    <3>1. UNCHANGED <<pruneLog, pruned>>
      BY <2>4 DEF Audit, EnterRestore, EnterPrune, RestoreObject, StopCleaner
    <3>2. ASSUME NEW r \in Cleaners, pc'[r] = "pruning"
          PROVE  pc[r] = "pruning" /\ sweep'[r] = sweep[r]
      BY <2>4, <3>2 DEF TypeOK, Procs, Goto, Audit, EnterRestore, EnterPrune, RestoreObject,
                        StopCleaner
    <3> QED
      BY <3>1, <3>2 DEF RecordedInv, OnRecord
  <2>5. ASSUME NEW q \in Cleaners, SavePreimages(q) PROVE RecordedInv'
    <3>1. OnRecord \subseteq OnRecord' /\ sweep[q].cands \subseteq OnRecord'
      BY <2>5 DEF SavePreimages, OnRecord
    <3>2. \A r \in Cleaners : r # q => pc'[r] = pc[r]
      BY <2>5 DEF SavePreimages, Goto, TypeOK, Procs
    <3> QED
      BY <2>5, <3>1, <3>2 DEF RecordedInv, SavePreimages
  <2>6. ASSUME NEW q \in Cleaners, Prune(q) PROVE RecordedInv'
    <3>1. PICK o \in sweep[q].cands :
                 /\ pruned' = pruned \cup ({o} \cap objects)
                 /\ sweep' = [sweep EXCEPT ![q].cands = @ \ {o}]
      BY <2>6 DEF Prune
    <3>2. UNCHANGED <<pc, pruneLog>> /\ pc[q] = "pruning"
      BY <2>6 DEF Prune
    <3>3. \A r \in Cleaners : sweep'[r].cands \subseteq sweep[r].cands
      BY <3>1 DEF TypeOK, PruneRecord
    <3> QED
      BY <3>1, <3>2, <3>3 DEF RecordedInv, OnRecord
  <2> QED
    BY <2>1, <2>3, <2>4, <2>5, <2>6 DEF Next, CleanerWork
<1>3. RecordedInv => PrunedBytesKept
  BY DEF RecordedInv, OnRecord, PrunedBytesKept
<1> QED
  BY <1>1, <1>2, <1>3, TypeCorrect, PTL DEF Spec

(***************************************************************************)
(* Guarded publication is a compare-and-swap register                      *)
(***************************************************************************)

\* What a publisher is seen to hold, as the refinement mapping defines it.
Held == [p \in Publishers |-> IF pc[p] \in PlannedPhases
                               THEN job[p].prev["manifest"] ELSE Absent]

\* A step in which one publisher ends up holding v and the manifest stays.
LEMMA HeldChanges ==
    ASSUME TypeOK, NEW p \in Publishers, NEW v,
           Held'[p] = v,
           \A r \in Publishers : r # p => Held'[r] = Held[r]
    PROVE  Held' = [Held EXCEPT ![p] = v]
BY DEF Held

\* Steps of a publisher other than writing its manifest: it looks at the
\* register when it plans the manifest, and forgets when it leaves.
LEMMA RegisterPublisher ==
    ASSUME TypeOK, NEW p \in Publishers,
           \/ \E g \in Gens : Generate(p, g)
           \/ \E m \in Migrations : Migrate(p, m)
           \/ \E b \in backups : Recover(p, b)
           \/ PublisherWork(p)
           \/ Interrupt(p)
    PROVE  [Register!Next]_(Register!vars)
<1> USE DEF Headers
<1>1. p \in Procs
  BY DEF Procs
<1>2. ASSUME UNCHANGED disk, Held' = [Held EXCEPT ![p] = disk["manifest"]]
      PROVE  [Register!Next]_(Register!vars)
  BY <1>2 DEF Register!Next, Register!Look, Held
<1>3. ASSUME UNCHANGED disk, Held' = [Held EXCEPT ![p] = Absent]
      PROVE  [Register!Next]_(Register!vars)
  BY <1>3 DEF Register!Next, Register!Forget, Held
<1>4. ASSUME disk'["manifest"] = disk["manifest"], Held' = Held
      PROVE  [Register!Next]_(Register!vars)
  BY <1>4 DEF Register!vars, Held
<1>5. ASSUME NEW k, NEW g, Start(p, k, g)
      PROVE  [Register!Next]_(Register!vars)
  <2>1. Held'[p] = Absent /\ \A r \in Publishers : r # p => Held'[r] = Held[r]
    BY <1>1, <1>5 DEF Start, Goto, TypeOK, Held, PlannedPhases
  <2> QED
    BY <1>3, <1>5, <2>1, HeldChanges DEF Start
<1>6. CASE PlanObjects(p)
  <2>1. Held'[p] = Absent /\ \A r \in Publishers : r # p => Held'[r] = Held[r]
    BY <1>1, <1>6 DEF PlanObjects, Goto, TypeOK, Held, PlannedPhases
  <2> QED
    BY <1>3, <1>6, <2>1, HeldChanges DEF PlanObjects
<1>7. ASSUME NEW f \in Headers, NEW here, NEW next \in {"planRoot", "planManifest"},
             PlanHeader(p, f, here, next)
      PROVE  [Register!Next]_(Register!vars)
  <2>1. Held'[p] = Absent /\ \A r \in Publishers : r # p => Held'[r] = Held[r]
    BY <1>1, <1>7 DEF PlanHeader, Goto, TypeOK, Held, PlannedPhases
  <2> QED
    BY <1>3, <1>7, <2>1, HeldChanges DEF PlanHeader
<1>8. CASE PlanHeader(p, "manifest", "planManifest", "backup")
  <2>1. job'[p].prev["manifest"] = disk["manifest"]
    BY <1>8 DEF PlanHeader, TypeOK, Job
  <2>2. Held'[p] = disk["manifest"] /\ \A r \in Publishers : r # p => Held'[r] = Held[r]
    BY <1>1, <1>8, <2>1 DEF PlanHeader, Goto, TypeOK, Held, PlannedPhases
  <2> QED
    BY <1>2, <1>8, <2>2, HeldChanges DEF PlanHeader
<1>9. CASE SaveBackup(p) \/ Recheck(p) \/ Precheck(p) \/ ObjectsWritten(p) \/ Verify(p)
  <2>1. pc[p] \in PlannedPhases /\ (\E l \in PlannedPhases : pc' = [pc EXCEPT ![p] = l])
    BY <1>9 DEF SaveBackup, Recheck, Precheck, ObjectsWritten, Verify, Goto, PlannedPhases
  <2>2. UNCHANGED <<disk, job>>
    BY <1>9 DEF SaveBackup, Recheck, Precheck, ObjectsWritten, Verify
  <2>3. Held' = Held
    BY <1>1, <2>1, <2>2 DEF Held, TypeOK
  <2> QED
    BY <1>4, <2>2, <2>3
<1>10. CASE EnterCommit(p)
  <2>1. pc[p] \in PlannedPhases /\ (\E l \in PlannedPhases : pc' = [pc EXCEPT ![p] = l])
    BY <1>10 DEF EnterCommit, Goto, PlannedPhases
  <2>2. UNCHANGED <<disk, job>>
    BY <1>10 DEF EnterCommit
  <2>3. Held' = Held
    BY <1>1, <2>1, <2>2 DEF Held, TypeOK
  <2> QED
    BY <1>4, <2>2, <2>3
<1>11. CASE WriteObject(p)
  <2>1. \A r \in Publishers : job'[r].prev = job[r].prev
    BY <1>11 DEF WriteObject, TypeOK, Job
  <2>2. Held' = Held
    BY <1>11, <2>1 DEF WriteObject, Held
  <2> QED
    BY <1>4, <1>11, <2>2 DEF WriteObject
<1>12. ASSUME NEW f \in Headers, NEW here, NEW next, WriteHeader(p, f, here, next)
       PROVE  /\ \A r \in Publishers : job'[r].prev = job[r].prev
              /\ pc[p] = here
              /\ pc'[p] = next
              /\ \A r \in Publishers : r # p => pc'[r] = pc[r]
  <2>1. \A r \in Publishers : job'[r].prev = job[r].prev
    BY <1>12 DEF WriteHeader, NewIdentity, TypeOK, Job
  <2>2. pc[p] = here /\ pc' = [pc EXCEPT ![p] = next] /\ pc \in [Procs -> PublisherLabels \cup CleanerLabels]
    BY <1>12 DEF WriteHeader, Goto, TypeOK
  <2> QED
    BY <1>1, <2>1, <2>2 DEF Procs
<1>13. ASSUME NEW f \in {"surface", "root"}, NEW here \in {"writeSurface", "writeRoot"},
              NEW next \in {"writeRoot", "verify"}, WriteHeader(p, f, here, next)
       PROVE  [Register!Next]_(Register!vars)
  <2>1. Held' = Held
    <3>1. \A r \in Publishers : job'[r].prev = job[r].prev
      BY <1>12, <1>13
    <3>2. pc[p] \in PlannedPhases /\ pc'[p] \in PlannedPhases
      BY <1>12, <1>13 DEF PlannedPhases
    <3>3. \A r \in Publishers : r # p => pc'[r] = pc[r]
      BY <1>12, <1>13
    <3> QED
      BY <3>1, <3>2, <3>3 DEF Held
  <2>2. disk'["manifest"] = disk["manifest"]
    BY <1>13 DEF WriteHeader, TypeOK
  <2> QED
    BY <1>4, <2>1, <2>2
<1>14. CASE WriteHeader(p, "manifest", "writeManifest", "final")
  <2> DEFINE new == Encoded[job[p].gen]["manifest"]
  <2>1. Held[p] = job[p].prev["manifest"]
    BY <1>14 DEF WriteHeader, Held, PlannedPhases
  <2>2. Held'[p] = Absent /\ \A r \in Publishers : r # p => Held'[r] = Held[r]
    <3>1. \A r \in Publishers : job'[r].prev = job[r].prev
      BY <1>12, <1>14
    <3>2. pc'[p] = "final"
      BY <1>12, <1>14
    <3>3. \A r \in Publishers : r # p => pc'[r] = pc[r]
      BY <1>12, <1>14
    <3> QED
      BY <3>1, <3>2, <3>3 DEF Held, PlannedPhases
  <2>3. Held' = [Held EXCEPT ![p] = Absent]
    BY <2>2, HeldChanges
  <2>4. CASE disk' = disk
    BY <1>3, <2>3, <2>4
  <2>5. CASE disk' # disk
    <3>1. disk'["manifest"] = new /\ new \in Contents
      BY <1>14, <2>5, EncodingAssumption DEF WriteHeader, TypeOK, Job
    <3>2. Guarded(p) => Held[p] = disk["manifest"]
      BY <1>14, <2>1 DEF WriteHeader
    <3>3. ~Guarded(p) => new \in {Encoded[g]["manifest"] : g \in FlatGens}
      BY DEF Guarded
    <3> QED
      BY <2>3, <3>1, <3>2, <3>3 DEF Register!Next, Register!Replace, Held
  <2> QED
    BY <2>4, <2>5
<1>15. CASE Finish(p) \/ Fail(p) \/ Interrupt(p)
  <2>1. pc' = [pc EXCEPT ![p] = "idle"] /\ job' = [job EXCEPT ![p] = NoJob] /\ UNCHANGED disk
    BY <1>15 DEF Finish, Fail, Interrupt, Leave, Goto
  <2>2. Held'[p] = Absent /\ \A r \in Publishers : r # p => Held'[r] = Held[r]
    BY <1>1, <2>1 DEF Held, PlannedPhases, TypeOK
  <2> QED
    BY <1>3, <2>1, <2>2, HeldChanges
<1> QED
  BY <1>5, <1>6, <1>7, <1>8, <1>9, <1>10, <1>11, <1>13, <1>14, <1>15
     DEF PublisherWork, Generate, Migrate, Recover

\* Cleaners never touch the register.
LEMMA RegisterCleaner ==
    ASSUME TypeOK, NEW q \in Cleaners,
           \/ \E g \in Gens : Audit(q, g)
           \/ \E r \in pruneLog : EnterRestore(q, r)
           \/ CleanerWork(q)
    PROVE  UNCHANGED <<disk["manifest"], Held>>
<1>1. UNCHANGED <<disk, job>>
  BY DEF Audit, EnterRestore, CleanerWork, EnterPrune, SavePreimages, Prune, RestoreObject,
         StopCleaner
<1>2. \A p \in Publishers : pc'[p] = pc[p]
  <2>1. pc' = pc \/ \E l : pc' = [pc EXCEPT ![q] = l]
    BY DEF Audit, EnterRestore, CleanerWork, EnterPrune, SavePreimages, Prune, RestoreObject,
           StopCleaner, Goto
  <2>2. \A p \in Publishers : p # q /\ p \in Procs
    BY ProcsAssumption DEF Procs
  <2> QED
    BY <2>1, <2>2 DEF TypeOK
<1> QED
  BY <1>1, <1>2 DEF Held

LEMMA RegisterStep == TypeOK /\ [Next]_vars => [Register!Next]_(Register!vars)
<1> SUFFICES ASSUME TypeOK, [Next]_vars PROVE [Register!Next]_(Register!vars)
  OBVIOUS
<1>1. CASE UNCHANGED vars
  BY <1>1 DEF vars, Register!vars
<1>2. CASE Next
  BY <1>2, RegisterPublisher, RegisterCleaner DEF Next, Register!vars, Held
<1> QED
  BY <1>1, <1>2

LEMMA RegisterInit == Init => Register!Init
BY ConstantFacts DEF Init, Register!Init, Headers, PlannedPhases, Procs

\* A publication replaces the committed manifest only if it is still the one
\* the plan was drawn against, or if it stores its generation flat.
THEOREM PublicationIsRegister == Spec => ImplementsRegister
<1>1. Spec => []TypeOK
  BY TypeCorrect
<1>2. TypeOK /\ [Next]_vars => [Register!Next]_(Register!vars)
  BY RegisterStep
<1> QED
  BY <1>1, <1>2, RegisterInit, PTL DEF Spec, ImplementsRegister, Register!Spec
=============================================================================

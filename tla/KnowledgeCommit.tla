-------------------------- MODULE KnowledgeCommit --------------------------
(***************************************************************************)
(* Publication of the generated knowledge artifacts of one wiki.           *)
(*                                                                         *)
(* A generation is what one run of the generator encodes: the three header *)
(* files (surface index, knowledge root, sync manifest) and the immutable, *)
(* content-addressed storage objects that root and manifest refer to.  The *)
(* manifest holds the hashes of the other two, so it identifies the        *)
(* generation.  Publishers plan outside or inside the storage lock and     *)
(* commit under it, manifest last; the cleaner audits outside the lock and *)
(* deletes under it.  Any of them can die or be stopped between two steps. *)
(*                                                                         *)
(* The lock is the storage writer lock; the governance lock, where an      *)
(* operation takes both, is always taken before it and only excludes more. *)
(* The immutable adoption marker of an adopted wiki is written before the  *)
(* objects and verified with them: it is one of the objects of the adopted *)
(* generations here.                                                       *)
(***************************************************************************)
EXTENDS FiniteSets

CONSTANTS
    Publishers,     \* processes that generate, migrate or recover
    Holders,        \* publishers that hold the lock from capture to commit
    Cleaners,       \* processes that prune storage or restore what was pruned
    Gens,           \* generations that can be encoded
    FlatGens,       \* those stored flat: no objects, committed by _commit_flat
    Objects,        \* storage objects
    Contents,       \* possible contents of a header file
    Encoded,        \* the header files of a generation
    ObjectsOf,      \* the objects its root and its manifest refer to
    Migrations,     \* pairs of generations that encode one model two ways
    FirstGen,       \* the generation committed at the start
    NoProc, Absent

Headers == {"surface", "root", "manifest"}

ASSUME ProcsAssumption ==
    /\ Holders \subseteq Publishers
    /\ Publishers \cap Cleaners = {}
    /\ NoProc \notin Publishers \cup Cleaners

ASSUME EncodingAssumption ==
    /\ FirstGen \in Gens /\ FlatGens \subseteq Gens
    /\ Migrations \subseteq [orig : Gens, target : Gens]
    /\ Encoded \in [Gens -> [Headers -> Contents]]
    /\ ObjectsOf \in [Gens -> SUBSET Objects]
    /\ \A g \in FlatGens : ObjectsOf[g] = {}
    /\ \A g, h \in Gens : Encoded[g]["manifest"] = Encoded[h]["manifest"] => g = h
    /\ Absent \notin Contents

\* migrate_knowledge_storage only adopts indexed formats.
ASSUME MigrationAssumption == \A m \in Migrations : m.target \notin FlatGens

VARIABLES
    disk,           \* the header files
    objects,        \* the storage objects present on disk
    lock,           \* holder of the storage writer lock
    pc,             \* where each process is
    job,            \* what each publisher publishes and what it has read
    sweep,          \* what each cleaner has audited
    backups,        \* migration recovery directories: original and target
    pruneLog,       \* prune recovery manifests, with their preimages
    pruned,         \* objects ever unlinked by a cleaner
    interrupted     \* a publication was cut short, or a flat one refused, between
                    \* two header writes

vars == <<disk, objects, lock, pc, job, sweep, backups, pruneLog, pruned,
          interrupted>>

Procs == Publishers \cup Cleaners

\* One generation, complete: what load_knowledge_state accepts.
Valid(g) == disk = Encoded[g] /\ ObjectsOf[g] \subseteq objects

PruneRecord == [gen : Gens, cands : SUBSET Objects]

NoJob == [kind |-> "none", gen |-> FirstGen, base |-> [f \in Headers |-> Absent],
          prev |-> [f \in Headers |-> Absent], have |-> {}, stale |-> FALSE]
NoSweep == [gen |-> FirstGen, cands |-> {}]

(***************************************************************************)
(* Publishers                                                              *)
(***************************************************************************)

Acquire(p) == lock = NoProc /\ lock' = p
Release(p) == lock' = IF lock = p THEN NoProc ELSE lock

Goto(p, label) == pc' = [pc EXCEPT ![p] = label]

\* Only a publisher that wraps the whole operation takes the lock up front.
EnterOperation(p) == IF p \in Holders THEN Acquire(p) ELSE UNCHANGED lock

Start(p, kind, g) ==
    /\ pc[p] = "idle"
    /\ EnterOperation(p)
    /\ job' = [job EXCEPT ![p] = [NoJob EXCEPT !.kind = kind, !.gen = g, !.base = disk]]
    /\ Goto(p, "planObjects")
    /\ UNCHANGED <<disk, objects, sweep, backups, pruneLog, pruned, interrupted>>

\* capture_committed_knowledge: the prior artifacts need not be valid.
Generate(p, g) == Start(p, "generate", g)

\* migrate_knowledge_storage works from a fully valid committed snapshot.
Migrate(p, m) == Valid(m.orig) /\ Start(p, "migrate", m.target)

\* recover_knowledge_storage refuses a root or a manifest outside its migration.
Recover(p, b) ==
    /\ b \in backups
    /\ \A f \in {"root", "manifest"} :
          disk[f] \in {Encoded[b.orig][f], Encoded[b.target][f]}
    /\ Start(p, "recover", b.orig)

\* _planned_write of every storage object: is it already on disk?
PlanObjects(p) ==
    /\ pc[p] = "planObjects"
    /\ job' = [job EXCEPT ![p].have = ObjectsOf[job[p].gen] \cap objects]
    /\ Goto(p, "planSurface")
    /\ UNCHANGED <<disk, objects, lock, sweep, backups, pruneLog, pruned, interrupted>>

\* _planned_write of one header: its current bytes become the expected ones.
PlanHeader(p, f, here, next) ==
    /\ pc[p] = here
    /\ job' = [job EXCEPT ![p].prev[f] = disk[f]]
    /\ Goto(p, next)
    /\ UNCHANGED <<disk, objects, lock, sweep, backups, pruneLog, pruned, interrupted>>

\* A migration saves the snapshot it is about to replace outside the wiki first.
SaveBackup(p) ==
    /\ pc[p] = "backup"
    /\ backups' = IF job[p].kind = "migrate"
                  THEN backups \cup {m \in Migrations :
                          Encoded[m.orig] = job[p].base /\ m.target = job[p].gen}
                  ELSE backups
    /\ Goto(p, "recheck")
    /\ UNCHANGED <<disk, objects, lock, job, sweep, pruneLog, pruned, interrupted>>

\* Mutant of Unchanged: a read session that compares bytes alone.
UnchangedBytes(p) == disk = job[p].base

\* What was captured is still on disk.  A read session (migrate, recover) also
\* compares file identities, assert_current (generate) only the bytes.
Unchanged(p) == disk = job[p].base /\ (job[p].kind # "generate" => ~job[p].stale)

Recheck(p) ==
    /\ pc[p] = "recheck"
    /\ Unchanged(p)
    /\ Goto(p, "lock")
    /\ UNCHANGED <<disk, objects, lock, job, sweep, backups, pruneLog, pruned, interrupted>>

\* Mutant of Guarded: a plan without object writes takes the flat path.
GuardedIfWriting(p) == ObjectsOf[job[p].gen] \ job[p].have # {}

\* Indexed storage and every recovery commit through _commit_sharded.
Guarded(p) == job[p].gen \notin FlatGens \/ job[p].kind = "recover"

\* commit_knowledge_artifacts enters the (reentrant, non-blocking) storage lock.
EnterCommit(p) ==
    /\ pc[p] = "lock"
    /\ IF lock = p THEN UNCHANGED lock ELSE Acquire(p)
    /\ Goto(p, IF Guarded(p) THEN "precheck" ELSE "writeSurface")
    /\ UNCHANGED <<disk, objects, job, sweep, backups, pruneLog, pruned, interrupted>>

\* Mutant of Precheck: only the surface is compared up front.
PrecheckSurface(p) ==
    /\ pc[p] = "precheck"
    /\ disk["surface"] = job[p].prev["surface"]
    /\ Goto(p, "writeObjects")
    /\ UNCHANGED <<disk, objects, lock, job, sweep, backups, pruneLog, pruned, interrupted>>

\* _commit_sharded compares every header with the planned one before writing any.
Precheck(p) ==
    /\ pc[p] = "precheck"
    /\ disk = job[p].prev
    /\ Goto(p, "writeObjects")
    /\ UNCHANGED <<disk, objects, lock, job, sweep, backups, pruneLog, pruned, interrupted>>

\* apply of an object: it must still be as planned, absent or present.
WriteObject(p) ==
    /\ pc[p] = "writeObjects"
    /\ \E o \in ObjectsOf[job[p].gen] \ job[p].have :
          /\ o \notin objects
          /\ objects' = objects \cup {o}
          /\ job' = [job EXCEPT ![p].have = @ \cup {o}]
    /\ UNCHANGED <<disk, lock, pc, sweep, backups, pruneLog, pruned, interrupted>>

ObjectsWritten(p) ==
    /\ pc[p] = "writeObjects"
    /\ job[p].have = ObjectsOf[job[p].gen]
    /\ job[p].have \subseteq objects
    /\ Goto(p, "writeSurface")
    /\ UNCHANGED <<disk, objects, lock, job, sweep, backups, pruneLog, pruned, interrupted>>

\* A replaced file has a new identity for whoever observed the old one.
NewIdentity(p) ==
    [r \in Publishers |-> IF r # p /\ job[r].kind # "none"
                          THEN [job[r] EXCEPT !.stale = TRUE] ELSE job[r]]

\* A guarded write compares and swaps; a flat one skips what the plan calls
\* unchanged and replaces the rest whatever is there.
WriteHeader(p, f, here, next) ==
    LET new == Encoded[job[p].gen][f]
    IN  /\ pc[p] = here
        /\ Guarded(p) => disk[f] = job[p].prev[f]
        /\ IF job[p].prev[f] # new
           THEN /\ disk' = [disk EXCEPT ![f] = new]
                /\ job' = NewIdentity(p)
           ELSE UNCHANGED <<disk, job>>
        /\ Goto(p, next)
        /\ UNCHANGED <<objects, lock, sweep, backups, pruneLog, pruned, interrupted>>

\* Mutant of Verify: the surface, skipped as unchanged, is not read back.
VerifyRoot(p) ==
    /\ pc[p] = "verify"
    /\ disk["root"] = Encoded[job[p].gen]["root"]
    /\ Guarded(p) => ObjectsOf[job[p].gen] \subseteq objects
    /\ Goto(p, "writeManifest")
    /\ UNCHANGED <<disk, objects, lock, job, sweep, backups, pruneLog, pruned, interrupted>>

\* Both paths read the written artifacts back before the manifest.
Verify(p) ==
    /\ pc[p] = "verify"
    /\ \A f \in {"surface", "root"} : disk[f] = Encoded[job[p].gen][f]
    /\ Guarded(p) => ObjectsOf[job[p].gen] \subseteq objects
    /\ Goto(p, "writeManifest")
    /\ UNCHANGED <<disk, objects, lock, job, sweep, backups, pruneLog, pruned, interrupted>>

\* ... and everything after it, before the operation reports success.
Finish(p) ==
    /\ pc[p] = "final"
    /\ disk = Encoded[job[p].gen]
    /\ Guarded(p) => ObjectsOf[job[p].gen] \subseteq objects
    /\ Release(p)
    /\ Goto(p, "idle")
    /\ job' = [job EXCEPT ![p] = NoJob]
    /\ interrupted' = FALSE
    /\ UNCHANGED <<disk, objects, sweep, backups, pruneLog, pruned>>

\* Every comparison above that fails raises, and so does a busy lock.
Refused(p) ==
    \/ pc[p] = "recheck" /\ ~Unchanged(p)
    \/ pc[p] = "lock" /\ lock \notin {NoProc, p}
    \/ pc[p] = "precheck" /\ disk # job[p].prev
    \/ /\ pc[p] = "writeObjects"
       /\ \/ ~(job[p].have \subseteq objects)
          \/ \E o \in ObjectsOf[job[p].gen] \ job[p].have : o \in objects
    \/ /\ Guarded(p)
       /\ \/ pc[p] = "writeSurface" /\ disk["surface"] # job[p].prev["surface"]
          \/ pc[p] = "writeRoot" /\ disk["root"] # job[p].prev["root"]
          \/ pc[p] = "writeManifest" /\ disk["manifest"] # job[p].prev["manifest"]
    \/ /\ pc[p] = "verify"
       /\ \/ \E f \in {"surface", "root"} : disk[f] # Encoded[job[p].gen][f]
          \/ Guarded(p) /\ ~(ObjectsOf[job[p].gen] \subseteq objects)
    \/ /\ pc[p] = "final"
       /\ \/ disk # Encoded[job[p].gen]
          \/ Guarded(p) /\ ~(ObjectsOf[job[p].gen] \subseteq objects)

\* The job is gone and with it the lock, if it was held.
Leave(p) ==
    /\ Release(p)
    /\ Goto(p, "idle")
    /\ job' = [job EXCEPT ![p] = NoJob]
    /\ UNCHANGED <<disk, objects, sweep, backups, pruneLog, pruned>>

HeaderPhases == {"writeRoot", "verify", "writeManifest", "final"}

\* Only a flat commit can be refused after it has written a header.
Fail(p) ==
    /\ Refused(p) /\ Leave(p)
    /\ interrupted' = (interrupted \/ (~Guarded(p) /\ pc[p] \in HeaderPhases))

\* The process dies, or a stage check finds the source changed and raises.
Interrupt(p) ==
    /\ p \in Publishers /\ pc[p] # "idle"
    /\ Leave(p)
    /\ interrupted' = (interrupted \/ pc[p] \in HeaderPhases)

(***************************************************************************)
(* Cleaners                                                                *)
(***************************************************************************)

\* _committed_inputs and the scan of the object namespace.
Audit(q, g) ==
    /\ pc[q] = "idle"
    /\ Valid(g) /\ g \notin FlatGens
    /\ sweep' = [sweep EXCEPT ![q] = [gen |-> g, cands |-> objects \ ObjectsOf[g]]]
    /\ Goto(q, "audited")
    /\ UNCHANGED <<disk, objects, lock, job, backups, pruneLog, pruned, interrupted>>

\* session.recheck under both locks: the audited snapshot is still committed.
EnterPrune(q) ==
    /\ pc[q] = "audited"
    /\ Acquire(q)
    /\ Valid(sweep[q].gen)
    /\ Goto(q, "pruneBackup")
    /\ UNCHANGED <<disk, objects, job, sweep, backups, pruneLog, pruned, interrupted>>

\* Mutant of SavePreimages: candidates that were pruned before are not saved.
SavePreimagesOnce(q) ==
    /\ pc[q] = "pruneBackup"
    /\ pruneLog' = IF pruneLog # {} \/ sweep[q].cands = {} THEN pruneLog ELSE pruneLog \cup {sweep[q]}
    /\ Goto(q, "pruning")
    /\ UNCHANGED <<disk, objects, lock, job, sweep, backups, pruned, interrupted>>

\* _prune_backup: the preimages and the plan go outside the wiki first.
SavePreimages(q) ==
    /\ pc[q] = "pruneBackup"
    /\ pruneLog' = IF sweep[q].cands = {} THEN pruneLog ELSE pruneLog \cup {sweep[q]}
    /\ Goto(q, "pruning")
    /\ UNCHANGED <<disk, objects, lock, job, sweep, backups, pruned, interrupted>>

\* Root and manifest are read again before each deletion.
Prune(q) ==
    /\ pc[q] = "pruning"
    /\ \A f \in {"root", "manifest"} : disk[f] = Encoded[sweep[q].gen][f]
    /\ \E o \in sweep[q].cands :
          /\ objects' = objects \ {o}
          /\ pruned' = pruned \cup ({o} \cap objects)
          /\ sweep' = [sweep EXCEPT ![q].cands = @ \ {o}]
    /\ UNCHANGED <<disk, lock, pc, job, backups, pruneLog, interrupted>>

\* restore_pruned_storage: only into the generation that was cleaned.
EnterRestore(q, r) ==
    /\ pc[q] = "idle"
    /\ r \in pruneLog
    /\ Acquire(q)
    /\ \A f \in {"root", "manifest"} : disk[f] = Encoded[r.gen][f]
    /\ sweep' = [sweep EXCEPT ![q] = r]
    /\ Goto(q, "restoring")
    /\ UNCHANGED <<disk, objects, job, backups, pruneLog, pruned, interrupted>>

RestoreObject(q) ==
    /\ pc[q] = "restoring"
    /\ \A f \in {"root", "manifest"} : disk[f] = Encoded[sweep[q].gen][f]
    /\ \E o \in sweep[q].cands :
          /\ objects' = objects \cup {o}
          /\ sweep' = [sweep EXCEPT ![q].cands = @ \ {o}]
    /\ UNCHANGED <<disk, lock, pc, job, backups, pruneLog, pruned, interrupted>>

\* Done, cancelled, refused or dead: the lock goes with the process.
StopCleaner(q) ==
    /\ q \in Cleaners /\ pc[q] # "idle"
    /\ Release(q)
    /\ Goto(q, "idle")
    /\ sweep' = [sweep EXCEPT ![q] = NoSweep]
    /\ UNCHANGED <<disk, objects, job, backups, pruneLog, pruned, interrupted>>

(***************************************************************************)
(* The specification                                                       *)
(***************************************************************************)

Init ==
    /\ disk = Encoded[FirstGen]
    /\ objects = ObjectsOf[FirstGen]
    /\ lock = NoProc
    /\ pc = [p \in Procs |-> "idle"]
    /\ job = [p \in Publishers |-> NoJob]
    /\ sweep = [q \in Cleaners |-> NoSweep]
    /\ backups = {}
    /\ pruneLog = {}
    /\ pruned = {}
    /\ interrupted = FALSE

PublisherWork(p) ==
    \/ PlanObjects(p)
    \/ PlanHeader(p, "surface", "planSurface", "planRoot")
    \/ PlanHeader(p, "root", "planRoot", "planManifest")
    \/ PlanHeader(p, "manifest", "planManifest", "backup")
    \/ SaveBackup(p)
    \/ Recheck(p)
    \/ EnterCommit(p)
    \/ Precheck(p)
    \/ WriteObject(p)
    \/ ObjectsWritten(p)
    \/ WriteHeader(p, "surface", "writeSurface", "writeRoot")
    \/ WriteHeader(p, "root", "writeRoot", "verify")
    \/ Verify(p)
    \/ WriteHeader(p, "manifest", "writeManifest", "final")
    \/ Finish(p)
    \/ Fail(p)

CleanerWork(q) ==
    \/ EnterPrune(q)
    \/ SavePreimages(q)
    \/ Prune(q)
    \/ RestoreObject(q)
    \/ StopCleaner(q)

Next ==
    \/ \E p \in Publishers :
          \/ \E g \in Gens : Generate(p, g)
          \/ \E m \in Migrations : Migrate(p, m)
          \/ \E b \in backups : Recover(p, b)
          \/ PublisherWork(p)
          \/ Interrupt(p)
    \/ \E q \in Cleaners :
          \/ \E g \in Gens : Audit(q, g)
          \/ \E r \in pruneLog : EnterRestore(q, r)
          \/ CleanerWork(q)

Spec == Init /\ [][Next]_vars

(***************************************************************************)
(* Properties                                                              *)
(***************************************************************************)

PublisherLabels ==
    {"idle", "planObjects", "planSurface", "planRoot", "planManifest", "backup",
     "recheck", "lock", "precheck", "writeObjects", "writeSurface", "writeRoot",
     "verify", "writeManifest", "final"}

CleanerLabels == {"idle", "audited", "pruneBackup", "pruning", "restoring"}

Job == [kind : {"none", "generate", "migrate", "recover"}, gen : Gens,
        base : [Headers -> Contents \cup {Absent}],
        prev : [Headers -> Contents \cup {Absent}], have : SUBSET Objects,
        stale : BOOLEAN]

\* Type invariant of the model.
TypeOK ==
    /\ disk \in [Headers -> Contents]
    /\ objects \in SUBSET Objects
    /\ lock \in Procs \cup {NoProc}
    /\ pc \in [Procs -> PublisherLabels \cup CleanerLabels]
    /\ \A p \in Publishers : pc[p] \in PublisherLabels
    /\ \A q \in Cleaners : pc[q] \in CleanerLabels
    /\ job \in [Publishers -> Job]
    /\ sweep \in [Cleaners -> PruneRecord]
    /\ backups \in SUBSET Migrations
    /\ pruneLog \in SUBSET PruneRecord
    /\ pruned \in SUBSET Objects
    /\ interrupted \in BOOLEAN

\* At every instant, whatever died where and whatever a cleaner removes, the
\* manifest on disk names a generation whose storage objects are all present.
CommittedClosure ==
    \E g \in Gens : disk["manifest"] = Encoded[g]["manifest"]
                    /\ ObjectsOf[g] \subseteq objects

\* The headers disagree only while a commit is writing them, after one was cut
\* short, or after a flat one, which writes before it compares, was refused: an
\* indexed publication that is merely refused leaves them coherent.
TornOnlyByInterruption ==
    \/ interrupted
    \/ \E p \in Publishers : pc[p] \in HeaderPhases
    \/ \E g \in Gens : Valid(g)

\* The bytes of every object a cleaner ever removed are kept for a restore.
PrunedBytesKept == \A o \in pruned : \E r \in pruneLog : o \in r.cands

\* A migration, a recovery or an operation holding the lock replaces exactly
\* the manifest it captured at its start: what another publisher committed in
\* between, back-and-forth changes included, is never overwritten unseen. And
\* a recovery replaces only what its own migration left, never a generation
\* that was published after it.
PublishReplacesCaptured ==
    [][disk'["manifest"] # disk["manifest"] =>
          \E p \in Publishers :
             /\ pc[p] = "writeManifest"
             /\ job[p].kind # "generate" \/ p \in Holders
                => job[p].base["manifest"] = disk["manifest"]
             /\ job[p].kind = "recover"
                => \E b \in backups : /\ b.orig = job[p].gen
                                      /\ disk["manifest"] = Encoded[b.target]["manifest"]]_vars

\* The manifest is written last: the step that changes it completes a
\* generation, even for a flat plan drawn before somebody else's commit.
PublishedComplete ==
    [][disk'["manifest"] # disk["manifest"] => (\E g \in Gens : Valid(g))']_vars

\* The phases in which the planned manifest of a publisher is still in force.
PlannedPhases ==
    {"backup", "recheck", "lock", "precheck", "writeObjects", "writeSurface",
     "writeRoot", "verify", "writeManifest"}

Register == INSTANCE SnapshotRegister WITH
    Clients <- Publishers, Values <- Contents, Nothing <- Absent,
    Unconditional <- {Encoded[g]["manifest"] : g \in FlatGens},
    current <- disk["manifest"],
    seen <- [p \in Publishers |-> IF pc[p] \in PlannedPhases
                                   THEN job[p].prev["manifest"] ELSE Absent]

\* Publication is a compare-and-swap of the committed snapshot, except that of
\* a flat generation.
ImplementsRegister == Register!Spec
=============================================================================

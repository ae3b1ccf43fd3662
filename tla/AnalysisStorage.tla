-------------------------- MODULE AnalysisStorage --------------------------
(***************************************************************************)
(* The cache of sync analysis captures (sync_analysis_storage): a catalog  *)
(* file that is replaced at once, the content-addressed shards it refers   *)
(* to, and the journal of shards that an attempt may leave behind.         *)
(*                                                                         *)
(* A save holds the lock of the cache from its first recovery to its last, *)
(* so one runs at a time, and a process that dies gives the lock up.  What *)
(* a kill leaves under private names matters where it is read again: in    *)
(* the journal directory, and as a second name of a shard.  The cache is   *)
(* advisory: anybody may remove or overwrite its catalog and its shards.   *)
(***************************************************************************)
EXTENDS Naturals

CONSTANTS
    Shards,         \* content-addressed files
    Payloads,       \* captures
    ShardsOf,       \* the shards of a capture; none if it fits the catalog
    NoRoot, Junk,   \* no catalog, and one that is not recognized
    NoPayload, NoShard,
    MaxFails,       \* bound on the errors of a save
    MaxKills,       \* bound on the kills of a save
    MaxDamage       \* bound on what others do to the cache

ASSUME StorageAssumption ==
    /\ ShardsOf \in [Payloads -> SUBSET Shards]
    /\ NoRoot \notin Payloads /\ Junk \notin Payloads /\ NoRoot # Junk
    /\ NoPayload \notin Payloads /\ NoShard \notin Shards
    /\ {MaxFails, MaxKills, MaxDamage} \subseteq Nat

VARIABLES
    root,       \* the catalog
    shard,      \* each shard: absent, whole, foreign, or whole with two names
    journal,    \* the directory of the attempt, and the shards it records
    pc, phase,  \* where the save is: recovering before or after, or saving
    payload,    \* what is being saved
    prev,       \* the shards of the catalog that will be replaced
    seen,       \* the catalog as recovery read it
    rest, cur,  \* the shards still to be treated, and the one at hand
    damaged,    \* did others ever touch the cache?
    fails, kills, damages

save == <<pc, phase, payload, prev, seen, rest, cur>>
bounds == <<damaged, fails, kills, damages>>
vars == <<root, shard, journal, save, bounds>>

NoJournal == [dir |-> "none", records |-> {}, stray |-> FALSE]

Refs(catalog) == IF catalog \in Payloads THEN ShardsOf[catalog] ELSE {}
Wanted == ShardsOf[payload]
Superseded == prev \ Wanted

Forget ==
    /\ pc' = "idle" /\ phase' = "none" /\ payload' = NoPayload
    /\ prev' = {} /\ seen' = NoRoot /\ rest' = {} /\ cur' = NoShard

Begin(p) ==
    /\ pc = "idle"
    /\ pc' = "scan" /\ phase' = "before" /\ payload' = p
    /\ UNCHANGED <<root, shard, journal, prev, seen, rest, cur, bounds>>

(***************************************************************************)
(* Recovery of a journal, before the save and after it; its errors are     *)
(* swallowed.                                                              *)
(***************************************************************************)
EndRecovery ==
    IF phase = "before"
    THEN /\ pc' = "plan" /\ seen' = NoRoot /\ rest' = {} /\ cur' = NoShard
         /\ UNCHANGED <<phase, payload, prev>>
    ELSE Forget

\* A journal without its owner, with an unknown entry, or beside a catalog
\* that is not recognized, authorizes nothing.
Scan ==
    /\ pc = "scan"
    /\ IF journal.dir = "owned" /\ ~journal.stray /\ root # Junk
       THEN /\ pc' = "collect" /\ seen' = root /\ rest' = journal.records
            /\ UNCHANGED <<phase, payload, prev, cur>>
       ELSE EndRecovery
    /\ UNCHANGED <<root, shard, journal, bounds>>

\* Mutant of Collectible: what the catalog refers to is not looked at.
CollectibleRecorded(d) == shard[d] = "whole"

\* A recorded shard is unlinked if the catalog does not refer to it.
Collectible(d) == d \notin Refs(seen) /\ shard[d] = "whole"

Collect ==
    /\ pc = "collect" /\ root = seen
    /\ \E d \in rest :
          \/ /\ Collectible(d)
             /\ shard' = [shard EXCEPT ![d] = "absent"]
             /\ pc' = "descriptor" /\ cur' = d /\ UNCHANGED rest
          \/ /\ d \in Refs(seen) \/ shard[d] = "absent"
             /\ pc' = "descriptor" /\ cur' = d /\ UNCHANGED <<shard, rest>>
          \/ /\ d \notin Refs(seen) /\ shard[d] = "foreign"
             /\ rest' = rest \ {d} /\ UNCHANGED <<shard, pc, cur>>
    /\ UNCHANGED <<root, journal, phase, payload, prev, seen, bounds>>

\* The catalog has changed, or a shard cannot be read within its bounds.
CollectStops ==
    /\ pc = "collect"
    /\ \/ root # seen
       \/ \E d \in rest \ Refs(seen) : shard[d] \in {"foreign", "twin"}
    /\ EndRecovery
    /\ UNCHANGED <<root, shard, journal, bounds>>

Descriptor ==
    /\ pc = "descriptor"
    /\ journal' = [journal EXCEPT !.records = @ \ {cur}]
    /\ rest' = rest \ {cur} /\ cur' = NoShard /\ pc' = "collect"
    /\ UNCHANGED <<root, shard, phase, payload, prev, seen, bounds>>

Collected ==
    /\ pc = "collect" /\ root = seen /\ rest = {}
    /\ IF journal.records = {}
       THEN /\ journal' = [journal EXCEPT !.dir = "bare"]
            /\ pc' = "rmdir" /\ UNCHANGED <<phase, payload, prev, seen, rest, cur>>
       ELSE EndRecovery /\ UNCHANGED journal
    /\ UNCHANGED <<root, shard, bounds>>

RemoveDirectory ==
    /\ pc = "rmdir"
    /\ journal' = NoJournal
    /\ EndRecovery
    /\ UNCHANGED <<root, shard, bounds>>

(***************************************************************************)
(* The save itself                                                         *)
(***************************************************************************)

\* A capture that needs no shards and replaces none needs no journal.
Plan ==
    /\ pc = "plan"
    /\ prev' = Refs(root) /\ phase' = "save"
    /\ pc' = IF Wanted \cup prev' = {} THEN "root" ELSE "prepare"
    /\ UNCHANGED <<root, shard, journal, payload, seen, rest, cur, bounds>>

\* A save that raises recovers, then reports the error.
Raise ==
    /\ pc' = "scan" /\ phase' = "after"
    /\ rest' = {} /\ cur' = NoShard
    /\ UNCHANGED <<payload, prev, seen>>

Prepare ==
    /\ pc = "prepare" /\ ~journal.stray
    /\ IF journal.dir = "owned"
       THEN pc' = "publish" /\ rest' = Wanted /\ UNCHANGED journal
       ELSE /\ journal' = [journal EXCEPT !.dir = IF @ = "none" THEN "bare" ELSE "owned"]
            /\ UNCHANGED <<pc, rest>>
    /\ UNCHANGED <<root, shard, phase, payload, prev, seen, cur, bounds>>

\* Mutant of Record: a shard is recorded once it has been written.
RecordLater ==
    /\ pc = "publish"
    /\ \E d \in rest :
          /\ shard[d] = "absent"
          /\ cur' = d /\ pc' = "write"
    /\ UNCHANGED <<root, shard, journal, phase, payload, prev, seen, rest, bounds>>

\* A shard that is not there is recorded before it is written.
Record ==
    /\ pc = "publish"
    /\ \E d \in rest :
          /\ shard[d] = "absent"
          /\ journal' = [journal EXCEPT !.records = @ \cup {d}]
          /\ cur' = d /\ pc' = "write"
    /\ UNCHANGED <<root, shard, phase, payload, prev, seen, rest, bounds>>

Write ==
    /\ pc = "write" /\ shard[cur] = "absent"
    /\ shard' = [shard EXCEPT ![cur] = "whole"]
    /\ rest' = rest \ {cur} /\ cur' = NoShard /\ pc' = "publish"
    /\ UNCHANGED <<root, journal, phase, payload, prev, seen, bounds>>

Reuse ==
    /\ pc = "publish"
    /\ \E d \in rest : shard[d] = "whole" /\ rest' = rest \ {d}
    /\ UNCHANGED <<root, shard, journal, pc, phase, payload, prev, seen, cur, bounds>>

\* An unknown journal, or a shard that is not what its name says.
Refuse ==
    /\ \/ pc = "prepare" /\ journal.stray
       \/ pc = "publish" /\ \E d \in rest : shard[d] \in {"foreign", "twin"}
       \/ pc = "write" /\ shard[cur] # "absent"
    /\ Raise
    /\ UNCHANGED <<root, shard, journal, bounds>>

Published ==
    /\ pc = "publish" /\ rest = {}
    /\ pc' = "supersede" /\ rest' = Superseded
    /\ UNCHANGED <<root, shard, journal, phase, payload, prev, seen, cur, bounds>>

\* Mutant of Supersede: the old shards are not recorded.
SupersedeUnrecorded ==
    /\ pc = "supersede" /\ rest # {} /\ rest' = {}
    /\ UNCHANGED <<root, shard, journal, pc, phase, payload, prev, seen, cur, bounds>>

\* What the catalog will no longer refer to is recorded as well.
Supersede ==
    /\ pc = "supersede"
    /\ \E d \in rest :
          /\ rest' = rest \ {d}
          /\ IF shard[d] = "whole"
             THEN journal' = [journal EXCEPT !.records = @ \cup {d}]
             ELSE UNCHANGED journal
    /\ UNCHANGED <<root, shard, pc, phase, payload, prev, seen, cur, bounds>>

Recorded ==
    /\ pc = "supersede" /\ rest = {}
    /\ pc' = "root"
    /\ UNCHANGED <<root, shard, journal, phase, payload, prev, seen, rest, cur, bounds>>

WriteRoot ==
    /\ pc = "root"
    /\ root' = payload
    /\ pc' = "remove" /\ rest' = Superseded
    /\ UNCHANGED <<shard, journal, phase, payload, prev, seen, cur, bounds>>

\* The old shards go while the catalog is the one just written.
Remove ==
    /\ pc = "remove" /\ root = payload
    /\ \E d \in rest :
          /\ rest' = rest \ {d}
          /\ shard' = IF shard[d] = "whole" THEN [shard EXCEPT ![d] = "absent"] ELSE shard
    /\ UNCHANGED <<root, journal, pc, phase, payload, prev, seen, cur, bounds>>

Removed ==
    /\ pc = "remove" /\ (rest = {} \/ root # payload)
    /\ Raise
    /\ UNCHANGED <<root, shard, journal, bounds>>

(***************************************************************************)
(* Errors, kills and others                                                *)
(***************************************************************************)
Recovering == pc \in {"scan", "collect", "descriptor", "rmdir"}

\* An error anywhere; the write at work cleans up what it staged.
Fail ==
    /\ pc # "idle" /\ fails < MaxFails /\ fails' = fails + 1
    /\ IF Recovering THEN EndRecovery ELSE Raise
    /\ UNCHANGED <<root, shard, journal, damaged, kills, damages>>

\* A write or an unlink in the journal directory is under way.
Journaling ==
    \/ pc = "prepare" /\ journal.dir = "bare"
    \/ pc \in {"publish", "supersede"} /\ rest # {}
    \/ pc = "descriptor"
    \/ pc = "collect" /\ rest = {} /\ journal.records = {}

\* The process is gone: between two steps, with a file of the journal under a
\* private name, or with a new shard under two names.
Kill ==
    /\ pc # "idle" /\ kills < MaxKills /\ kills' = kills + 1
    /\ Forget
    /\ \/ UNCHANGED <<shard, journal>>
       \/ /\ Journaling
          /\ journal' = [dir |-> IF pc = "collect" THEN "bare" ELSE journal.dir,
                         records |-> journal.records \ {cur}, stray |-> TRUE]
          /\ UNCHANGED shard
       \/ /\ pc = "write" /\ shard[cur] = "absent"
          /\ shard' = [shard EXCEPT ![cur] = "twin"]
          /\ UNCHANGED journal
    /\ UNCHANGED <<root, damaged, fails, damages>>

\* Somebody removes or overwrites the catalog or a shard.
Damage ==
    /\ damages < MaxDamage /\ damages' = damages + 1 /\ damaged' = TRUE
    /\ \/ root' \in {NoRoot, Junk} /\ UNCHANGED shard
       \/ /\ \E d \in Shards, s \in {"absent", "foreign"} :
                shard[d] = "whole" /\ shard' = [shard EXCEPT ![d] = s]
          /\ UNCHANGED root
    /\ UNCHANGED <<journal, save, fails, kills>>

(***************************************************************************)
(* The system                                                              *)
(***************************************************************************)
Init ==
    /\ root = NoRoot /\ shard = [d \in Shards |-> "absent"] /\ journal = NoJournal
    /\ pc = "idle" /\ phase = "none" /\ payload = NoPayload
    /\ prev = {} /\ seen = NoRoot /\ rest = {} /\ cur = NoShard
    /\ damaged = FALSE /\ fails = 0 /\ kills = 0 /\ damages = 0

Recovery == Scan \/ Collect \/ CollectStops \/ Descriptor \/ Collected \/ RemoveDirectory

Saving ==
    \/ Plan \/ Prepare \/ Record \/ Write \/ Reuse \/ Refuse \/ Published
    \/ Supersede \/ Recorded \/ WriteRoot \/ Remove \/ Removed

Save == (\E p \in Payloads : Begin(p)) \/ Recovery \/ Saving

Next == Save \/ Fail \/ Kill \/ Damage

Spec == Init /\ [][Next]_vars

\* A save goes on once started, and there is always a next sync that saves.
FairSpec == Spec /\ WF_vars(Save)

(***************************************************************************)
(* Properties                                                              *)
(***************************************************************************)

\* Type invariant of the model.
TypeOK ==
    /\ root \in Payloads \cup {NoRoot, Junk}
    /\ shard \in [Shards -> {"absent", "whole", "foreign", "twin"}]
    /\ journal \in [dir : {"none", "bare", "owned"}, records : SUBSET Shards, stray : BOOLEAN]
    /\ pc \in {"idle", "scan", "collect", "descriptor", "rmdir", "plan", "prepare",
               "publish", "write", "supersede", "root", "remove"}
    /\ phase \in {"none", "before", "save", "after"}
    /\ payload \in Payloads \cup {NoPayload} /\ (pc # "idle" => payload \in Payloads)
    /\ prev \subseteq Shards /\ rest \subseteq Shards
    /\ seen \in Payloads \cup {NoRoot, Junk}
    /\ cur \in (IF pc \in {"descriptor", "write"} THEN Shards ELSE {NoShard})
    /\ damaged \in BOOLEAN
    /\ fails \in 0 .. MaxFails /\ kills \in 0 .. MaxKills /\ damages \in 0 .. MaxDamage

Whole(shards) == \A d \in shards : shard[d] = "whole"

\* At every instant, wherever saves and recoveries break off, the catalog can
\* be read back: a capture is replaced at once and never lost in between.
CatalogClosed == ~damaged => Whole(Refs(root))

Garbage == {d \in Shards : shard[d] \in {"whole", "twin"}} \ Refs(root)

\* No shard is ever left behind that the journal does not know of.
GarbageAccounted == ~damaged => Garbage \subseteq journal.records

\* A kill in the middle of one write is not told from foreign data.
Stuck == journal.stray \/ \E d \in Shards : shard[d] = "twin"

\* A directory that has lost its owner may stay: it says nothing.
Tidy == Garbage = {} /\ journal.dir # "owned"

\* Saves keep clearing up what failed and killed saves have left, unless a
\* kill came in the middle of one write.
KeepsTidying == []<>(damaged \/ Stuck \/ Tidy)
=============================================================================

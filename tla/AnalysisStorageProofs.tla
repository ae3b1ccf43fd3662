----------------------- MODULE AnalysisStorageProofs -----------------------
(***************************************************************************)
(* Proofs about the cache of sync analysis captures, for every set of      *)
(* captures and shards and every number of errors and kills.               *)
(***************************************************************************)
EXTENDS AnalysisStorage, TLAPS

LEMMA RefsType == \A c : Refs(c) \subseteq Shards
BY StorageAssumption DEF Refs

Journals == [dir : {"none", "bare", "owned"}, records : SUBSET Shards, stray : BOOLEAN]

LEMMA TypeInit == Init => TypeOK
<1> SUFFICES ASSUME Init PROVE TypeOK
  OBVIOUS
<1>1. 0 \in 0 .. MaxFails /\ 0 \in 0 .. MaxKills /\ 0 \in 0 .. MaxDamage
  BY StorageAssumption
<1>2. journal \in Journals
  BY DEF Init, NoJournal, Journals
<1>3. shard \in [Shards -> {"absent", "whole", "foreign", "twin"}]
  BY DEF Init
<1> QED
  BY <1>1, <1>2, <1>3 DEF Init, TypeOK, Journals

LEMMA TypeStep == TypeOK /\ [Next]_vars => TypeOK'
<1> SUFFICES ASSUME TypeOK, [Next]_vars PROVE TypeOK'
  OBVIOUS
<1> USE StorageAssumption, RefsType DEF TypeOK
<1>1. CASE \E p \in Payloads : Begin(p)
  BY <1>1 DEF Begin, bounds
<1>2. CASE Scan
  BY <1>2 DEF Scan, EndRecovery, Forget, bounds
<1>3. CASE Collect
  BY <1>3 DEF Collect, bounds
<1>4. CASE CollectStops
  BY <1>4 DEF CollectStops, EndRecovery, Forget, bounds
<1>5. CASE Descriptor
  BY <1>5 DEF Descriptor, bounds
<1>6. CASE Collected
  BY <1>6 DEF Collected, EndRecovery, Forget, bounds
<1>7. CASE RemoveDirectory
  BY <1>7 DEF RemoveDirectory, NoJournal, EndRecovery, Forget, bounds
<1>8. CASE Plan
  BY <1>8 DEF Plan, bounds
<1>9. CASE Prepare
  BY <1>9 DEF Prepare, Wanted, bounds
<1>10. CASE Record
  BY <1>10 DEF Record, bounds
<1>11. CASE Write
  BY <1>11 DEF Write, bounds
<1>12. CASE Reuse
  BY <1>12 DEF Reuse, bounds
<1>13. CASE Refuse
  BY <1>13 DEF Refuse, Raise, bounds
<1>14. CASE Published
  BY <1>14 DEF Published, Superseded, bounds
<1>15. CASE Supersede
  BY <1>15 DEF Supersede, bounds
<1>16. CASE Recorded
  BY <1>16 DEF Recorded, bounds
<1>17. CASE WriteRoot
  BY <1>17 DEF WriteRoot, Superseded, bounds
<1>18. CASE Remove
  BY <1>18 DEF Remove, bounds
<1>19. CASE Removed
  BY <1>19 DEF Removed, Raise, bounds
<1>20. CASE Fail
  BY <1>20 DEF Fail, Recovering, EndRecovery, Raise, Forget
<1>21. CASE Kill
  <2>1. journal' \in Journals
    <3>1. CASE UNCHANGED journal
      BY <3>1 DEF Journals
    <3>2. CASE journal' = [dir |-> IF pc = "collect" THEN "bare" ELSE journal.dir,
                           records |-> journal.records \ {cur}, stray |-> TRUE]
      BY <3>2 DEF Journals
    <3> QED
      BY <1>21, <3>1, <3>2 DEF Kill
  <2>2. shard' \in [Shards -> {"absent", "whole", "foreign", "twin"}]
    BY <1>21 DEF Kill
  <2>3. kills' \in 0 .. MaxKills
    BY <1>21 DEF Kill
  <2> QED
    BY <1>21, <2>1, <2>2, <2>3 DEF Kill, Forget, Journals
<1>22. CASE Damage
  BY <1>22 DEF Damage, save
<1>23. CASE UNCHANGED vars
  BY <1>23 DEF vars, save, bounds
<1> QED
  BY <1>1, <1>2, <1>3, <1>4, <1>5, <1>6, <1>7, <1>8, <1>9, <1>10, <1>11, <1>12,
     <1>13, <1>14, <1>15, <1>16, <1>17, <1>18, <1>19, <1>20, <1>21, <1>22, <1>23
     DEF Next, Save, Recovery, Saving

\* The catalog, the shards, the journal and the save at work stay typed.
THEOREM TypeCorrect == Spec => []TypeOK
BY TypeInit, TypeStep, PTL DEF Spec

(***************************************************************************)
(* The catalog is closed: every shard a save wants is whole before the     *)
(* catalog is written, and what is removed after is not wanted.            *)
(***************************************************************************)
Closed ==
    /\ Whole(Refs(root))
    /\ pc \in {"publish", "write"} => Whole(Wanted \ rest)
    /\ pc \in {"supersede", "root"} => Whole(Wanted)
    /\ pc = "remove" => rest \cap Wanted = {}

ClosedInv == ~damaged => Closed

LEMMA ClosedInit == Init => ClosedInv
BY StorageAssumption DEF Init, ClosedInv, Closed, Whole, Refs

\* A step that leaves the files alone and the save outside its own part.
LEMMA ClosedIdle ==
    ASSUME TypeOK, Closed, UNCHANGED <<root, shard>>,
           pc' \in {"idle", "scan", "collect", "descriptor", "rmdir", "plan", "prepare"}
    PROVE  Closed'
BY DEF Closed, Whole, Refs

LEMMA ClosedStep == TypeOK /\ ClosedInv /\ [Next]_vars => ClosedInv'
<1> SUFFICES ASSUME TypeOK, ClosedInv, [Next]_vars, ~damaged' PROVE Closed'
  BY DEF ClosedInv
<1>0. ~damaged /\ Closed
  BY DEF ClosedInv, Next, Save, Begin, Recovery, Scan, Collect, CollectStops, Descriptor,
         Collected, RemoveDirectory, Saving, Plan, Prepare, Record, Write, Reuse, Refuse,
         Published, Supersede, Recorded, WriteRoot, Remove, Removed, Fail, Kill, Damage,
         vars, bounds
<1>1. CASE \E p \in Payloads : Begin(p)
  BY <1>0, <1>1, ClosedIdle DEF Begin
<1>2. CASE Scan
  BY <1>0, <1>2, ClosedIdle DEF Scan, EndRecovery, Forget
<1>3. CASE Collect
  <2>1. root' = root /\ pc' \in {"collect", "descriptor"}
    BY <1>3 DEF Collect
  <2>2. \A d \in Refs(root) : shard'[d] = shard[d]
    BY <1>3, RefsType DEF Collect, Collectible, TypeOK
  <2> QED
    BY <1>0, <2>1, <2>2 DEF Closed, Whole, Refs
<1>4. CASE CollectStops
  BY <1>0, <1>4, ClosedIdle DEF CollectStops, EndRecovery, Forget
<1>5. CASE Descriptor
  BY <1>0, <1>5, ClosedIdle DEF Descriptor
<1>6. CASE Collected
  BY <1>0, <1>6, ClosedIdle DEF Collected, EndRecovery, Forget
<1>7. CASE RemoveDirectory
  BY <1>0, <1>7, ClosedIdle DEF RemoveDirectory, EndRecovery, Forget
<1>8. CASE Plan
  <2>1. CASE Wanted \cup prev' = {}
    BY <1>0, <1>8, <2>1 DEF Plan, Closed, Whole, Wanted, Refs
  <2>2. CASE Wanted \cup prev' # {}
    BY <1>0, <1>8, <2>2, ClosedIdle DEF Plan
  <2> QED
    BY <2>1, <2>2
<1>9. CASE Prepare
  <2>1. CASE journal.dir = "owned"
    BY <1>0, <1>9, <2>1 DEF Prepare, Closed, Whole, Wanted, Refs
  <2>2. CASE journal.dir # "owned"
    BY <1>0, <1>9, <2>2, ClosedIdle DEF Prepare
  <2> QED
    BY <2>1, <2>2
<1>10. CASE Record
  BY <1>0, <1>10 DEF Record, Closed, Whole, Wanted, Refs
<1>11. CASE Write
  <2>1. \A d \in Shards : shard[d] = "whole" => shard'[d] = "whole"
    BY <1>11 DEF Write, TypeOK
  <2>2. shard'[cur] = "whole" /\ rest' = rest \ {cur} /\ UNCHANGED <<root, payload>>
    BY <1>11 DEF Write, TypeOK
  <2>3. pc = "write" /\ pc' = "publish"
    BY <1>11 DEF Write
  <2>4. Wanted \subseteq Shards /\ Refs(root) \subseteq Shards
    BY <2>3, RefsType, StorageAssumption DEF Wanted, TypeOK
  <2> QED
    BY <1>0, <2>1, <2>2, <2>3, <2>4 DEF Closed, Whole, Wanted, Refs
<1>12. CASE Reuse
  BY <1>0, <1>12 DEF Reuse, Closed, Whole, Wanted, Refs
<1>13. CASE Refuse
  BY <1>0, <1>13, ClosedIdle DEF Refuse, Raise
<1>14. CASE Published
  BY <1>0, <1>14 DEF Published, Closed, Whole, Wanted, Refs
<1>15. CASE Supersede
  BY <1>0, <1>15 DEF Supersede, Closed, Whole, Wanted, Refs
<1>16. CASE Recorded
  BY <1>0, <1>16 DEF Recorded, Closed, Whole, Wanted, Refs
<1>17. CASE WriteRoot
  <2>1. payload \in Payloads /\ pc = "root"
    BY <1>17 DEF WriteRoot, TypeOK
  <2> QED
    BY <1>0, <1>17, <2>1 DEF WriteRoot, Closed, Whole, Wanted, Refs, Superseded
<1>18. CASE Remove
  <2>1. payload \in Payloads /\ pc = "remove" /\ root = payload /\ rest' \subseteq rest
        /\ UNCHANGED <<pc, root, payload>>
    BY <1>18 DEF Remove, TypeOK
  <2>2. Refs(root) = Wanted
    BY <2>1 DEF Refs, Wanted
  <2>3. \A d \in Wanted : shard'[d] = shard[d]
    BY <1>0, <1>18, <2>1 DEF Remove, Closed, TypeOK
  <2> QED
    BY <1>0, <2>1, <2>2, <2>3 DEF Closed, Whole, Wanted, Refs
<1>19. CASE Removed
  BY <1>0, <1>19, ClosedIdle DEF Removed, Raise
<1>20. CASE Fail
  BY <1>0, <1>20, ClosedIdle DEF Fail, EndRecovery, Raise, Forget
<1>21. CASE Kill
  <2>1. \A d \in Shards : shard[d] = "whole" => shard'[d] = "whole"
    BY <1>21 DEF Kill, TypeOK
  <2> QED
    BY <1>0, <1>21, <2>1, RefsType DEF Kill, Forget, Closed, Whole, Refs
<1>22. CASE Damage
  BY <1>22 DEF Damage
<1>23. CASE UNCHANGED vars
  BY <1>0, <1>23 DEF vars, save, Closed, Whole, Wanted, Refs
<1> QED
  BY <1>1, <1>2, <1>3, <1>4, <1>5, <1>6, <1>7, <1>8, <1>9, <1>10, <1>11, <1>12,
     <1>13, <1>14, <1>15, <1>16, <1>17, <1>18, <1>19, <1>20, <1>21, <1>22, <1>23
     DEF Next, Save, Recovery, Saving

\* Wherever a save or a recovery breaks off, the catalog can be read back.
THEOREM CatalogStaysClosed == Spec => []CatalogClosed
<1>1. Init => ClosedInv
  BY ClosedInit
<1>2. ClosedInv => CatalogClosed
  BY DEF ClosedInv, Closed, CatalogClosed
<1> QED
  BY <1>1, <1>2, TypeInit, TypeStep, ClosedStep, PTL DEF Spec

(***************************************************************************)
(* What the journal knows: every shard about to be written, every shard    *)
(* the next catalog will no longer refer to, and nothing it still needs    *)
(* when a descriptor or the directory goes.                                *)
(***************************************************************************)
Known ==
    /\ Garbage \subseteq journal.records
    /\ pc \in {"prepare", "publish", "supersede", "root"} => prev = Refs(root)
    /\ pc = "write" => cur \in journal.records /\ prev = Refs(root)
    /\ pc = "supersede" => Superseded \ rest \subseteq journal.records
    /\ pc = "root" => Superseded \subseteq journal.records
    /\ pc = "descriptor" => cur \notin Garbage
    /\ pc = "rmdir" => journal.records = {}

KnownInv == ~damaged => Known

LEMMA KnownInit == Init => KnownInv
BY StorageAssumption DEF Init, KnownInv, Known, Garbage, Refs, NoJournal

\* Garbage does not grow where no shard is written and the catalog stays.
LEMMA GarbageShrinks ==
    ASSUME root' = root,
           \A d \in Shards : shard'[d] \in {"whole", "twin"} => shard[d] \in {"whole", "twin"}
    PROVE  Garbage' \subseteq Garbage
BY DEF Garbage, Refs

\* A step that leaves the files alone and leads outside the save's own part.
LEMMA KnownIdle ==
    ASSUME Known, UNCHANGED <<root, shard, journal>>,
           pc' \in {"idle", "scan", "collect", "plan"}
    PROVE  Known'
BY DEF Known, Garbage, Refs

LEMMA KnownStep == TypeOK /\ ClosedInv /\ KnownInv /\ [Next]_vars => KnownInv'
<1> SUFFICES ASSUME TypeOK, ClosedInv, KnownInv, [Next]_vars, ~damaged' PROVE Known'
  BY DEF KnownInv
<1>0. ~damaged /\ Known /\ Closed
  BY DEF ClosedInv, KnownInv, Next, Save, Begin, Recovery, Scan, Collect, CollectStops,
         Descriptor, Collected, RemoveDirectory, Saving, Plan, Prepare, Record, Write, Reuse,
         Refuse, Published, Supersede, Recorded, WriteRoot, Remove, Removed, Fail, Kill,
         Damage, vars, bounds
<1>1. CASE \E p \in Payloads : Begin(p)
  BY <1>0, <1>1, KnownIdle DEF Begin
<1>2. CASE Scan
  BY <1>0, <1>2, KnownIdle DEF Scan, EndRecovery, Forget
<1>3. CASE Collect
  <2>1. Garbage' \subseteq Garbage
    BY <1>3, GarbageShrinks DEF Collect, TypeOK
  <2>2. pc' = "descriptor" => cur' \notin Garbage'
    BY <1>3 DEF Collect, Garbage, TypeOK
  <2>3. journal' = journal /\ pc' \in {"collect", "descriptor"}
    BY <1>3 DEF Collect
  <2> QED
    BY <1>0, <2>1, <2>2, <2>3 DEF Known
<1>4. CASE CollectStops
  BY <1>0, <1>4, KnownIdle DEF CollectStops, EndRecovery, Forget
<1>5. CASE Descriptor
  <2>1. Garbage' = Garbage /\ pc' = "collect" /\ pc = "descriptor"
    BY <1>5 DEF Descriptor, Garbage, Refs
  <2>2. journal'.records = journal.records \ {cur}
    BY <1>5 DEF Descriptor, TypeOK
  <2> QED
    BY <1>0, <2>1, <2>2 DEF Known
<1>6. CASE Collected
  <2>1. CASE journal.records = {}
    <3>1. journal'.records = {} /\ pc' = "rmdir" /\ Garbage' = Garbage
      BY <1>6, <2>1 DEF Collected, TypeOK, Garbage, Refs
    <3> QED
      BY <1>0, <2>1, <3>1 DEF Known
  <2>2. CASE journal.records # {}
    BY <1>0, <1>6, <2>2, KnownIdle DEF Collected, EndRecovery, Forget
  <2> QED
    BY <2>1, <2>2
<1>7. CASE RemoveDirectory
  <2>1. Garbage' = Garbage /\ journal'.records = {} /\ pc' \in {"idle", "plan"}
    BY <1>7 DEF RemoveDirectory, NoJournal, EndRecovery, Forget, Garbage, Refs
  <2>2. journal.records = {}
    BY <1>0, <1>7 DEF RemoveDirectory, Known
  <2> QED
    BY <1>0, <2>1, <2>2 DEF Known
<1>8. CASE Plan
  <2>1. Garbage' = Garbage /\ prev' = Refs(root') /\ journal' = journal /\ pc' \in {"root", "prepare"}
    BY <1>8 DEF Plan, Garbage, Refs
  <2>2. pc' = "root" => Superseded' = {}
    BY <1>8 DEF Plan, Superseded, Wanted
  <2> QED
    BY <1>0, <2>1, <2>2 DEF Known
<1>9. CASE Prepare
  <2>1. journal'.records = journal.records /\ Garbage' = Garbage /\ UNCHANGED <<root, prev>>
        /\ pc = "prepare" /\ pc' \in {"prepare", "publish"}
    BY <1>9 DEF Prepare, Garbage, Refs, TypeOK
  <2> QED
    BY <1>0, <2>1 DEF Known, Refs
<1>10. CASE Record
  <2>1. PICK d \in rest : /\ journal' = [journal EXCEPT !.records = @ \cup {d}]
                          /\ cur' = d
    BY <1>10 DEF Record
  <2>2. journal'.records = journal.records \cup {d}
    BY <2>1 DEF TypeOK
  <2>3. Garbage' = Garbage /\ UNCHANGED <<root, prev>> /\ pc = "publish" /\ pc' = "write"
    BY <1>10 DEF Record, Garbage, Refs
  <2> QED
    BY <1>0, <2>1, <2>2, <2>3 DEF Known, Refs
<1>11. CASE Write
  <2>1. Garbage' \subseteq Garbage \cup {cur}
    BY <1>11 DEF Write, Garbage, Refs, TypeOK
  <2>2. pc = "write" /\ pc' = "publish" /\ UNCHANGED <<root, prev, journal>>
    BY <1>11 DEF Write
  <2> QED
    BY <1>0, <2>1, <2>2 DEF Known, Refs
<1>12. CASE Reuse
  BY <1>0, <1>12 DEF Reuse, Known, Garbage, Refs
<1>13. CASE Refuse
  BY <1>0, <1>13, KnownIdle DEF Refuse, Raise
<1>14. CASE Published
  <2>1. rest' = Superseded' /\ Garbage' = Garbage /\ UNCHANGED <<root, prev, journal>>
        /\ pc = "publish" /\ pc' = "supersede"
    BY <1>14 DEF Published, Superseded, Wanted, Garbage, Refs
  <2> QED
    BY <1>0, <2>1 DEF Known, Refs
<1>15. CASE Supersede
  <2>1. PICK d \in rest : /\ rest' = rest \ {d}
                          /\ IF shard[d] = "whole"
                             THEN journal' = [journal EXCEPT !.records = @ \cup {d}]
                             ELSE UNCHANGED journal
    BY <1>15 DEF Supersede
  <2>2. pc = "supersede" /\ pc' = "supersede" /\ Garbage' = Garbage /\ Superseded' = Superseded
        /\ UNCHANGED <<root, prev>>
    BY <1>15 DEF Supersede, Garbage, Refs, Superseded, Wanted
  <2>3. journal.records \subseteq journal'.records
    BY <2>1 DEF TypeOK
  <2>4. d \in Superseded => d \in journal'.records
    <3>1. SUFFICES ASSUME d \in Superseded PROVE d \in journal'.records
      OBVIOUS
    <3>2. shard[d] = "whole"
      BY <1>0, <2>2, <3>1 DEF Known, Closed, Whole, Superseded
    <3> QED
      BY <2>1, <3>2 DEF TypeOK
  <2> QED
    BY <1>0, <2>1, <2>2, <2>3, <2>4 DEF Known, Refs
<1>16. CASE Recorded
  <2>1. Superseded' = Superseded /\ Garbage' = Garbage /\ UNCHANGED <<root, prev, journal>>
        /\ pc = "supersede" /\ pc' = "root" /\ rest = {}
    BY <1>16 DEF Recorded, Superseded, Wanted, Garbage, Refs
  <2> QED
    BY <1>0, <2>1 DEF Known, Refs
<1>17. CASE WriteRoot
  <2>1. pc = "root" /\ pc' = "remove" /\ payload \in Payloads /\ root' = payload
        /\ UNCHANGED <<shard, journal, payload, prev>>
    BY <1>17 DEF WriteRoot, TypeOK
  <2>2. Refs(root') = Wanted /\ prev = Refs(root)
    BY <1>0, <2>1 DEF Refs, Wanted, Known
  <2>3. Garbage' \subseteq Garbage \cup Superseded
    BY <2>1, <2>2 DEF Garbage, Superseded
  <2> QED
    BY <1>0, <2>1, <2>3 DEF Known
<1>18. CASE Remove
  <2>1. Garbage' \subseteq Garbage /\ journal' = journal /\ pc' = "remove"
    BY <1>18, GarbageShrinks DEF Remove, TypeOK
  <2> QED
    BY <1>0, <2>1 DEF Known
<1>19. CASE Removed
  BY <1>0, <1>19, KnownIdle DEF Removed, Raise
<1>20. CASE Fail
  BY <1>0, <1>20, KnownIdle DEF Fail, EndRecovery, Raise, Forget
<1>21. CASE Kill
  <2>1. pc' = "idle" /\ root' = root
    BY <1>21 DEF Kill, Forget
  <2>2. CASE UNCHANGED <<shard, journal>>
    BY <1>0, <2>1, <2>2, KnownIdle
  <2>3. CASE /\ Journaling
             /\ journal' = [dir |-> IF pc = "collect" THEN "bare" ELSE journal.dir,
                            records |-> journal.records \ {cur}, stray |-> TRUE]
             /\ UNCHANGED shard
    <3>1. Garbage' = Garbage /\ journal'.records = journal.records \ {cur}
      BY <2>1, <2>3 DEF Garbage, Refs
    <3>2. cur \notin Garbage
      BY <1>0, <2>3, StorageAssumption DEF Journaling, Known, Garbage, TypeOK
    <3> QED
      BY <1>0, <2>1, <3>1, <3>2 DEF Known
  <2>4. CASE /\ pc = "write" /\ shard' = [shard EXCEPT ![cur] = "twin"]
             /\ UNCHANGED journal
    <3>1. Garbage' \subseteq Garbage \cup {cur}
      BY <2>1, <2>4 DEF Garbage, Refs, TypeOK
    <3> QED
      BY <1>0, <2>1, <2>4, <3>1 DEF Known
  <2> QED
    BY <1>21, <2>2, <2>3, <2>4 DEF Kill
<1>22. CASE Damage
  BY <1>22 DEF Damage
<1>23. CASE UNCHANGED vars
  BY <1>0, <1>23 DEF vars, save, Known, Garbage, Refs, Superseded, Wanted
<1> QED
  BY <1>1, <1>2, <1>3, <1>4, <1>5, <1>6, <1>7, <1>8, <1>9, <1>10, <1>11, <1>12,
     <1>13, <1>14, <1>15, <1>16, <1>17, <1>18, <1>19, <1>20, <1>21, <1>22, <1>23
     DEF Next, Save, Recovery, Saving

\* No shard is left behind that the journal does not know of.
THEOREM GarbageStaysAccounted == Spec => []GarbageAccounted
<1>1. KnownInv => GarbageAccounted
  BY DEF KnownInv, Known, GarbageAccounted
<1> QED
  BY <1>1, TypeInit, ClosedInit, KnownInit, TypeStep, ClosedStep, KnownStep, PTL DEF Spec
=============================================================================

--------------------------- MODULE SyncPagesProofs ---------------------------
(***************************************************************************)
(* Proofs about the pages of a wiki under sync, for every source, every    *)
(* set of names and every number of syncs, failures, kills and edits.      *)
(***************************************************************************)
EXTENDS SyncPages, TLAPS

MovesType == [state : {"none", "capturing", "prepared", "applied", "committed"},
              list : SUBSET MoveList, names : Maps, originals : Trees]
JournalType == [status : {"none", "writing", "rejected"}, before : SUBSET Paths,
                anchors : Maps, rows : [Paths -> SUBSET Rows]]
PlanType == [old : Maps, new : Maps, existing : SUBSET Paths]
JobType == [path : Paths \cup {NoPath}, old : Pages \cup {Absent},
            new : Pages \cup {Absent}, then : {"idle", "place", "refresh"}]

LEMMA ConstantTypes ==
    /\ MaxSyncs \in Nat /\ MaxChanges \in Nat /\ MaxEdits \in Nat
    /\ MaxFails \in Nat /\ MaxKills \in Nat
    /\ Nothing \in Trees /\ FirstMap \in Maps
    /\ NoMoves \in MovesType /\ NoJournal \in JournalType
    /\ NoPlan \in PlanType /\ NoJob \in JobType
<1>1. Nothing \in Trees /\ FirstMap \in Maps
  BY SyncAssumption DEF Nothing, Trees
<1>2. [p \in Paths |-> {}] \in [Paths -> SUBSET Rows]
  OBVIOUS
<1> QED
  BY <1>1, <1>2, SyncAssumption
     DEF NoMoves, MovesType, NoJournal, JournalType, NoPlan, PlanType, NoJob, JobType

LEMMA OwnedType == \A m \in Maps : OwnedPages(m) \subseteq Paths
BY DEF OwnedPages, Maps

LEMMA MovesAreMoves == \A a, b, e : Moves(a, b, e) \subseteq MoveList
BY DEF Moves, MoveList

\* The same page, saved by somebody else.
LEMMA SavedType ==
    ASSUME NEW page \in Pages, NEW s \in Savers
    PROVE  [page EXCEPT !.by = s] \in Pages
BY DEF Pages

LEMMA BytesType == ASSUME NEW page \in Pages PROVE Bytes(page) \in Pages
BY ConstantTypes, DistinctAssumption DEF Bytes, Pages, Savers

LEMMA RowType ==
    ASSUME NEW page \in Pages, NEW b \in BOOLEAN PROVE Row(page, b) \in Rows
<1>1. page.by \in Savers
  BY DEF Pages
<1> QED
  BY <1>1, BytesType DEF Row, Rows

(***************************************************************************)
(* Type correctness: pages that are about to move were there, and so were  *)
(* the originals of every transition that an author may resolve.           *)
(***************************************************************************)
Working == {"save", "unlink", "place", "refresh", "replace", "bind"}

Captured == rest \subseteq Moving /\ \A m \in Moving : taken[m.from] \in Pages

Shape ==
    /\ todo \subseteq Current(plan.new)
    /\ pc = "planned" => last < MaxSyncs
    /\ pc \in Working => Captured
    /\ pc \in {"replace", "bind"} => job.path \in Paths /\ job.new \in Pages
    /\ pc = "save" => /\ moves.list = Moving
                      /\ \A m \in Moving \ rest : moves.originals[m.from] \in Pages
    /\ moves.state = "none" => moves.list = {}
    /\ moves.state = "capturing" => pc \in {"save", "idle", "recover", "remove"}
    /\ moves.state # "capturing" =>
          \A m \in moves.list : moves.originals[m.from] \in Pages

TypeInv == TypeOK /\ Shape

LEMMA TypeInit == Init => TypeInv
<1> SUFFICES ASSUME Init PROVE TypeInv
  OBVIOUS
<1> USE ConstantTypes
<1>1. disk \in Trees
  <2>1. SUFFICES ASSUME NEW p \in Paths PROVE disk[p] \in Pages \cup {Absent}
    BY DEF Init, Trees
  <2>2. CASE p \in OwnedPages(FirstMap)
    <3> DEFINE o == CHOOSE u \in Owners : FirstMap[u] = p
    <3>1. o \in Owners
      BY <2>2 DEF OwnedPages
    <3>2. [owner |-> o, note |-> [n |-> 0, home |-> o], gen |-> 0, by |-> 0] \in Pages
      BY <3>1 DEF Pages, Notes, Savers
    <3> QED
      BY <2>2, <3>2 DEF Init
  <2> QED
    BY <2>2 DEF Init
<1>2. alive \subseteq Notes
  BY DEF Init, Notes, Current
<1>3. journals \in [Ops -> JournalType]
  BY DEF Init
<1>4. source \in Maps
  BY SyncAssumption DEF Init
<1>5. TypeOK
  <2>1. 0 \in 0 .. MaxSyncs /\ 0 \in 0 .. MaxChanges /\ 0 \in 0 .. MaxEdits
        /\ 0 \in 0 .. MaxFails /\ 0 \in 0 .. MaxKills
    OBVIOUS
  <2>2. moves \in MovesType /\ plan \in PlanType /\ job \in JobType /\ taken \in Trees
    BY DEF Init
  <2>3. manifest \in Maps /\ last = 0 /\ op = 0 /\ pc = "idle" /\ rest = {} /\ todo = {}
        /\ resolved = FALSE /\ changes = 0 /\ edits = 0 /\ removals = 0 /\ fails = 0 /\ kills = 0
    BY DEF Init
  <2> QED
    BY <1>1, <1>2, <1>3, <1>4, <2>1, <2>2, <2>3
       DEF TypeOK, JournalType, MovesType, PlanType, JobType
<1>6. Shape
  BY DEF Init, Shape, Working, NoMoves
<1> QED
  BY <1>5, <1>6 DEF TypeInv

\* An owner of the plan and the page it brings along.
LEMMA SourceType ==
    ASSUME TypeOK, NEW o \in Owners
    PROVE  LET from == SourceOf(plan.old, plan.new, plan.existing, o) IN
           /\ from \in Paths \cup {NoPath}
           /\ plan.new[o] \in Paths \cup {NoPath}
BY DEF TypeOK, SourceOf, Maps

LEMMA ExpectedType ==
    ASSUME TypeOK, NEW o \in Owners
    PROVE  Expected(o) \in Pages \cup {Absent}
<1> DEFINE from == SourceOf(plan.old, plan.new, plan.existing, o)
<1>1. from \in Paths \cup {NoPath}
  BY SourceType
<1>2. disk \in [Paths -> Pages \cup {Absent}] /\ taken \in [Paths -> Pages \cup {Absent}]
  BY DEF TypeOK, Trees
<1> HIDE DEF from
<1>3. from # NoPath => disk[from] \in Pages \cup {Absent} /\ taken[from] \in Pages \cup {Absent}
  BY <1>1, <1>2
<1> QED
  BY <1>3 DEF Expected, from

\* Ending a run leaves nothing of it behind.
LEMMA ForgetShape ==
    ASSUME Forget
    PROVE  /\ pc' = "idle" /\ op' = 0
           /\ plan' \in PlanType /\ taken' \in Trees /\ rest' \subseteq MoveList
           /\ todo' = {} /\ job' \in JobType
BY ConstantTypes DEF Forget

\* A run that ends with the files, the originals and the typed rest as they are.
LEMMA EndStep ==
    ASSUME TypeInv, Forget,
           UNCHANGED <<disk, source, manifest, moves, alive>>,
           journals' \in [Ops -> JournalType], last' \in 0 .. MaxSyncs,
           resolved' \in BOOLEAN, changes' \in 0 .. MaxChanges, edits' \in 0 .. MaxEdits,
           removals' \in 0 .. MaxEdits, fails' \in 0 .. MaxFails, kills' \in 0 .. MaxKills
    PROVE  TypeInv'
<1>1. TypeOK'
  BY ForgetShape, ConstantTypes DEF TypeInv, TypeOK, JournalType, PlanType, JobType
<1>2. Shape'
  BY ForgetShape DEF TypeInv, Shape, Working
<1> QED
  BY <1>1, <1>2 DEF TypeInv

LEMMA RejectedType ==
    ASSUME TypeOK
    PROVE  [journals EXCEPT ![op] = Rejected] \in [Ops -> JournalType]
<1>1. op \in Ops => Rejected \in JournalType
  BY ConstantTypes DEF TypeOK, Rejected, Journal, JournalType
<1>2. journals \in [Ops -> JournalType]
  BY DEF TypeOK, JournalType
<1> QED
  BY <1>1, <1>2

\* What a write puts into the journal and into the job at work.
LEMMA WriteType ==
    ASSUME TypeInv, NEW path \in Paths, NEW old \in Pages \cup {Absent}, NEW new \in Pages,
           NEW then \in {"idle", "place", "refresh"}, Write(path, old, new, then)
    PROVE  /\ journals' \in [Ops -> JournalType]
           /\ job' \in JobType /\ job'.path \in Paths /\ job'.new \in Pages
           /\ pc' = "replace"
<1>1. job' = [path |-> path, old |-> old, new |-> new, then |-> then] /\ pc' = "replace"
  BY DEF Write
<1>2. job' \in JobType /\ job'.path \in Paths /\ job'.new \in Pages
  BY <1>1 DEF JobType
<1>3. journals \in [Ops -> JournalType]
  BY DEF TypeInv, TypeOK, JournalType
<1>4. CASE path \in Journal.before
  BY <1>1, <1>2, <1>3, <1>4 DEF Write
<1>5. CASE path \notin Journal.before
  <2>1. Row(new, FALSE) \in Rows
    BY RowType
  <2>2. journals' = [journals EXCEPT ![op].rows[path] = @ \cup {Row(new, FALSE)}]
    BY <1>5 DEF Write
  <2>3. \A j \in Ops : [journals[j] EXCEPT !.rows[path] = @ \cup {Row(new, FALSE)}] \in JournalType
    <3>1. TAKE j \in Ops
    <3>2. journals[j] \in JournalType /\ journals[j].rows \in [Paths -> SUBSET Rows]
      BY <1>3 DEF JournalType
    <3>3. [journals[j].rows EXCEPT ![path] = @ \cup {Row(new, FALSE)}] \in [Paths -> SUBSET Rows]
      BY <2>1, <3>2
    <3> QED
      BY <3>2, <3>3 DEF JournalType
  <2>4. journals' \in [Ops -> JournalType]
    BY <1>3, <2>2, <2>3
  <2> QED
    BY <1>1, <1>2, <2>4
<1> QED
  BY <1>4, <1>5

LEMMA TypeSync == TypeInv /\ (Begin \/ Open \/ Capture) => TypeInv'
<1> SUFFICES ASSUME TypeInv, Begin \/ Open \/ Capture PROVE TypeInv'
  OBVIOUS
<1> USE ConstantTypes DEF TypeInv, env, store, bounds
<1>1. CASE Begin
  <2>1. plan' \in PlanType /\ todo' \subseteq Current(plan'.new) /\ todo' \subseteq Owners
    BY <1>1 DEF Begin, PlanType, TypeOK, Existing, Current
  <2>2. TypeOK'
    BY <1>1, <2>1 DEF Begin, TypeOK, PlanType
  <2>3. Shape'
    BY <1>1, <2>1 DEF Begin, Shape, Working
  <2> QED
    BY <2>2, <2>3
<1>2. CASE Open
  <2>1. last' \in 0 .. MaxSyncs /\ op' \in 0 .. MaxSyncs
    <3>1. last + 1 \in Ops
      BY <1>2 DEF Open, Shape, TypeOK, Ops
    <3> QED
      BY <1>2, <3>1 DEF Open, TypeOK, Ops
  <2>2. [NoJournal EXCEPT !.status = "writing", !.anchors = manifest,
                          !.before = Existing \cup OwnedPages(manifest)] \in JournalType
    BY OwnedType DEF TypeOK, JournalType, Existing
  <2>3. journals' \in [Ops -> JournalType]
    BY <1>2, <2>2 DEF Open, TypeOK, JournalType
  <2>4. TypeOK'
    BY <1>2, <2>1, <2>3 DEF Open, TypeOK, JournalType
  <2>5. Shape'
    BY <1>2 DEF Open, Shape, Working
  <2> QED
    BY <2>4, <2>5
<1>3. CASE Capture
  <2>1. taken' \in Trees
    BY <1>3 DEF Capture, TypeOK, Trees
  <2>2. rest' = Moving /\ rest' \subseteq MoveList /\ Moving' = Moving
    BY <1>3, MovesAreMoves DEF Capture, Moving
  <2>3. moves' \in MovesType
    <3>1. [NoMoves EXCEPT !.state = "capturing", !.list = Moving, !.names = plan.new] \in MovesType
      BY <2>2 DEF MovesType, TypeOK
    <3>2. moves \in MovesType
      BY DEF TypeOK, MovesType
    <3> QED
      BY <1>3, <3>1, <3>2 DEF Capture
  <2>4. TypeOK'
    BY <1>3, <2>1, <2>2, <2>3 DEF Capture, TypeOK, MovesType
  <2>5. ASSUME NEW m \in Moving PROVE taken'[m.from] \in Pages
    <3>1. /\ m.owner \in Current(plan.new) /\ m.from \in Paths
          /\ m.from = SourceOf(plan.old, plan.new, plan.existing, m.owner)
      BY DEF Moving, Moves
    <3>2. m.from = SourceOf(plan.old, plan.new, Existing, m.owner)
      BY <1>3, <3>1 DEF Capture, Replanned
    <3>3. m.from \in Existing
      BY <3>1, <3>2, NoPathAssumption DEF SourceOf
    <3>4. taken'[m.from] = disk[m.from]
      BY <1>3, <3>1 DEF Capture
    <3> QED
      BY <3>1, <3>3, <3>4 DEF Existing, TypeOK, Trees
  <2>6. Captured'
    BY <2>2, <2>5 DEF Captured
  <2>7. CASE Moving = {}
    <3>1. pc' = "refresh" /\ pc = "apply" /\ UNCHANGED <<plan, todo, moves>>
      BY <1>3, <2>7 DEF Capture
    <3>2. todo' \subseteq Current(plan'.new)
      BY <3>1 DEF Shape
    <3> QED
      BY <2>4, <2>6, <3>1, <3>2 DEF Shape, Working
  <2>8. CASE Moving # {}
    <3>1. pc' = "save" /\ moves'.list = Moving /\ moves'.state = "capturing" /\ UNCHANGED <<plan, todo>>
      BY <1>3, <2>8 DEF Capture, NoMoves
    <3>2. todo' \subseteq Current(plan'.new)
      BY <3>1 DEF Shape
    <3>3. moves'.list = Moving' /\ Moving' \ rest' = {}
      BY <2>2, <3>1
    <3> QED
      BY <2>4, <2>6, <3>1, <3>2, <3>3 DEF Shape, Working
  <2> QED
    BY <2>4, <2>7, <2>8 DEF Shape
<1> QED
  BY <1>1, <1>2, <1>3

LEMMA TypeMoved == TypeInv /\ Moved => TypeInv'
<1> SUFFICES ASSUME TypeInv, Moved PROVE TypeInv'
  OBVIOUS
<1> USE ConstantTypes DEF TypeInv, env, store, bounds
<1>0. pc \in Working /\ Captured /\ Moving \subseteq MoveList /\ moves \in MovesType
  BY MovesAreMoves DEF Moved, SaveOriginal, Prepare, Unlink, Vacated, Place, Placed, Working,
     Shape, Moving, TypeOK, MovesType
<1>1. CASE SaveOriginal
  <2>1. PICK m \in rest : /\ moves' = [moves EXCEPT !.originals[m.from] = taken[m.from]]
                          /\ rest' = rest \ {m}
    BY <1>1 DEF SaveOriginal
  <2>2. m \in Moving /\ taken[m.from] \in Pages /\ m.from \in Paths
    BY <1>0, <2>1 DEF Captured, MoveList
  <2>3. moves'.originals = [moves.originals EXCEPT ![m.from] = taken[m.from]]
        /\ moves'.list = moves.list /\ moves'.state = moves.state /\ moves' \in MovesType
    BY <1>0, <2>1, <2>2 DEF MovesType, Trees
  <2>4. TypeOK'
    BY <1>1, <2>1, <2>3 DEF SaveOriginal, TypeOK, MovesType
  <2>5. \A n \in MoveList : moves.originals[n.from] \in Pages => moves'.originals[n.from] \in Pages
    BY <1>0, <2>2, <2>3 DEF MovesType, Trees, MoveList
  <2>6. moves'.originals[m.from] \in Pages
    BY <1>0, <2>2, <2>3 DEF MovesType, Trees
  <2>7. Moving' = Moving /\ UNCHANGED <<pc, plan, taken, todo, job>>
    BY <1>1 DEF SaveOriginal, Moving
  <2>8. pc = "save" /\ moves.list \subseteq MoveList
    BY <1>0, <1>1 DEF SaveOriginal, MovesType
  <2>9. Shape'
    BY <1>0, <2>1, <2>3, <2>5, <2>6, <2>7, <2>8 DEF Shape, Captured, Working
  <2> QED
    BY <2>4, <2>9
<1>2. CASE Prepare
  <2>1. moves' \in MovesType /\ moves'.list = moves.list /\ moves'.originals = moves.originals
        /\ moves'.state = "prepared"
    BY <1>0, <1>2 DEF Prepare, MovesType
  <2>2. TypeOK'
    BY <1>0, <1>2, <2>1 DEF Prepare, TypeOK, MovesType
  <2>3. moves.list = Moving /\ rest = {} /\ \A m \in Moving : moves.originals[m.from] \in Pages
    BY <1>2 DEF Prepare, Shape
  <2>4. Moving' = Moving /\ rest' = Moving /\ pc' = "unlink" /\ UNCHANGED <<plan, taken, todo>>
    BY <1>2 DEF Prepare, Moving
  <2>5. Shape'
    BY <1>0, <2>1, <2>3, <2>4 DEF Shape, Captured, Working
  <2> QED
    BY <2>2, <2>5
<1>3. CASE Unlink
  <2>1. disk' \in Trees /\ rest' \subseteq rest
    BY <1>3 DEF Unlink, TypeOK, Trees
  <2>2. TypeOK'
    BY <1>3, <2>1 DEF Unlink, TypeOK
  <2>3. Shape'
    BY <1>0, <1>3, <2>1 DEF Unlink, Shape, Captured, Working, Moving
  <2> QED
    BY <2>2, <2>3
<1>4. CASE Vacated
  BY <1>0, <1>4 DEF Vacated, TypeOK, Shape, Captured, Working, Moving
<1>5. CASE Place
  <2>1. PICK m \in rest : /\ Write(m.to, Absent, [taken[m.from] EXCEPT !.by = op], "place")
                          /\ rest' = rest \ {m}
    BY <1>5 DEF Place
  <2>2. m.to \in Paths /\ taken[m.from] \in Pages
    BY <1>0, <2>1 DEF Captured, MoveList
  <2>3. op \in Savers
    BY DEF TypeOK, Savers
  <2>4. [taken[m.from] EXCEPT !.by = op] \in Pages
    BY <2>2, <2>3, SavedType
  <2>5. journals' \in [Ops -> JournalType] /\ job' \in JobType /\ job'.path \in Paths
        /\ job'.new \in Pages /\ pc' = "replace"
    BY <2>1, <2>2, <2>4, WriteType
  <2>6. TypeOK'
    BY <1>5, <2>1, <2>5 DEF Place, TypeOK, JournalType, JobType
  <2>7. Shape'
    BY <1>0, <1>5, <2>1, <2>5 DEF Place, Shape, Captured, Working, Moving
  <2> QED
    BY <2>6, <2>7
<1>6. CASE Placed
  <2>1. moves' \in MovesType /\ moves'.list = moves.list /\ moves'.originals = moves.originals
        /\ pc = "place" /\ pc' = "refresh"
    BY <1>0, <1>6 DEF Placed, MovesType
  <2>2. TypeOK'
    BY <1>6, <2>1 DEF Placed, TypeOK, MovesType
  <2>3. Shape'
    BY <1>0, <1>6, <2>1 DEF Placed, Shape, Captured, Working, Moving
  <2> QED
    BY <2>2, <2>3
<1> QED
  BY <1>1, <1>2, <1>3, <1>4, <1>5, <1>6 DEF Moved

LEMMA TypeWritten == TypeInv /\ Written => TypeInv'
<1> SUFFICES ASSUME TypeInv, Written PROVE TypeInv'
  OBVIOUS
<1> USE ConstantTypes DEF TypeInv, env, store, bounds
<1>0. pc \in Working /\ Captured
  BY DEF Written, Refresh, Skip, Replace, Bind, Working, Shape
<1>1. CASE Refresh
  <2>1. PICK o \in todo : /\ Write(plan.new[o], Expected(o), Merged(o, disk[plan.new[o]]), "refresh")
                          /\ todo' = todo \ {o}
    BY <1>1 DEF Refresh
  <2>2. o \in Owners /\ plan.new[o] \in Paths
    BY <2>1 DEF Shape, Current, TypeOK, Maps
  <2>3. Expected(o) \in Pages \cup {Absent}
    BY <2>2, ExpectedType
  <2>4. Merged(o, disk[plan.new[o]]) \in Pages
    <3>1. disk[plan.new[o]] \in Pages \cup {Absent} /\ op \in 0 .. MaxSyncs
      BY <2>2 DEF TypeOK, Trees
    <3> QED
      BY <2>2, <3>1 DEF Merged, Pages, Savers
  <2>5. journals' \in [Ops -> JournalType] /\ job' \in JobType /\ job'.path \in Paths
        /\ job'.new \in Pages /\ pc' = "replace"
    BY <2>1, <2>2, <2>3, <2>4, WriteType
  <2>6. TypeOK'
    BY <1>1, <2>1, <2>5 DEF Refresh, TypeOK, JournalType, JobType
  <2>7. Shape'
    BY <1>0, <1>1, <2>1, <2>5 DEF Refresh, Shape, Captured, Working, Moving
  <2> QED
    BY <2>6, <2>7
<1>2. CASE Skip
  BY <1>0, <1>2 DEF Skip, TypeOK, Shape, Captured, Working, Moving
<1>3. CASE Replace
  <2>1. job.path \in Paths /\ job.new \in Pages
    BY <1>3 DEF Replace, Shape
  <2>2. disk' \in Trees
    BY <1>3, <2>1 DEF Replace, TypeOK, Trees
  <2>3. job \in JobType
    BY DEF TypeOK, JobType
  <2>4. job' \in JobType /\ pc' \in {"bind", "idle", "place", "refresh"}
        /\ (pc' = "bind" => job' = job)
    BY <1>3, <2>3 DEF Replace, JobType
  <2>5. TypeOK'
    BY <1>3, <2>2, <2>4 DEF Replace, TypeOK, JobType
  <2>6. Shape'
    BY <1>0, <1>3, <2>1, <2>4 DEF Replace, Shape, Captured, Working, Moving
  <2> QED
    BY <2>5, <2>6
<1>4. CASE Bind
  <2>1. job.path \in Paths /\ job.new \in Pages /\ job \in JobType
    BY <1>4 DEF Bind, Shape, TypeOK, JobType
  <2>2. disk[job.path] \in Pages
    <3>1. disk[job.path] \in Pages \cup {Absent}
      BY <2>1 DEF TypeOK, Trees
    <3>2. Bytes(job.new) \in Pages
      BY <2>1, BytesType
    <3> QED
      BY <1>4, <3>1, <3>2, DistinctAssumption DEF Bind, Same, Bytes
  <2>3. Row(disk[job.path], TRUE) \in Rows
    BY <2>2, RowType
  <2>4. journals' \in [Ops -> JournalType]
    <3> DEFINE Bound(j) == [journals[j] EXCEPT !.rows[job.path] =
                              (@ \ {Row(job.new, FALSE)}) \cup {Row(disk[job.path], TRUE)}]
    <3>1. ASSUME NEW j \in Ops PROVE Bound(j) \in JournalType
      <4>1. journals[j] \in JournalType /\ journals[j].rows \in [Paths -> SUBSET Rows]
        BY DEF TypeOK, JournalType
      <4>2. [journals[j].rows EXCEPT ![job.path] =
              (@ \ {Row(job.new, FALSE)}) \cup {Row(disk[job.path], TRUE)}] \in [Paths -> SUBSET Rows]
        BY <2>3, <4>1
      <4> QED
        BY <4>1, <4>2 DEF JournalType
    <3>2. journals' = [journals EXCEPT ![op] = Bound(op)]
      BY <1>4 DEF Bind
    <3>3. journals \in [Ops -> JournalType]
      BY DEF TypeOK, JournalType
    <3> HIDE DEF Bound
    <3> QED
      BY <3>1, <3>2, <3>3
  <2>5. pc' \in {"idle", "place", "refresh"} /\ job' = NoJob
    BY <1>4, <2>1 DEF Bind, JobType
  <2>6. TypeOK'
    BY <1>4, <2>4, <2>5 DEF Bind, TypeOK, JournalType, JobType
  <2>7. Shape'
    BY <1>0, <1>4, <2>5 DEF Bind, Shape, Captured, Working, Moving
  <2> QED
    BY <2>6, <2>7
<1> QED
  BY <1>1, <1>2, <1>3, <1>4 DEF Written

\* A sync that fails, however it fails.
LEMMA TypeReject ==
    ASSUME TypeInv, Reject, UNCHANGED last,
           fails' \in 0 .. MaxFails, kills' \in 0 .. MaxKills
    PROVE  TypeInv'
<1>1. journals' \in [Ops -> JournalType]
  BY RejectedType DEF Reject, TypeInv
<1> QED
  BY <1>1, EndStep DEF Reject, TypeInv, TypeOK

LEMMA TypeEnded == TypeInv /\ (Ended \/ Fail \/ FailUnbound \/ Kill) => TypeInv'
<1> SUFFICES ASSUME TypeInv, Ended \/ Fail \/ FailUnbound \/ Kill PROVE TypeInv'
  OBVIOUS
<1> USE ConstantTypes DEF env, store, bounds, run
<1>0. moves \in MovesType /\ journals \in [Ops -> JournalType]
  BY DEF TypeInv, TypeOK, MovesType, JournalType
<1>1. CASE Commit
  <2>1. TypeOK'
    BY <1>1 DEF Commit, TypeInv, TypeOK
  <2>2. Shape'
    BY <1>1 DEF Commit, TypeInv, Shape, Working
  <2> QED
    BY <2>1, <2>2 DEF TypeInv
<1>2. CASE MarkCommitted
  <2>1. moves' \in MovesType /\ moves'.list = moves.list /\ moves'.originals = moves.originals
        /\ moves'.state = "committed" /\ moves.state = "applied" /\ pc = "committed"
    BY <1>0, <1>2 DEF MarkCommitted, MovesType
  <2>2. TypeOK'
    BY <1>2, <2>1 DEF MarkCommitted, TypeInv, TypeOK, MovesType
  <2>3. Shape'
    BY <1>2, <2>1 DEF MarkCommitted, TypeInv, Shape, Working
  <2> QED
    BY <2>2, <2>3 DEF TypeInv
<1>3. CASE Cleanup
  <2>1. moves' \in MovesType /\ moves'.list = {} /\ moves'.state = "none" /\ pc = "committed"
    BY <1>3 DEF Cleanup, NoMoves
  <2>2. TypeOK'
    BY <1>3, <2>1 DEF Cleanup, TypeInv, TypeOK, MovesType
  <2>3. Shape'
    BY <1>3, <2>1 DEF Cleanup, TypeInv, Shape, Working
  <2> QED
    BY <2>2, <2>3 DEF TypeInv
<1>4. CASE Discard
  <2>1. journals' \in [Ops -> JournalType]
    BY <1>0, <1>4 DEF Discard
  <2> QED
    BY <1>4, <2>1, EndStep DEF Discard, TypeInv, TypeOK
<1>5. CASE Refuse
  BY <1>5, TypeReject DEF Refuse, TypeInv, TypeOK
<1>6. CASE Fail
  <2>1. fails' \in 0 .. MaxFails
    BY <1>6 DEF Fail, TypeInv, TypeOK
  <2> QED
    BY <1>6, <2>1, TypeReject DEF Fail, TypeInv, TypeOK
<1>7. CASE FailUnbound
  <2>1. kills' \in 0 .. MaxKills
    BY <1>7 DEF FailUnbound, TypeInv, TypeOK
  <2> QED
    BY <1>7, <2>1, TypeReject DEF FailUnbound, TypeInv, TypeOK
<1>8. CASE Kill
  <2>1. kills' \in 0 .. MaxKills
    BY <1>8 DEF Kill, TypeInv, TypeOK
  <2> QED
    BY <1>0, <1>8, <2>1, EndStep DEF Kill, TypeInv, TypeOK
<1> QED
  BY <1>1, <1>2, <1>3, <1>4, <1>5, <1>6, <1>7, <1>8 DEF Ended

LEMMA TypeRecovery == TypeInv /\ Recovery => TypeInv'
<1> SUFFICES ASSUME TypeInv, Recovery PROVE TypeInv'
  OBVIOUS
<1> USE ConstantTypes DEF env, store, bounds
<1>1. CASE RecoverBegin
  <2>1. PICK j \in Ops :
           /\ op' = j
           /\ taken' = [p \in Paths |-> IF p \in Journaled(j) THEN disk[p] ELSE Absent]
    BY <1>1 DEF RecoverBegin
  <2>2. taken' \in Trees /\ op' \in 0 .. MaxSyncs
    BY <2>1 DEF Ops, Trees, TypeInv, TypeOK
  <2>3. TypeOK'
    BY <1>1, <2>2 DEF RecoverBegin, TypeInv, TypeOK
  <2>4. Shape'
    BY <1>1 DEF RecoverBegin, TypeInv, Shape, Working
  <2> QED
    BY <2>3, <2>4 DEF TypeInv
<1>2. CASE RecoverCheck
  <2>1. PICK p \in Paths : job' = [NoJob EXCEPT !.path = p, !.old = taken[p]]
    BY <1>2 DEF RecoverCheck, Remaining
  <2>2. job' \in JobType
    BY <2>1 DEF JobType, TypeInv, TypeOK, Trees
  <2>3. TypeOK'
    BY <1>2, <2>2 DEF RecoverCheck, TypeInv, TypeOK, JobType
  <2>4. Shape'
    BY <1>2 DEF RecoverCheck, TypeInv, Shape, Working
  <2> QED
    BY <2>3, <2>4 DEF TypeInv
<1>3. CASE RecoverUnlink
  <2>1. disk' \in Trees /\ taken' \in Trees
    BY <1>3 DEF RecoverUnlink, TypeInv, TypeOK, Trees
  <2>2. TypeOK'
    BY <1>3, <2>1 DEF RecoverUnlink, TypeInv, TypeOK, JobType
  <2>3. Shape'
    BY <1>3 DEF RecoverUnlink, TypeInv, Shape, Working
  <2> QED
    BY <2>2, <2>3 DEF TypeInv
<1>4. CASE RecoverEnd
  <2>1. journals' \in [Ops -> JournalType]
    BY <1>4 DEF RecoverEnd, TypeInv, TypeOK, JournalType
  <2> QED
    BY <1>4, <2>1, EndStep DEF RecoverEnd, TypeInv, TypeOK
<1> QED
  BY <1>1, <1>2, <1>3, <1>4 DEF Recovery

\* A step of somebody else than the command.
LEMMA OutsideShape ==
    ASSUME Shape, UNCHANGED <<pc, op, plan, taken, rest, todo, job, last, moves>>
    PROVE  Shape'
BY DEF Shape, Captured, Working, Moving

LEMMA TypeOutside == TypeInv /\ (SourceChange \/ Edit \/ Remove \/ Resolve) => TypeInv'
<1> SUFFICES ASSUME TypeInv, SourceChange \/ Edit \/ Remove \/ Resolve PROVE TypeInv'
  OBVIOUS
<1> USE ConstantTypes DEF env, store, bounds, run
<1>1. CASE SourceChange
  <2>1. source' \in Maps /\ changes' \in 0 .. MaxChanges
    BY <1>1, SyncAssumption DEF SourceChange, TypeInv, TypeOK
  <2>2. TypeOK'
    BY <1>1, <2>1 DEF SourceChange, TypeInv, TypeOK
  <2> QED
    BY <1>1, <2>2, OutsideShape DEF SourceChange, TypeInv
<1>2. CASE Edit
  <2>0. edits \in 0 .. MaxEdits /\ removals \in 0 .. MaxEdits /\ disk \in Trees /\ alive \subseteq Notes
    BY DEF TypeInv, TypeOK
  <2>1. edits' = edits + 1 /\ edits + 1 \in 0 .. MaxEdits /\ Stamp \in Savers
    BY <1>2, <2>0 DEF Edit, Stamp, Savers
  <2>2. PICK p \in Paths :
          \/ /\ disk[p] # Absent
             /\ LET note == [n |-> edits + 1, home |-> disk[p].owner] IN
                /\ disk' = [disk EXCEPT ![p].note = note, ![p].by = Stamp]
                /\ alive' = (alive \ NoteAt(p)) \cup {note}
          \/ /\ disk[p] # Absent
             /\ disk' = [disk EXCEPT ![p].by = Stamp]
             /\ UNCHANGED alive
          \/ /\ disk[p] = Absent
             /\ LET note == [n |-> edits + 1, home |-> NoOwner] IN
                /\ disk' = [disk EXCEPT ![p] = [owner |-> NoOwner, note |-> note,
                                               gen |-> 0, by |-> Stamp]]
                /\ alive' = alive \cup {note}
    BY <1>2 DEF Edit
  <2>3. disk' \in Trees /\ alive' \subseteq Notes
    <3>0. disk[p] \in Pages \cup {Absent}
      BY <2>0 DEF Trees
    <3>1. ASSUME disk[p] # Absent
          PROVE  [n |-> edits + 1, home |-> disk[p].owner] \in Notes
      BY <2>1, <3>0, <3>1 DEF Notes, Pages
    <3>2. [n |-> edits + 1, home |-> NoOwner] \in Notes
      BY <2>1 DEF Notes
    <3>3. ASSUME disk[p] # Absent, NEW note \in Notes
          PROVE  /\ [disk[p] EXCEPT !.note = note, !.by = Stamp] \in Pages
                 /\ [disk[p] EXCEPT !.by = Stamp] \in Pages
      BY <2>1, <3>0, <3>3 DEF Pages
    <3>4. ASSUME NEW note \in Notes
          PROVE  [owner |-> NoOwner, note |-> note, gen |-> 0, by |-> Stamp] \in Pages
      BY <2>1 DEF Pages
    <3>5. ASSUME disk[p] # Absent,
                 disk' = [disk EXCEPT ![p].note = [n |-> edits + 1, home |-> disk[p].owner],
                                      ![p].by = Stamp]
          PROVE  disk' \in Trees
      <4>1. disk' = [disk EXCEPT ![p] = [disk[p] EXCEPT
                        !.note = [n |-> edits + 1, home |-> disk[p].owner], !.by = Stamp]]
        BY <2>0, <3>5 DEF Trees
      <4> QED
        BY <2>0, <3>1, <3>3, <3>5, <4>1 DEF Trees
    <3>6. ASSUME disk[p] # Absent, disk' = [disk EXCEPT ![p].by = Stamp]
          PROVE  disk' \in Trees
      BY <2>0, <3>2, <3>3, <3>6 DEF Trees
    <3>7. ASSUME disk' = [disk EXCEPT ![p] = [owner |-> NoOwner,
                             note |-> [n |-> edits + 1, home |-> NoOwner],
                             gen |-> 0, by |-> Stamp]]
          PROVE  disk' \in Trees
      BY <2>0, <3>2, <3>4, <3>7 DEF Trees
    <3>8. alive' \subseteq Notes
      BY <2>0, <2>2, <3>1, <3>2
    <3> QED
      BY <2>2, <3>5, <3>6, <3>7, <3>8
  <2>4. TypeOK'
    BY <1>2, <2>1, <2>3 DEF Edit, TypeInv, TypeOK
  <2> QED
    BY <1>2, <2>4, OutsideShape DEF Edit, TypeInv
<1>3. CASE Remove
  <2>0. edits \in 0 .. MaxEdits /\ removals \in 0 .. MaxEdits
    BY DEF TypeInv, TypeOK
  <2>1. removals' \in 0 .. MaxEdits
    BY <1>3, <2>0 DEF Remove
  <2>2. disk' \in Trees /\ alive' \subseteq Notes
    BY <1>3 DEF Remove, TypeInv, TypeOK, Trees
  <2>3. TypeOK'
    BY <1>3, <2>1, <2>2 DEF Remove, TypeInv, TypeOK
  <2> QED
    BY <1>3, <2>3, OutsideShape DEF Remove, TypeInv
<1>4. CASE Resolve
  <2>1. disk' \in Trees
    <3>1. CASE manifest = moves.names \/ moves.state = "capturing"
      BY <1>4, <3>1 DEF Resolve, TypeInv, TypeOK
    <3>2. CASE ~(manifest = moves.names \/ moves.state = "capturing")
      <4> DEFINE sources == {m.from : m \in moves.list}
      <4>1. \A p \in sources : moves.originals[p] \in Pages
        BY <3>2 DEF TypeInv, Shape
      <4>2. 0 \in Savers
        BY DEF Savers
      <4>3. \A p \in sources : [moves.originals[p] EXCEPT !.by = 0] \in Pages
        BY <4>1, <4>2, SavedType
      <4>4. disk \in Trees
        BY DEF TypeInv, TypeOK
      <4>5. disk' = [p \in Paths |->
                      IF p \in sources THEN [moves.originals[p] EXCEPT !.by = 0]
                      ELSE IF p \in {m.to : m \in moves.list} \ sources THEN Absent ELSE disk[p]]
        BY <1>4, <3>2 DEF Resolve
      <4> QED
        BY <4>3, <4>4, <4>5 DEF Trees
    <3> QED
      BY <3>1, <3>2
  <2>2. TypeOK'
    BY <1>4, <2>1 DEF Resolve, TypeInv, TypeOK, MovesType
  <2>3. Shape'
    BY <1>4 DEF Resolve, TypeInv, Shape, Captured, Working, Moving, NoMoves
  <2> QED
    BY <2>2, <2>3 DEF TypeInv
<1> QED
  BY <1>1, <1>2, <1>3, <1>4

LEMMA TypeStep == TypeInv /\ [Next]_vars => TypeInv'
<1>1. ASSUME TypeInv, UNCHANGED vars PROVE TypeInv'
  <2>1. UNCHANGED <<disk, source, manifest, moves, journals, last, pc, op, plan, taken, rest,
                    todo, job, alive, resolved, changes, edits, removals, fails, kills>>
    BY <1>1 DEF vars, store, run, bounds
  <2>2. TypeOK'
    BY <1>1, <2>1 DEF TypeInv, TypeOK
  <2> QED
    BY <1>1, <2>1, <2>2, OutsideShape DEF TypeInv
<1> QED
  BY <1>1, TypeSync, TypeMoved, TypeWritten, TypeEnded, TypeRecovery, TypeOutside
     DEF Next, Sync, Recovery, Outside

\* Every reachable state is well typed, whatever the names of the source and
\* however many syncs, failures, kills and edits there are.
THEOREM TypeCorrect == Spec => []TypeOK
<1>1. TypeInv => TypeOK
  BY DEF TypeInv
<1> QED
  BY <1>1, TypeInit, TypeStep, PTL DEF Spec

(***************************************************************************)
(* A recovery works on what it captured, and that is nobody's.             *)
(***************************************************************************)
Recovering ==
    pc \in {"recover", "remove"} =>
       /\ Remaining \cap OwnedPages(manifest) = {}
       /\ pc = "remove" => job.path \in Remaining

LEMMA RecoveringStep == TypeInv /\ Recovering /\ [Next]_vars => Recovering'
<1> SUFFICES ASSUME TypeInv, Recovering, [Next]_vars PROVE Recovering'
  OBVIOUS
<1> USE DEF env, store, bounds, run
<1>1. CASE pc' \notin {"recover", "remove"}
  BY <1>1 DEF Recovering
<1>2. CASE RecoverBegin
  <2>1. PICK j \in Ops :
           /\ Recoverable(j)
           /\ taken' = [p \in Paths |-> IF p \in Journaled(j) THEN disk[p] ELSE Absent]
    BY <1>2 DEF RecoverBegin
  <2>2. Remaining' \subseteq Journaled(j)
    BY <2>1 DEF Remaining
  <2>3. Journaled(j) \cap OwnedPages(manifest) = {}
    BY <2>1 DEF Recoverable
  <2> QED
    BY <1>2, <2>2, <2>3 DEF RecoverBegin, Recovering
<1>3. CASE RecoverCheck
  <2>1. PICK p \in Remaining : job' = [NoJob EXCEPT !.path = p, !.old = taken[p]]
    BY <1>3 DEF RecoverCheck
  <2>2. job'.path = p
    BY <2>1 DEF NoJob
  <2>3. Remaining' = Remaining /\ manifest' = manifest /\ pc = "recover"
    BY <1>3 DEF RecoverCheck, Remaining
  <2> QED
    BY <2>2, <2>3 DEF Recovering
<1>4. CASE RecoverUnlink
  <2>1. Remaining' \subseteq Remaining
    BY <1>4 DEF RecoverUnlink, Remaining, TypeInv, TypeOK, Trees
  <2> QED
    BY <1>4, <2>1 DEF RecoverUnlink, Recovering
<1>5. CASE UNCHANGED <<manifest, taken, pc, job>>
  BY <1>5 DEF Recovering, Remaining
<1>6. CASE Sync \/ Fail \/ FailUnbound \/ Kill \/ RecoverEnd
  <2>1. ASSUME Sync PROVE pc' \notin {"recover", "remove"}
    <3>1. CASE Begin \/ Open \/ Capture \/ Moved
      BY <3>1 DEF Begin, Open, Capture, Moved, SaveOriginal, Prepare, Unlink, Vacated, Place,
                  Placed, Write
    <3>2. CASE Written
      BY <3>2 DEF Written, Refresh, Skip, Replace, Bind, Write, TypeInv, TypeOK
    <3>3. CASE Ended
      BY <3>3 DEF Ended, Commit, MarkCommitted, Cleanup, Discard, Refuse, Reject, Forget
    <3> QED
      BY <2>1, <3>1, <3>2, <3>3 DEF Sync
  <2>2. ASSUME Fail \/ FailUnbound \/ Kill \/ RecoverEnd PROVE pc' = "idle"
    BY <2>2 DEF Fail, FailUnbound, Kill, RecoverEnd, Reject, Forget
  <2> QED
    BY <1>1, <1>6, <2>1, <2>2
<1>7. CASE SourceChange \/ Edit \/ Remove \/ Resolve
  BY <1>5, <1>7 DEF SourceChange, Edit, Remove, Resolve
<1>8. CASE UNCHANGED vars
  BY <1>5, <1>8 DEF vars
<1> QED
  BY <1>2, <1>3, <1>4, <1>6, <1>7, <1>8 DEF Next, Recovery, Outside

LEMMA RecoveringRemoves == TypeInv /\ Recovering /\ [Next]_vars => [Removes]_vars
<1> SUFFICES ASSUME TypeInv, Recovering, [Next]_vars, pc = "remove",
                    edits' = edits, removals' = removals,
                    NEW p \in Existing, disk'[p] = Absent
             PROVE  p \notin OwnedPages(manifest)
  BY DEF Removes
<1> USE DEF env, store, bounds, run
<1>1. edits + 1 # edits /\ removals + 1 # removals
  BY ConstantTypes DEF TypeInv, TypeOK
<1>2. disk' # disk
  BY DEF Existing
<1>3. CASE RecoverUnlink
  BY <1>3 DEF RecoverUnlink, Recovering, Existing, TypeInv, TypeOK, Trees
<1>4. ASSUME Sync PROVE FALSE
  BY <1>2, <1>4 DEF Sync, Begin, Open, Capture, Moved, SaveOriginal, Prepare, Unlink, Vacated,
     Place, Placed, Written, Refresh, Skip, Replace, Bind, Ended, Commit, MarkCommitted, Cleanup,
     Discard, Refuse, Reject
<1>5. ASSUME Outside PROVE FALSE
  BY <1>1, <1>2, <1>5 DEF Outside, Fail, FailUnbound, Kill, Reject, SourceChange, Edit, Remove,
     Resolve
<1>6. ASSUME RecoverBegin \/ RecoverCheck \/ RecoverEnd PROVE FALSE
  BY <1>2, <1>6 DEF RecoverBegin, RecoverCheck, RecoverEnd
<1>7. ASSUME UNCHANGED vars PROVE FALSE
  BY <1>2, <1>7 DEF vars
<1> QED
  BY <1>3, <1>4, <1>5, <1>6, <1>7 DEF Next, Recovery

\* Whatever is renamed, killed and edited meanwhile, the recovery of a rejected
\* sync removes no page that the committed manifest owns.
THEOREM RecoveryRemovesOnlyNew == Spec => RecoverOnlyNew
<1>1. Init => Recovering
  BY DEF Init, Recovering
<1> QED
  BY <1>1, TypeInit, TypeStep, RecoveringStep, RecoveringRemoves, PTL DEF Spec, RecoverOnlyNew

(***************************************************************************)
(* Where a sync stands                                                     *)
(***************************************************************************)

\* The phase of a sync; a write belongs to the phase that goes on after it.
Stage == IF pc \in {"replace", "bind"} THEN job.then ELSE pc

Transit == {"save", "unlink", "place", "refresh"}
Planning == {"planned", "apply"} \cup Transit

\* Names of two generations that keep every member and mix up none.
Separate(old, new) ==
    /\ Current(old) \subseteq Current(new) /\ Injective(new)
    /\ \A o, u \in Current(new) : old[o] # NoPath /\ old[o] = old[u] => o = u

PlanInv ==
    /\ Injective(source) /\ Current(manifest) \subseteq Current(source)
    /\ Stage \in Planning => Separate(plan.old, plan.new) /\ manifest = plan.old
    /\ Stage = "committed" => manifest = plan.new
    /\ pc \in {"replace", "bind"} => job.then \in {"place", "refresh"}

\* The steps that end a run, and leave the pages as they are.
Over == Refuse \/ Fail \/ FailUnbound \/ Kill \/ Discard \/ RecoverEnd

LEMMA OverEnds ==
    ASSUME Over
    PROVE  /\ Forget /\ pc' = "idle" /\ Stage' = "idle"
           /\ UNCHANGED <<disk, source, manifest, moves, alive, edits, removals>>
BY DEF Over, Refuse, Fail, FailUnbound, Kill, Discard, RecoverEnd, Reject, Forget, Stage, store,
       env, bounds

\* What every move of the plan is.
LEMMA MovesAre ==
    ASSUME NEW m \in Moving
    PROVE  /\ m \in MoveList /\ m.from \in Paths /\ m.to \in Paths /\ m.owner \in Owners
           /\ m.owner \in Current(plan.new)
           /\ m.from = SourceOf(plan.old, plan.new, plan.existing, m.owner)
           /\ m.from = plan.old[m.owner] /\ m.to = plan.new[m.owner] /\ m.from # m.to
<1>1. /\ m \in MoveList /\ m.owner \in Current(plan.new)
      /\ m.from = SourceOf(plan.old, plan.new, plan.existing, m.owner)
      /\ m.to = plan.new[m.owner] /\ m.from # m.to
  BY DEF Moving, Moves, MoveList
<1>2. m.from # NoPath /\ m.from \in Paths /\ m.to \in Paths /\ m.owner \in Owners
  BY <1>1, NoPathAssumption DEF MoveList
<1> QED
  BY <1>1, <1>2 DEF SourceOf

LEMMA MovesRename == Moving # {} => plan.old # plan.new
BY MovesAre

\* A step that keeps the plan and goes on with the sync.
LEMMA PlanKept ==
    ASSUME PlanInv, UNCHANGED <<source, manifest>>,
           Stage' \in Planning \cup {"committed"} => plan' = plan,
           Stage' \in Planning => Stage \in Planning,
           Stage' = "committed" => Stage = "committed",
           pc' \in {"replace", "bind"} => job'.then \in {"place", "refresh"}
    PROVE  PlanInv'
BY DEF PlanInv, Planning, Transit

LEMMA PlanStep == TypeInv /\ PlanInv /\ [Next]_vars => PlanInv'
<1> SUFFICES ASSUME TypeInv, PlanInv, [Next]_vars PROVE PlanInv'
  OBVIOUS
<1> USE DEF env, store, bounds, run
<1>1. CASE Begin
  <2>1. /\ UNCHANGED <<source, manifest>> /\ pc' = "planned" /\ Stage' = "planned"
        /\ plan'.old = manifest /\ plan'.new = source /\ Plannable(manifest, source, Existing)
    BY <1>1 DEF Begin, Stage
  <2>2. Separate(manifest, source)
    BY <2>1 DEF PlanInv, Separate, Plannable
  <2> QED
    BY <2>1, <2>2 DEF PlanInv
<1>2. CASE Open \/ Capture \/ SaveOriginal \/ Prepare \/ Unlink \/ Vacated \/ Placed \/ Skip
  <2>1. UNCHANGED <<source, manifest, plan>> /\ pc \in Planning /\ pc' \in Planning
        /\ Stage = pc /\ Stage' = pc'
    BY <1>2 DEF Open, Capture, SaveOriginal, Prepare, Unlink, Vacated, Placed, Skip, Stage,
                Planning, Transit
  <2> QED
    BY <2>1, PlanKept DEF Planning, Transit
<1>3. CASE Place \/ Refresh
  <2>1. UNCHANGED <<source, manifest, plan>> /\ Stage \in Planning
    BY <1>3 DEF Place, Refresh, Stage, Planning, Transit
  <2>2. pc' = "replace" /\ job'.then \in {"place", "refresh"}
    <3>1. \E path, old, new : \E then \in {"place", "refresh"} : Write(path, old, new, then)
      BY <1>3 DEF Place, Refresh
    <3> QED
      BY <3>1 DEF Write
  <2> QED
    BY <2>1, <2>2, PlanKept DEF Stage, Planning, Transit
<1>4. CASE Replace \/ Bind
  <2>1. /\ UNCHANGED <<source, manifest, plan>> /\ Stage \in {"place", "refresh"}
        /\ Stage' \in {"place", "refresh"}
        /\ pc' \in {"replace", "bind"} => job'.then \in {"place", "refresh"}
    BY <1>4 DEF Replace, Bind, Stage, PlanInv
  <2> QED
    BY <2>1, PlanKept DEF Planning, Transit
<1>5. CASE Commit
  <2>1. /\ manifest' = plan.new /\ source = plan.new /\ UNCHANGED <<source, plan>>
        /\ pc' = "committed" /\ Stage' = "committed"
    BY <1>5 DEF Commit, Stage
  <2> QED
    BY <2>1 DEF PlanInv, Planning, Transit
<1>6. CASE MarkCommitted \/ Cleanup
  BY <1>6, PlanKept DEF MarkCommitted, Cleanup, Stage, Planning, Transit
<1>7. CASE Over
  BY <1>7, OverEnds, PlanKept DEF Planning, Transit
<1>8. CASE RecoverBegin \/ RecoverCheck \/ RecoverUnlink
  <2>1. UNCHANGED <<source, manifest>> /\ pc' \in {"recover", "remove"} /\ Stage' = pc'
    BY <1>8 DEF RecoverBegin, RecoverCheck, RecoverUnlink, Stage
  <2> QED
    BY <2>1, PlanKept DEF Planning, Transit
<1>9. CASE SourceChange
  <2>1. /\ UNCHANGED <<manifest, pc, job, plan>>
        /\ source' \in Targets /\ Current(source) \subseteq Current(source')
    BY <1>9 DEF SourceChange
  <2>2. Injective(source') /\ Stage' = Stage
    BY <2>1, SyncAssumption DEF Stage
  <2> QED
    BY <2>1, <2>2 DEF PlanInv, Injective
<1>10. CASE Edit \/ Remove \/ Resolve \/ UNCHANGED vars
  <2>1. UNCHANGED <<source, manifest, pc, job, plan>>
    BY <1>10 DEF Edit, Remove, Resolve, vars
  <2> QED
    BY <2>1, PlanKept DEF Stage, PlanInv
<1> QED
  BY <1>1, <1>2, <1>3, <1>4, <1>5, <1>6, <1>7, <1>8, <1>9, <1>10
     DEF Next, Sync, Moved, Written, Ended, Recovery, Outside, Over

\* What a write leaves for its two steps.
LEMMA WriteDoes ==
    ASSUME NEW path, NEW old, NEW new, NEW then, Write(path, old, new, then)
    PROVE  /\ pc' = "replace" /\ Stage' = then
           /\ job'.path = path /\ job'.old = old /\ job'.new = new /\ job'.then = then
BY DEF Write, Stage

\* Steps within a phase.
Within == Unlink \/ Place \/ Refresh \/ Skip \/ Replace \/ Bind

LEMMA WithinKeeps ==
    ASSUME PlanInv, Within
    PROVE  /\ Stage \in {"unlink", "place", "refresh"} /\ Stage' = Stage
           /\ UNCHANGED <<source, manifest, moves, plan, taken, op, alive, edits, removals>>
<1> USE DEF env, store, bounds
<1>1. CASE Unlink \/ Skip
  BY <1>1 DEF Unlink, Skip, Stage
<1>2. CASE Place
  <2>1. \E path, old, new : Write(path, old, new, "place")
    BY <1>2 DEF Place
  <2> QED
    BY <1>2, <2>1, WriteDoes DEF Place, Stage
<1>3. CASE Refresh
  <2>1. \E path, old, new : Write(path, old, new, "refresh")
    BY <1>3 DEF Refresh
  <2> QED
    BY <1>3, <2>1, WriteDoes DEF Refresh, Stage
<1>4. CASE Replace \/ Bind
  BY <1>4 DEF Replace, Bind, Stage, PlanInv
<1> QED
  BY <1>1, <1>2, <1>3, <1>4 DEF Within

(***************************************************************************)
(* The directory with the originals follows the sync that fills it         *)
(***************************************************************************)
MovesInv ==
    /\ moves.state = "none" => moves.originals = Nothing
    /\ \A p \in Paths : moves.originals[p] # Absent => \E m \in moves.list : m.from = p
    /\ Stage \in {"planned", "apply"} => moves.state = "none"
    /\ Stage \in {"save", "unlink", "place"} => Moving # {}
    /\ Stage = "save" => moves.state = "capturing"
    /\ Stage \in {"unlink", "place"} => moves.state = "prepared"
    /\ Stage = "refresh" => moves.state = IF Moving = {} THEN "none" ELSE "applied"
    /\ Stage \in Transit /\ Moving # {} => moves.list = Moving /\ moves.names = plan.new
    /\ Stage = "committed" /\ moves.state # "none" => moves.names = plan.new
    /\ Stage = "save" => \A m \in Moving \ rest : moves.originals[m.from] = taken[m.from]
    /\ Stage \in {"unlink", "place", "refresh"} =>
          \A m \in Moving : moves.originals[m.from] = taken[m.from]

LEMMA MovesKept ==
    ASSUME MovesInv, UNCHANGED <<moves, plan, taken>>, Stage' = Stage,
           Stage = "save" => rest' = rest
    PROVE  MovesInv'
<1>1. Moving' = Moving
  BY DEF Moving
<1> QED
  BY <1>1 DEF MovesInv

LEMMA MovesLeft ==
    ASSUME MovesInv, moves' = moves, Stage' \notin Planning \cup {"committed"}
    PROVE  MovesInv'
BY DEF MovesInv, Planning, Transit

LEMMA NoMovesFresh == NoMoves.state = "none" /\ NoMoves.list = {} /\ NoMoves.originals = Nothing
BY DEF NoMoves

LEMMA MovesStep == TypeInv /\ PlanInv /\ MovesInv /\ [Next]_vars => MovesInv'
<1> SUFFICES ASSUME TypeInv, PlanInv, MovesInv, [Next]_vars PROVE MovesInv'
  OBVIOUS
<1> USE DEF env, store, bounds, run
<1>0. moves \in MovesType /\ \A p \in Paths : Nothing[p] = Absent
  BY DEF TypeInv, TypeOK, MovesType, Nothing
<1>1. CASE Begin \/ Open
  <2>1. UNCHANGED moves /\ moves.state = "none" /\ Stage' \in {"planned", "apply"}
    BY <1>1 DEF Begin, Open, Stage, MovesInv
  <2> QED
    BY <2>1 DEF MovesInv, Transit
<1>2. CASE Capture
  <2>1. moves.state = "none" /\ moves.originals = Nothing /\ UNCHANGED plan /\ rest' = Moving
    BY <1>2 DEF Capture, MovesInv, Stage
  <2>2. Moving' = Moving
    BY <2>1 DEF Moving
  <2>3. CASE Moving = {}
    <3>1. Stage' = "refresh" /\ moves' = moves
      BY <1>2, <2>3 DEF Capture, Stage
    <3> QED
      BY <2>1, <2>2, <2>3, <3>1 DEF MovesInv, Transit
  <2>4. CASE Moving # {}
    <3>1. /\ Stage' = "save" /\ moves'.state = "capturing" /\ moves'.list = Moving
          /\ moves'.names = plan.new /\ moves'.originals = Nothing
      BY <1>2, <2>4 DEF Capture, Stage, NoMoves
    <3> QED
      BY <1>0, <2>1, <2>2, <2>4, <3>1 DEF MovesInv, Transit
  <2> QED
    BY <2>3, <2>4
<1>3. CASE SaveOriginal
  <2>1. PICK m \in rest : /\ moves' = [moves EXCEPT !.originals[m.from] = taken[m.from]]
                          /\ rest' = rest \ {m}
    BY <1>3 DEF SaveOriginal
  <2>2. m \in Moving /\ UNCHANGED <<plan, taken>> /\ Stage = "save" /\ Stage' = "save"
        /\ moves.list = Moving
    BY <1>3, <2>1 DEF SaveOriginal, Stage, TypeInv, Shape, Captured, Working
  <2>3. /\ moves'.originals = [moves.originals EXCEPT ![m.from] = taken[m.from]]
        /\ moves'.list = moves.list /\ moves'.state = moves.state /\ moves'.names = moves.names
        /\ m.from \in Paths
    BY <1>0, <2>1, <2>2, MovesAre DEF MovesType
  <2>4. Moving' = Moving /\ \A n \in Moving : n.from \in Paths
    BY <2>2, MovesAre DEF Moving
  <2>5. \A n \in Moving \ rest' : moves'.originals[n.from] = taken[n.from]
    BY <1>0, <2>1, <2>2, <2>3, <2>4 DEF MovesInv, MovesType, Trees
  <2>6. \A p \in Paths : moves'.originals[p] # Absent => \E n \in moves'.list : n.from = p
    BY <1>0, <2>2, <2>3 DEF MovesInv, MovesType, Trees
  <2> QED
    BY <2>2, <2>3, <2>4, <2>5, <2>6 DEF MovesInv, Transit
<1>4. CASE Prepare \/ Placed
  <2>1. /\ UNCHANGED <<plan, taken>> /\ moves'.list = moves.list
        /\ moves'.originals = moves.originals /\ moves'.names = moves.names
        /\ \/ Stage = "save" /\ Stage' = "unlink" /\ moves'.state = "prepared" /\ rest = {}
           \/ Stage = "place" /\ Stage' = "refresh" /\ moves'.state = "applied"
    BY <1>0, <1>4 DEF Prepare, Placed, Stage, MovesType
  <2>2. Moving' = Moving
    BY <2>1 DEF Moving
  <2> QED
    BY <2>1, <2>2 DEF MovesInv, Transit
<1>5. CASE Vacated
  <2>1. UNCHANGED <<plan, taken, moves>> /\ Stage = "unlink" /\ Stage' = "place"
    BY <1>5 DEF Vacated, Stage
  <2>2. Moving' = Moving
    BY <2>1 DEF Moving
  <2> QED
    BY <2>1, <2>2 DEF MovesInv, Transit
<1>6. CASE Within
  BY <1>6, WithinKeeps, MovesKept
<1>7. CASE Commit
  <2>1. UNCHANGED <<plan, moves>> /\ Stage = "refresh" /\ Stage' = "committed"
    BY <1>7 DEF Commit, Stage
  <2>2. Moving' = Moving
    BY <2>1 DEF Moving
  <2> QED
    BY <2>1, <2>2 DEF MovesInv, Transit
<1>8. CASE MarkCommitted
  <2>1. /\ UNCHANGED plan /\ moves'.list = moves.list /\ moves.state # "none"
        /\ moves'.originals = moves.originals /\ moves'.names = moves.names
        /\ Stage = "committed" /\ Stage' = "committed" /\ moves'.state = "committed"
    BY <1>0, <1>8 DEF MarkCommitted, Stage, MovesType
  <2> QED
    BY <2>1 DEF MovesInv, Transit
<1>9. CASE Cleanup \/ Resolve
  <2>1. moves' = NoMoves /\ Stage' \in {"committed", "idle"}
    BY <1>9 DEF Cleanup, Resolve, Stage
  <2> QED
    BY <1>0, <2>1, NoMovesFresh DEF MovesInv, Transit
<1>10. CASE Over
  BY <1>10, OverEnds, MovesLeft DEF Planning, Transit
<1>11. CASE RecoverBegin \/ RecoverCheck \/ RecoverUnlink
  <2>1. UNCHANGED moves /\ Stage' \in {"recover", "remove"}
    BY <1>11 DEF RecoverBegin, RecoverCheck, RecoverUnlink, Stage
  <2> QED
    BY <2>1, MovesLeft DEF Planning, Transit
<1>12. CASE SourceChange \/ Edit \/ Remove \/ UNCHANGED vars
  <2>1. UNCHANGED <<moves, plan, taken, pc, job, rest>>
    BY <1>12 DEF SourceChange, Edit, Remove, vars
  <2> QED
    BY <2>1, MovesKept DEF Stage
<1> QED
  BY <1>1, <1>2, <1>3, <1>4, <1>5, <1>6, <1>7, <1>8, <1>9, <1>10, <1>11, <1>12
     DEF Next, Sync, Moved, Written, Ended, Recovery, Outside, Over, Within

(***************************************************************************)
(* What a write puts where                                                 *)
(***************************************************************************)

\* Pages that compare equal hold the same.
LEMMA SameHold ==
    ASSUME NEW a \in Pages \cup {Absent}, NEW b \in Pages \cup {Absent}, Same(a, b)
    PROVE  /\ a = Absent <=> b = Absent
           /\ a # Absent => /\ a.note = b.note /\ a.owner = b.owner /\ a.gen = b.gen
<1>1. \A p \in Pages : /\ Bytes(p) \in Pages /\ Bytes(p).note = p.note
                       /\ Bytes(p).owner = p.owner /\ Bytes(p).gen = p.gen
  <2>1. TAKE p \in Pages
  <2>2. Bytes(p) = [p EXCEPT !.by = 0]
    BY DistinctAssumption DEF Bytes
  <2> QED
    BY <2>2, BytesType DEF Pages
<1>2. Bytes(Absent) = Absent /\ Bytes(a) = Bytes(b)
  BY DEF Bytes, Same
<1> QED
  BY <1>1, <1>2, DistinctAssumption

\* An owner whose page exists under another name has a move of its own.
LEMMA MoveOf ==
    ASSUME TypeOK, NEW o \in Current(plan.new), plan.old[o] \in plan.existing,
           plan.old[o] # plan.new[o]
    PROVE  \E m \in Moving : m.owner = o /\ m.from = plan.old[o] /\ m.to = plan.new[o]
<1> DEFINE m == [owner |-> o, from |-> plan.old[o], to |-> plan.new[o]]
<1>1. o \in Owners /\ plan.old[o] \in Paths /\ plan.new[o] \in Paths
  BY DEF TypeOK, Maps, Current
<1>2. m \in Moving
  BY <1>1 DEF Moving, Moves, SourceOf
<1> QED
  BY <1>2

\* A page that keeps its name is no end of a move.
LEMMA StaysPut ==
    ASSUME TypeOK, Separate(plan.old, plan.new), NEW o \in Current(plan.new),
           plan.old[o] = plan.new[o], NEW m \in Moving
    PROVE  plan.new[o] # m.from /\ plan.new[o] # m.to
<1>1. /\ m.from = plan.old[m.owner] /\ m.to = plan.new[m.owner] /\ m.from # m.to
      /\ m.owner \in Current(plan.new) /\ m.from \in Paths /\ m.to \in Paths
  BY MovesAre
<1>2. o \in Owners /\ m.owner \in Owners /\ m.from # NoPath /\ m.to # NoPath
  BY <1>1, NoPathAssumption DEF Current
<1>3. m.owner # o
  BY <1>1
<1>4. plan.old[o] # plan.old[m.owner]
  BY <1>1, <1>2, <1>3 DEF Separate
<1>5. plan.new[o] # plan.new[m.owner]
  BY <1>1, <1>2, <1>3 DEF Separate, Injective
<1> QED
  BY <1>1, <1>4, <1>5

\* What was written on a page that moves to a path.
Carried(path, note) == \E m \in Moving : m.to = path /\ note = taken[m.from].note

JobInv ==
    pc \in {"replace", "bind"} =>
       /\ job.path \in OwnedPages(plan.new)
       /\ job.then = "place" => job.old = Absent /\ Carried(job.path, job.new.note)
       /\ job.then = "refresh" /\ job.old # Absent => job.new.note = job.old.note
       /\ \/ job.new.note = NoNote
          \/ Carried(job.path, job.new.note)
          \/ job.path \in OwnedPages(plan.old) /\ \A m \in Moving : job.path \notin {m.from, m.to}

\* What Readable says of the page an owner will have.
LEMMA ReadableSays ==
    ASSUME TypeInv, PlanInv, pc = "refresh", NEW o \in todo, Readable(o)
    PROVE  LET page == disk[plan.new[o]]
               path == plan.new[o]
           IN  /\ o \in Current(plan.new) /\ path \in Paths
               /\ page = Absent <=> Expected(o) = Absent
               /\ page # Absent => page.note = Expected(o).note /\ page.owner = Expected(o).owner
               /\ \/ page = Absent /\ plan.old[o] \notin plan.existing
                  \/ page # Absent /\ plan.old[o] = path /\ plan.old[o] \in plan.existing
                  \/ page # Absent /\ \E m \in Moving :
                        m.owner = o /\ m.to = path /\ Expected(o) = taken[m.from]
<1> DEFINE path == plan.new[o]
<1> DEFINE page == disk[path]
<1> DEFINE from == SourceOf(plan.old, plan.new, plan.existing, o)
<1>1. o \in Current(plan.new) /\ o \in Owners /\ path \in Paths /\ page \in Pages \cup {Absent}
      /\ TypeOK /\ plan.old[o] \in Paths \cup {NoPath} /\ plan.existing \subseteq Paths
  BY DEF TypeInv, Shape, TypeOK, Current, Maps, Trees
<1>2. Expected(o) \in Pages \cup {Absent} /\ Same(page, Expected(o))
  BY <1>1, ExpectedType DEF Readable
<1>3. /\ page = Absent <=> Expected(o) = Absent
      /\ page # Absent => page.note = Expected(o).note /\ page.owner = Expected(o).owner
  BY <1>1, <1>2, SameHold
<1>4. CASE plan.old[o] \notin plan.existing
  <2>1. from = NoPath
    BY <1>4 DEF SourceOf
  <2>2. Expected(o) = Absent
    BY <2>1 DEF Expected
  <2> QED
    BY <1>1, <1>3, <1>4, <2>2
<1>5. CASE plan.old[o] \in plan.existing
  <2>1. from = plan.old[o] /\ from # NoPath
    BY <1>1, <1>5, NoPathAssumption DEF SourceOf
  <2>2. page # Absent
    BY <2>1 DEF Readable
  <2>3. CASE from = path
    BY <1>1, <1>3, <1>5, <2>1, <2>2, <2>3
  <2>4. CASE from # path
    <3>1. PICK m \in Moving : m.owner = o /\ m.from = from /\ m.to = path
      BY <1>1, <1>5, <2>1, <2>4, MoveOf
    <3>2. Expected(o) = taken[from]
      BY <2>1, <2>4 DEF Expected
    <3> QED
      BY <1>1, <1>3, <2>2, <3>1, <3>2
  <2> QED
    BY <2>3, <2>4
<1> QED
  BY <1>4, <1>5

LEMMA JobStep == TypeInv /\ PlanInv /\ JobInv /\ [Next]_vars => JobInv'
<1> SUFFICES ASSUME TypeInv, PlanInv, JobInv, [Next]_vars,
                    pc' \in {"replace", "bind"}
             PROVE  JobInv'
  BY DEF JobInv
<1> USE DEF env, store, bounds, run
<1>0. (TypeOK /\ Captured) \/ pc \notin Working
  BY DEF TypeInv, Shape
<1>1. CASE Place
  <2>1. PICK m \in rest : Write(m.to, Absent, [taken[m.from] EXCEPT !.by = op], "place")
    BY <1>1 DEF Place
  <2>2. m \in Moving /\ taken[m.from] \in Pages /\ m.to \in Paths /\ m.to = plan.new[m.owner]
        /\ m.owner \in Owners
    BY <1>1, <2>1, MovesAre DEF Place, TypeInv, Shape, Captured, Working
  <2>3. /\ job'.path = m.to /\ job'.old = Absent /\ job'.then = "place"
        /\ job'.new.note = taken[m.from].note /\ UNCHANGED <<plan, taken>>
    BY <1>1, <2>1, <2>2, WriteDoes DEF Place, Pages
  <2>4. Moving' = Moving /\ Carried(job.path, job.new.note)'
    BY <2>2, <2>3 DEF Moving, Carried
  <2>5. job'.path \in OwnedPages(plan'.new)
    BY <2>2, <2>3, NoPathAssumption DEF OwnedPages
  <2> QED
    BY <2>3, <2>4, <2>5 DEF JobInv
<1>2. CASE Refresh
  <2> DEFINE path(o) == plan.new[o]
  <2>1. PICK o \in todo : Readable(o) /\ Write(path(o), Expected(o), Merged(o, disk[path(o)]), "refresh")
    BY <1>2 DEF Refresh
  <2>2. /\ job'.path = path(o) /\ job'.old = Expected(o) /\ job'.then = "refresh"
        /\ job'.new = Merged(o, disk[path(o)])
        /\ pc = "refresh" /\ UNCHANGED <<plan, taken>>
    BY <1>2, <2>1, WriteDoes DEF Refresh
  <2>3. job'.new.note = IF disk[path(o)] = Absent THEN NoNote ELSE disk[path(o)].note
    BY <2>2 DEF Merged
  <2>4. Moving' = Moving /\ Separate(plan.old, plan.new)
    BY <2>2 DEF Moving, PlanInv, Stage, Planning, Transit
  <2>5. o \in Owners /\ path(o) \in OwnedPages(plan.new)
    BY <2>1, <2>2, ReadableSays, NoPathAssumption DEF OwnedPages, Current
  <2>6. CASE disk[path(o)] = Absent
    BY <2>1, <2>2, <2>3, <2>5, <2>6, ReadableSays DEF JobInv
  <2>7. CASE disk[path(o)] # Absent /\ plan.old[o] = path(o)
    <3>1. \A m \in Moving : path(o) \notin {m.from, m.to}
      BY <1>0, <2>1, <2>2, <2>4, <2>7, ReadableSays, StaysPut DEF TypeInv
    <3>2. path(o) \in OwnedPages(plan.old)
      BY <2>1, <2>2, <2>5, <2>7, ReadableSays, NoPathAssumption DEF OwnedPages
    <3> QED
      BY <2>1, <2>2, <2>3, <2>4, <2>5, <2>7, <3>1, <3>2, ReadableSays DEF JobInv
  <2>8. CASE disk[path(o)] # Absent /\ \E m \in Moving :
                m.owner = o /\ m.to = path(o) /\ Expected(o) = taken[m.from]
    <3>1. Carried(path(o), disk[path(o)].note)
      BY <2>1, <2>2, <2>8, ReadableSays DEF Carried
    <3>2. Carried(job.path, job.new.note)'
      BY <2>2, <2>3, <2>4, <2>8, <3>1 DEF Carried
    <3> QED
      BY <2>1, <2>2, <2>3, <2>5, <2>8, <3>2, ReadableSays DEF JobInv
  <2> QED
    BY <2>1, <2>2, <2>6, <2>7, <2>8, ReadableSays
<1>3. CASE UNCHANGED <<pc, job, plan, taken>>
  <2>1. Moving' = Moving
    BY <1>3 DEF Moving
  <2> QED
    BY <1>3, <2>1 DEF JobInv, Carried
<1>4. CASE SourceChange \/ Edit \/ Remove \/ Resolve \/ UNCHANGED vars
  BY <1>3, <1>4 DEF SourceChange, Edit, Remove, Resolve, vars
<1>5. CASE Over
  BY <1>5, OverEnds
<1>6. ASSUME Begin \/ Open \/ Capture \/ SaveOriginal \/ Prepare \/ Unlink \/ Vacated \/ Placed
             \/ Skip \/ Commit \/ MarkCommitted \/ Cleanup \/ RecoverBegin \/ RecoverCheck
             \/ RecoverUnlink
      PROVE  FALSE
  BY <1>6 DEF Begin, Open, Capture, SaveOriginal, Prepare, Unlink, Vacated, Placed, Skip, Commit,
              MarkCommitted, Cleanup, RecoverBegin, RecoverCheck, RecoverUnlink
<1>7. CASE Replace \/ Bind
  <2>1. pc = "replace" /\ UNCHANGED <<job, plan, taken>>
    BY <1>7 DEF Replace, Bind, PlanInv
  <2>2. Moving' = Moving
    BY <2>1 DEF Moving
  <2> QED
    BY <2>1, <2>2 DEF JobInv, Carried
<1> QED
  BY <1>1, <1>2, <1>4, <1>5, <1>6, <1>7
     DEF Next, Sync, Moved, Written, Ended, Recovery, Outside, Over

(***************************************************************************)
(* What authors do                                                         *)
(***************************************************************************)

\* An author writes on one page and gives the file a new identity.
LEMMA EditDoes ==
    ASSUME TypeInv, Edit
    PROVE  /\ edits' = edits + 1
           /\ UNCHANGED <<source, manifest, moves, journals, last, removals>> /\ UNCHANGED run
           /\ \E q \in Paths :
                 /\ \A p \in Paths : p # q => disk'[p] = disk[p]
                 /\ disk'[q] \in Pages /\ disk'[q].by = Stamp
                 /\ \/ /\ disk[q] # Absent /\ disk'[q].owner = disk[q].owner
                       /\ disk'[q].note = disk[q].note /\ alive' = alive
                    \/ /\ disk[q] # Absent /\ disk'[q].owner = disk[q].owner
                       /\ disk'[q].note = [n |-> edits + 1, home |-> disk[q].owner]
                       /\ alive' = (alive \ NoteAt(q)) \cup {disk'[q].note}
                    \/ /\ disk[q] = Absent /\ disk'[q].owner = NoOwner
                       /\ disk'[q].note = [n |-> edits + 1, home |-> NoOwner]
                       /\ alive' = alive \cup {disk'[q].note}
<1> USE ConstantTypes DEF store
<1>1. edits' = edits + 1 /\ UNCHANGED <<source, manifest, moves, journals, last, removals>>
      /\ UNCHANGED run
  BY DEF Edit
<1>2. disk \in [Paths -> Pages \cup {Absent}] /\ edits + 1 \in 0 .. MaxEdits /\ Stamp \in Savers
      /\ 0 \in 0 .. MaxSyncs
  BY DEF Edit, TypeInv, TypeOK, Trees, Stamp, Savers
<1>3. PICK q \in Paths :
          \/ /\ disk[q] # Absent
             /\ LET note == [n |-> edits + 1, home |-> disk[q].owner] IN
                /\ disk' = [disk EXCEPT ![q].note = note, ![q].by = Stamp]
                /\ alive' = (alive \ NoteAt(q)) \cup {note}
          \/ /\ disk[q] # Absent
             /\ disk' = [disk EXCEPT ![q].by = Stamp]
             /\ UNCHANGED alive
          \/ /\ disk[q] = Absent
             /\ LET note == [n |-> edits + 1, home |-> NoOwner] IN
                /\ disk' = [disk EXCEPT ![q] = [owner |-> NoOwner, note |-> note,
                                               gen |-> 0, by |-> Stamp]]
                /\ alive' = alive \cup {note}
  BY DEF Edit
<1> DEFINE about == [n |-> edits + 1, home |-> disk[q].owner]
<1> DEFINE aside == [n |-> edits + 1, home |-> NoOwner]
<1>4. disk[q] # Absent => disk[q] \in Pages /\ about \in Notes
  BY <1>2 DEF Pages, Notes
<1>5. aside \in Notes
  BY <1>2 DEF Notes
<1> HIDE DEF about, aside
<1>6. CASE disk[q] # Absent /\ alive' = (alive \ NoteAt(q)) \cup {about}
           /\ disk' = [disk EXCEPT ![q].note = about, ![q].by = Stamp]
  <2>1. disk' = [disk EXCEPT ![q] = [disk[q] EXCEPT !.note = about, !.by = Stamp]]
    BY <1>2, <1>6
  <2>2. disk'[q] = [disk[q] EXCEPT !.note = about, !.by = Stamp]
    BY <1>2, <2>1
  <2>3. /\ disk'[q] \in Pages /\ disk'[q].by = Stamp /\ disk'[q].note = about
        /\ disk'[q].owner = disk[q].owner
    BY <1>2, <1>4, <1>6, <2>2 DEF Pages
  <2>4. \A p \in Paths : p # q => disk'[p] = disk[p]
    BY <1>2, <2>1
  <2> QED
    BY <1>1, <1>6, <2>3, <2>4 DEF about
<1>7. CASE disk[q] # Absent /\ disk' = [disk EXCEPT ![q].by = Stamp] /\ alive' = alive
  <2>1. disk' = [disk EXCEPT ![q] = [disk[q] EXCEPT !.by = Stamp]]
    BY <1>2, <1>7
  <2>2. disk'[q] = [disk[q] EXCEPT !.by = Stamp]
    BY <1>2, <2>1
  <2>3. /\ disk'[q] \in Pages /\ disk'[q].by = Stamp /\ disk'[q].note = disk[q].note
        /\ disk'[q].owner = disk[q].owner
    BY <1>2, <1>4, <1>7, <2>2 DEF Pages
  <2>4. \A p \in Paths : p # q => disk'[p] = disk[p]
    BY <1>2, <2>1
  <2> QED
    BY <1>1, <1>7, <2>3, <2>4
<1>8. CASE disk[q] = Absent /\ alive' = alive \cup {aside}
           /\ disk' = [disk EXCEPT ![q] = [owner |-> NoOwner, note |-> aside,
                                           gen |-> 0, by |-> Stamp]]
  <2>1. disk'[q] = [owner |-> NoOwner, note |-> aside, gen |-> 0, by |-> Stamp]
    BY <1>2, <1>8
  <2>2. /\ disk'[q] \in Pages /\ disk'[q].by = Stamp /\ disk'[q].note = aside
        /\ disk'[q].owner = NoOwner
    BY <1>2, <1>5, <2>1 DEF Pages
  <2>3. \A p \in Paths : p # q => disk'[p] = disk[p]
    BY <1>2, <1>8
  <2> QED
    BY <1>1, <1>8, <2>2, <2>3 DEF aside
<1> QED
  BY <1>3, <1>6, <1>7, <1>8 DEF about, aside

\* An author who resolves a transition lets its originals go, or puts them back.
LEMMA ResolveDoes ==
    ASSUME TypeInv, Resolve
    PROVE  /\ pc = "idle" /\ moves.state # "none" /\ moves' = NoMoves
           /\ UNCHANGED <<source, manifest, journals, last, alive, edits, removals>>
           /\ UNCHANGED run
           /\ \/ /\ manifest = moves.names \/ moves.state = "capturing"
                 /\ disk' = disk
              \/ /\ manifest # moves.names /\ moves.state \in {"prepared", "applied", "committed"}
                 /\ \A m \in moves.list : \A p \in {m.from, m.to} :
                       disk[p] # Absent => disk[p].by <= MaxSyncs
                 /\ \A p \in Paths :
                       \/ /\ \A m \in moves.list : p \notin {m.from, m.to}
                          /\ disk'[p] = disk[p]
                       \/ /\ \A m \in moves.list : m.from # p
                          /\ \E m \in moves.list : m.to = p
                          /\ disk'[p] = Absent
                       \/ /\ \E m \in moves.list : m.from = p
                          /\ moves.originals[p] \in Pages /\ disk'[p] \in Pages
                          /\ disk'[p].by = 0
                          /\ disk'[p].note = moves.originals[p].note
                          /\ disk'[p].owner = moves.originals[p].owner
<1>1. /\ pc = "idle" /\ moves.state # "none" /\ moves' = NoMoves
      /\ UNCHANGED <<source, manifest, journals, last, alive, edits, removals>>
      /\ UNCHANGED run
  BY DEF Resolve
<1>2. CASE manifest = moves.names \/ moves.state = "capturing"
  BY <1>1, <1>2 DEF Resolve
<1>3. CASE ~(manifest = moves.names \/ moves.state = "capturing")
  <2> DEFINE sources == {m.from : m \in moves.list}
  <2> DEFINE targets == {m.to : m \in moves.list} \ sources
  <2>1. /\ \A p \in sources \cup targets : disk[p] # Absent => disk[p].by <= MaxSyncs
        /\ disk' = [p \in Paths |->
               IF p \in sources THEN [moves.originals[p] EXCEPT !.by = 0]
               ELSE IF p \in targets THEN Absent ELSE disk[p]]
    BY <1>3 DEF Resolve
  <2>2. moves.state \in {"prepared", "applied", "committed"}
    BY <1>1, <1>3 DEF TypeInv, TypeOK
  <2>3. \A m \in moves.list : moves.originals[m.from] \in Pages
    BY <2>2 DEF TypeInv, Shape
  <2>4. ASSUME NEW page \in Pages
        PROVE  LET new == [page EXCEPT !.by = 0] IN
               new \in Pages /\ new.by = 0 /\ new.note = page.note /\ new.owner = page.owner
    <3>1. 0 \in Savers
      BY ConstantTypes DEF Savers
    <3>2. [page EXCEPT !.by = 0] \in Pages
      BY <3>1, SavedType
    <3> QED
      BY <3>2 DEF Pages
  <2>5. \A m \in moves.list : \A p \in {m.from, m.to} : p \in sources \cup targets
    OBVIOUS
  <2>6. \A m \in moves.list : \A p \in {m.from, m.to} : disk[p] # Absent => disk[p].by <= MaxSyncs
    BY <2>1, <2>5
  <2>7. ASSUME NEW p \in Paths
        PROVE  \/ /\ \A m \in moves.list : p \notin {m.from, m.to}
                  /\ disk'[p] = disk[p]
               \/ /\ \A m \in moves.list : m.from # p
                  /\ \E m \in moves.list : m.to = p
                  /\ disk'[p] = Absent
               \/ /\ \E m \in moves.list : m.from = p
                  /\ moves.originals[p] \in Pages /\ disk'[p] \in Pages
                  /\ disk'[p].by = 0
                  /\ disk'[p].note = moves.originals[p].note
                  /\ disk'[p].owner = moves.originals[p].owner
    <3>1. CASE p \in sources
      <4>1. moves.originals[p] \in Pages /\ disk'[p] = [moves.originals[p] EXCEPT !.by = 0]
        BY <2>1, <2>3, <3>1
      <4> QED
        BY <2>4, <3>1, <4>1
    <3>2. CASE p \notin sources /\ p \in targets
      BY <2>1, <3>2
    <3>3. CASE p \notin sources /\ p \notin targets
      <4>1. disk'[p] = disk[p]
        BY <2>1, <3>3
      <4> QED
        BY <2>5, <3>3, <4>1
    <3> QED
      BY <3>1, <3>2, <3>3
  <2> QED
    BY <1>1, <1>3, <2>2, <2>6, <2>7
<1> QED
  BY <1>2, <1>3

(***************************************************************************)
(* The identities that a journal vouches for                               *)
(***************************************************************************)

\* Who saved the files that the journals vouch for at a path.
Stamps(p) == {s \in Savers : \E j \in Ops : \E r \in journals[j].rows[p] : r.bound /\ r.by = s}

StampInv ==
    /\ \A p \in Paths : disk[p] # Absent => disk[p].by <= MaxSyncs + edits
    /\ \A p \in Paths : \A s \in Stamps(p) : 1 <= s /\ s <= MaxSyncs + edits
    /\ Stage \in (Planning \ {"planned"}) \cup {"committed"} => op \in Ops
    /\ pc \in {"replace", "bind"} => job.new.by \in Ops
    /\ pc = "bind" /\ disk[job.path] # Absent => 1 <= disk[job.path].by

\* Only the step that binds a page vouches for another identity.
LEMMA StampsShrink ==
    ASSUME TypeInv, [Next]_vars, ~Bind, NEW p \in Paths
    PROVE  Stamps(p)' \subseteq Stamps(p)
<1> USE DEF env, store, bounds, run
<1>0. /\ journals \in [Ops -> JournalType] /\ NoJournal.rows = [q \in Paths |-> {}]
      /\ NoJournal \in JournalType
  BY ConstantTypes DEF TypeInv, TypeOK, JournalType, NoJournal
<1>1. CASE journals' = journals
  BY <1>1 DEF Stamps
<1>2. ASSUME NEW j, NEW journal, journals' = [journals EXCEPT ![j] = journal],
             j \in Ops => journal.rows[p] \subseteq journals[j].rows[p]
      PROVE  Stamps(p)' \subseteq Stamps(p)
  <2>1. \A i \in Ops : journals'[i].rows[p] \subseteq journals[i].rows[p]
    BY <1>0, <1>2
  <2> QED
    BY <2>1 DEF Stamps
<1>3. CASE Open
  <2>1. journals' = [journals EXCEPT ![last'] =
          [NoJournal EXCEPT !.status = "writing", !.anchors = manifest,
                            !.before = Existing \cup OwnedPages(manifest)]]
    BY <1>3 DEF Open
  <2>2. [NoJournal EXCEPT !.status = "writing", !.anchors = manifest,
                          !.before = Existing \cup OwnedPages(manifest)].rows = NoJournal.rows
    BY <1>0 DEF JournalType
  <2> QED
    BY <1>0, <1>2, <2>1, <2>2
<1>4. CASE Discard
  BY <1>0, <1>2, <1>4 DEF Discard
<1>5. CASE Reject
  <2>1. op \in Ops => Rejected.rows[p] \subseteq journals[op].rows[p]
    BY <1>0 DEF Rejected, Journal, JournalType
  <2> QED
    BY <1>2, <1>5, <2>1 DEF Reject
<1>6. ASSUME NEW path, NEW old, NEW new, NEW then, Write(path, old, new, then)
      PROVE  Stamps(p)' \subseteq Stamps(p)
  <2>1. journals' = journals \/
        journals' = [journals EXCEPT ![op].rows[path] = @ \cup {Row(new, FALSE)}]
    BY <1>6 DEF Write
  <2>2. Row(new, FALSE).bound = FALSE
    BY DEF Row
  <2>3. \A j \in Ops : \A r \in journals'[j].rows[p] : r.bound => r \in journals[j].rows[p]
    <3>1. CASE journals' = journals
      BY <3>1
    <3>2. CASE journals' = [journals EXCEPT ![op].rows[path] = @ \cup {Row(new, FALSE)}]
      <4>1. TAKE j \in Ops
      <4>2. journals'[j].rows[p] = journals[j].rows[p] \/
            journals'[j].rows[p] = journals[j].rows[p] \cup {Row(new, FALSE)}
        <5>1. CASE j # op
          BY <3>2, <5>1, <1>0
        <5>2. CASE j = op
          <6>1. journals'[j].rows = [journals[j].rows EXCEPT ![path] = @ \cup {Row(new, FALSE)}]
            BY <1>0, <3>2, <5>2 DEF JournalType
          <6>2. journals[j].rows \in [Paths -> SUBSET Rows]
            BY <1>0 DEF JournalType
          <6> QED
            BY <6>1, <6>2
        <5> QED
          BY <5>1, <5>2
      <4> QED
        BY <2>2, <4>2
    <3> QED
      BY <2>1, <3>1, <3>2
  <2> QED
    BY <2>3 DEF Stamps
<1>7. CASE Place \/ Refresh
  BY <1>6, <1>7 DEF Place, Refresh
<1>8. CASE Begin \/ Capture \/ SaveOriginal \/ Prepare \/ Unlink \/ Vacated \/ Placed
           \/ Skip \/ Replace \/ Commit \/ MarkCommitted \/ Cleanup
  BY <1>1, <1>8 DEF Begin, Capture, SaveOriginal, Prepare, Unlink, Vacated, Placed, Skip, Replace,
                    Commit, MarkCommitted, Cleanup
<1>9. CASE Refuse \/ Fail \/ FailUnbound
  BY <1>5, <1>9 DEF Refuse, Fail, FailUnbound
<1>10. CASE Kill \/ Recovery \/ SourceChange \/ Edit \/ Remove \/ Resolve \/ UNCHANGED vars
  BY <1>1, <1>10 DEF Kill, Recovery, RecoverBegin, RecoverCheck, RecoverUnlink, RecoverEnd,
                     SourceChange, Edit, Remove, Resolve, vars
<1> QED
  BY <1>3, <1>4, <1>7, <1>8, <1>9, <1>10 DEF Next, Sync, Moved, Written, Ended, Outside

\* Binding vouches for the page that is there, which is the one just written.
LEMMA BindStamps ==
    ASSUME TypeInv, Bind, NEW p \in Paths
    PROVE  /\ Stamps(p)' \subseteq Stamps(p) \cup (IF p = job.path THEN {disk[p].by} ELSE {})
           /\ disk[job.path] # Absent
<1>1. /\ journals \in [Ops -> JournalType] /\ job.path \in Paths /\ job.new \in Pages
      /\ disk[job.path] \in Pages \cup {Absent}
  BY DEF Bind, TypeInv, TypeOK, Shape, JournalType, Trees
<1>2. journals' = [journals EXCEPT ![op].rows[job.path] =
          (@ \ {Row(job.new, FALSE)}) \cup {Row(disk[job.path], TRUE)}]
  BY DEF Bind
<1>3. Row(disk[job.path], TRUE).by = disk[job.path].by
  BY DEF Row
<1>4. \A j \in Ops : \A r \in journals'[j].rows[p] :
         r \in journals[j].rows[p] \/ (p = job.path /\ r = Row(disk[job.path], TRUE))
  BY <1>1, <1>2 DEF JournalType
<1>5. disk[job.path] # Absent
  BY <1>1, SameHold, DistinctAssumption DEF Bind
<1> QED
  BY <1>3, <1>4, <1>5 DEF Stamps

LEMMA StampKept ==
    ASSUME TypeInv, StampInv, \A p \in Paths : Stamps(p)' \subseteq Stamps(p),
           UNCHANGED <<disk, edits, op>>,
           Stage' \in (Planning \ {"planned"}) \cup {"committed"}
             => Stage \in (Planning \ {"planned"}) \cup {"committed"},
           pc' \in {"replace", "bind"} => pc' = pc /\ job' = job
    PROVE  StampInv'
BY DEF StampInv

LEMMA StampStep == TypeInv /\ PlanInv /\ StampInv /\ [Next]_vars => StampInv'
<1> SUFFICES ASSUME TypeInv, PlanInv, StampInv, [Next]_vars PROVE StampInv'
  OBVIOUS
<1> USE ConstantTypes DEF env, store, bounds, run
<1>0. /\ disk \in Trees /\ edits \in 0 .. MaxEdits /\ op \in 0 .. MaxSyncs /\ last \in 0 .. MaxSyncs
      /\ \A s \in Savers : s \in Nat
  BY DEF TypeInv, TypeOK, Savers
<1>1. ~Bind => \A p \in Paths : Stamps(p)' \subseteq Stamps(p)
  BY StampsShrink
<1>2. CASE Open
  <2>1. op' \in Ops /\ UNCHANGED <<disk, edits>> /\ pc' = "apply"
    BY <1>0, <1>2 DEF Open, Ops, TypeInv, Shape
  <2>2. ~Bind
    BY <1>2 DEF Open, Bind
  <2> QED
    BY <1>1, <2>1, <2>2 DEF StampInv
<1>3. CASE \/ Begin \/ Capture \/ SaveOriginal \/ Prepare \/ Vacated \/ Placed \/ Skip \/ Commit
           \/ MarkCommitted \/ Cleanup
  <2>1. /\ UNCHANGED <<disk, edits, op>> /\ pc' \notin {"replace", "bind"} /\ ~Bind
        /\ Stage' \in (Planning \ {"planned"}) \cup {"committed"}
             => Stage \in (Planning \ {"planned"}) \cup {"committed"}
    BY <1>3 DEF Begin, Capture, SaveOriginal, Prepare, Vacated, Placed, Skip, Commit,
                MarkCommitted, Cleanup, Stage, Planning, Transit, Bind
  <2> QED
    BY <1>1, <2>1, StampKept
<1>4. CASE Unlink \/ RecoverUnlink
  <2>1. /\ UNCHANGED <<edits, op>> /\ pc' \notin {"replace", "bind"} /\ ~Bind
        /\ Stage' \in (Planning \ {"planned"}) \cup {"committed"}
             => Stage \in (Planning \ {"planned"}) \cup {"committed"}
        /\ \E p \in Paths \cup {NoPath} : disk' = [disk EXCEPT ![p] = Absent]
    <3>1. CASE Unlink
      <4>1. PICK m \in rest : disk' = [disk EXCEPT ![m.from] = Absent]
        BY <3>1 DEF Unlink
      <4>2. m.from \in Paths
        BY <4>1 DEF TypeInv, TypeOK, MoveList
      <4> QED
        BY <3>1, <4>1, <4>2 DEF Unlink, Stage, Bind
    <3>2. CASE RecoverUnlink
      BY <3>2 DEF RecoverUnlink, Stage, Planning, Transit, Bind, TypeInv, TypeOK
    <3> QED
      BY <1>4, <3>1, <3>2
  <2>2. \A p \in Paths : disk'[p] # Absent => disk'[p] = disk[p]
    BY <1>0, <2>1 DEF Trees
  <2> QED
    BY <1>1, <2>1, <2>2 DEF StampInv
<1>5. ASSUME NEW path, NEW old, NEW new, NEW then, Write(path, old, new, then), new.by = op,
             UNCHANGED <<disk, edits, op>>, Stage \in {"place", "refresh"}, ~Bind
      PROVE  StampInv'
  <2>1. pc' = "replace" /\ job'.new = new /\ op \in Ops
    BY <1>5, WriteDoes DEF StampInv, Planning, Transit
  <2> QED
    BY <1>1, <1>5, <2>1 DEF StampInv
<1>6. CASE Place
  <2>1. PICK m \in rest : Write(m.to, Absent, [taken[m.from] EXCEPT !.by = op], "place")
    BY <1>6 DEF Place
  <2>2. taken[m.from] \in Pages
    BY <1>6, <2>1 DEF Place, TypeInv, Shape, Captured, Working
  <2> QED
    BY <1>5, <1>6, <2>1, <2>2 DEF Place, Pages, Stage, Bind
<1>7. CASE Refresh
  BY <1>5, <1>7 DEF Refresh, Merged, Stage, Bind
<1>8. CASE Replace
  <2>1. disk' = [disk EXCEPT ![job.path] = job.new] /\ UNCHANGED <<edits, op>> /\ ~Bind
        /\ (pc' \in {"replace", "bind"} => job' = job /\ pc' = "bind")
        /\ pc = "replace" /\ Stage' = Stage
    BY <1>8 DEF Replace, Bind, Stage, PlanInv
  <2>2. job.path \in Paths /\ job.new.by \in Ops
    BY <2>1 DEF TypeInv, Shape, StampInv
  <2>3. \A p \in Paths : disk'[p] = IF p = job.path THEN job.new ELSE disk[p]
    BY <1>0, <2>1, <2>2 DEF Trees
  <2> QED
    BY <1>0, <1>1, <2>1, <2>2, <2>3 DEF StampInv, Ops
<1>9. CASE Bind
  <2>1. UNCHANGED <<disk, edits, op>> /\ pc = "bind" /\ pc' \notin {"replace", "bind"} /\ Stage' = Stage
    BY <1>9 DEF Bind, Stage, PlanInv
  <2>2. \A p \in Paths : \A s \in Stamps(p)' : s \in Stamps(p) \/ (p = job.path /\ s = disk[p].by)
    BY <1>9, BindStamps
  <2>3. disk[job.path] # Absent /\ job.path \in Paths
    BY <1>9, <2>1, BindStamps DEF TypeInv, Shape
  <2> QED
    BY <2>1, <2>2, <2>3 DEF StampInv
<1>10. CASE Over
  <2>1. UNCHANGED <<disk, edits>> /\ pc' = "idle" /\ Stage' = "idle" /\ ~Bind
    BY <1>10, OverEnds DEF Bind, Over, Refuse, Fail, FailUnbound, Kill, Discard, RecoverEnd, PlanInv
  <2> QED
    BY <1>1, <2>1 DEF StampInv, Planning, Transit
<1>11. CASE RecoverBegin \/ RecoverCheck
  <2>1. UNCHANGED <<disk, edits>> /\ pc' \in {"recover", "remove"} /\ Stage' = pc' /\ ~Bind
    BY <1>11 DEF RecoverBegin, RecoverCheck, Stage, Bind
  <2> QED
    BY <1>1, <2>1 DEF StampInv, Planning, Transit
<1>12. CASE SourceChange \/ UNCHANGED vars
  <2>1. UNCHANGED <<disk, edits, op, pc, job, journals>>
    BY <1>12 DEF SourceChange, vars
  <2>2. Stage' = Stage /\ \A p \in Paths : Stamps(p)' = Stamps(p)
    BY <2>1 DEF Stage, Stamps
  <2> QED
    BY <2>1, <2>2, StampKept
<1>13. CASE Edit
  <2>1. UNCHANGED <<op, pc, job>> /\ edits' = edits + 1 /\ Stage' = Stage /\ ~Bind
    BY <1>13 DEF Edit, Stage, Bind, PlanInv
  <2>2. \A p \in Paths : disk'[p] = disk[p] \/ (disk'[p] # Absent /\ disk'[p].by = Stamp)
    BY <1>13, EditDoes, DistinctAssumption
  <2>3. Stamp = MaxSyncs + edits' /\ 1 <= Stamp
    BY <1>0, <2>1 DEF Stamp
  <2>4. job.path \in Paths \/ pc # "bind"
    BY DEF TypeInv, Shape
  <2>5. \A p \in Paths : disk[p] # Absent => disk[p].by \in Nat
    BY <1>0 DEF Trees, Pages
  <2>6. \A p \in Paths : \A s \in Stamps(p) : s \in Nat
    BY <1>0 DEF Stamps
  <2>7. \A p \in Paths : disk'[p] # Absent => disk'[p].by <= MaxSyncs + edits'
    BY <1>0, <2>1, <2>2, <2>3, <2>5 DEF StampInv
  <2>8. \A p \in Paths : \A s \in Stamps(p)' : 1 <= s /\ s <= MaxSyncs + edits'
    BY <1>0, <1>1, <2>1, <2>6 DEF StampInv
  <2>9. pc' = "bind" /\ disk'[job'.path] # Absent => 1 <= disk'[job'.path].by
    BY <2>1, <2>2, <2>3, <2>4 DEF StampInv
  <2> QED
    BY <2>1, <2>7, <2>8, <2>9 DEF StampInv
<1>14. CASE Remove
  <2>1. UNCHANGED <<op, pc, job, edits>> /\ Stage' = Stage /\ ~Bind
    BY <1>14 DEF Remove, Stage, Bind, PlanInv
  <2>2. \A p \in Paths : disk'[p] = disk[p] \/ disk'[p] = Absent
    BY <1>0, <1>14 DEF Remove, Trees
  <2>3. job.path \in Paths \/ pc # "bind"
    BY DEF TypeInv, Shape
  <2> QED
    BY <1>1, <2>1, <2>2, <2>3 DEF StampInv
<1>15. CASE Resolve
  <2>1. UNCHANGED <<op, pc, job, edits>> /\ Stage' = Stage /\ ~Bind /\ pc = "idle"
    BY <1>15 DEF Resolve, Stage, Bind
  <2>2. \A p \in Paths : disk'[p] = disk[p] \/ disk'[p] = Absent \/ disk'[p].by = 0
    BY <1>15, ResolveDoes
  <2> QED
    BY <1>0, <1>1, <2>1, <2>2 DEF StampInv
<1> QED
  BY <1>2, <1>3, <1>4, <1>6, <1>7, <1>8, <1>9, <1>10, <1>11, <1>12, <1>13, <1>14, <1>15
     DEF Next, Sync, Moved, Written, Ended, Recovery, Outside, Over

(***************************************************************************)
(* Every page a journal vouches for, and that carries prose, is owned or   *)
(* the copy of an original that is still kept.                             *)
(***************************************************************************)

\* A directory of originals that an author can put back, or can only drop.
Replaceable == moves.state \in {"prepared", "applied", "committed"} /\ manifest # moves.names
Droppable == moves.state # "none" /\ ~Replaceable

Prose(p) == disk[p] # Absent /\ disk[p].note # NoNote

\* A page with prose that is as a sync left it.
Made(p) == Prose(p) /\ disk[p].by \in Stamps(p)

CopiesInv ==
    \A p \in Paths : Made(p) /\ p \notin OwnedPages(manifest) =>
       Replaceable /\ \E m \in moves.list : m.to = p /\ disk[p].note = moves.originals[m.from].note

\* What the new names have no page for is about to go.
LeavingInv ==
    Stage \in Transit \cup {"committed"} =>
       \A p \in Paths : Made(p) /\ p \notin OwnedPages(plan.new) =>
          \/ Stage = "save" /\ \E m \in Moving : m.from = p
          \/ pc = "unlink" /\ \E m \in rest : m.from = p

\* Steps that leave every page alone, and those that take one away.
Idle == \/ Begin \/ Open \/ Capture \/ SaveOriginal \/ Prepare \/ Vacated \/ Place \/ Placed
        \/ Refresh \/ Skip \/ Bind \/ Commit \/ MarkCommitted \/ Cleanup \/ Over
        \/ RecoverBegin \/ RecoverCheck \/ SourceChange \/ UNCHANGED vars

LEMMA IdleKeeps == Idle => disk' = disk
<1> USE DEF env, store, bounds, run
<1>1. CASE Over
  BY <1>1, OverEnds
<1>2. CASE Begin \/ Open \/ Capture \/ SaveOriginal \/ Prepare \/ Vacated \/ Place \/ Placed
           \/ Refresh \/ Skip \/ Bind \/ Commit \/ MarkCommitted \/ Cleanup
  BY <1>2 DEF Begin, Open, Capture, SaveOriginal, Prepare, Vacated, Place, Placed, Refresh, Skip,
              Bind, Commit, MarkCommitted, Cleanup
<1>3. CASE RecoverBegin \/ RecoverCheck \/ SourceChange \/ UNCHANGED vars
  BY <1>3 DEF RecoverBegin, RecoverCheck, SourceChange, vars
<1> QED
  BY <1>1, <1>2, <1>3 DEF Idle

\* The page that a removing step takes away.
LEMMA UnlinkDoes ==
    ASSUME TypeInv, Unlink
    PROVE  /\ pc = "unlink" /\ pc' = "unlink"
           /\ \E m \in rest :
                 /\ m \in Moving /\ m.from \in Paths /\ rest' = rest \ {m}
                 /\ Same(disk[m.from], taken[m.from]) /\ taken[m.from] \in Pages
                 /\ \A p \in Paths : disk'[p] = IF p = m.from THEN Absent ELSE disk[p]
<1>1. PICK m \in rest : /\ Same(disk[m.from], taken[m.from])
                        /\ disk' = [disk EXCEPT ![m.from] = Absent] /\ rest' = rest \ {m}
  BY DEF Unlink
<1>2. pc = "unlink" /\ pc' = "unlink" /\ m \in Moving /\ taken[m.from] \in Pages
  BY <1>1 DEF Unlink, TypeInv, Shape, Captured, Working
<1>3. m.from \in Paths
  BY <1>2, MovesAre
<1> QED
  BY <1>1, <1>2, <1>3 DEF TypeInv, TypeOK, Trees

LEMMA ReplaceDoes ==
    ASSUME TypeInv, PlanInv, Replace
    PROVE  /\ pc = "replace" /\ job.path \in Paths /\ job.new \in Pages
           /\ Same(disk[job.path], job.old)
           /\ \A p \in Paths : disk'[p] = IF p = job.path THEN job.new ELSE disk[p]
BY DEF Replace, TypeInv, TypeOK, Shape, Trees

LEMMA RecoverUnlinkDoes ==
    ASSUME TypeInv, RecoverUnlink
    PROVE  /\ pc = "remove" /\ job.path \in Paths \cup {NoPath}
           /\ Same(disk[job.path], job.old)
           /\ UNCHANGED <<source, manifest, moves, alive, edits, removals>>
           /\ \A p \in Paths : disk'[p] = IF p = job.path THEN Absent ELSE disk[p]
           /\ \A p \in Paths : taken'[p] = IF p = job.path THEN Absent ELSE taken[p]
BY DEF RecoverUnlink, TypeInv, TypeOK, Trees, env, bounds, store

LEMMA RemoveDoes ==
    ASSUME TypeInv, Remove
    PROVE  /\ UNCHANGED <<source, manifest, moves, edits>> /\ UNCHANGED run
           /\ removals' = removals + 1
           /\ \E q \in Existing :
                 /\ alive' = alive \ NoteAt(q)
                 /\ \A p \in Paths : disk'[p] = IF p = q THEN Absent ELSE disk[p]
BY DEF Remove, TypeInv, TypeOK, Trees, store

\* Only a write and its binding make a page that a journal vouches for.
LEMMA MadeStays ==
    ASSUME TypeInv, PlanInv, StampInv, [Next]_vars, NEW p \in Paths,
           Replace \/ Bind => p # job.path, Made(p)'
    PROVE  Made(p) /\ disk'[p] = disk[p]
<1>1. Stamps(p)' \subseteq Stamps(p)
  <2>1. CASE Bind
    BY <2>1, BindStamps
  <2> QED
    BY <2>1, StampsShrink
<1>2. CASE disk'[p] = disk[p]
  BY <1>1, <1>2 DEF Made, Prose
<1>3. disk'[p] # Absent /\ disk'[p].by \in Stamps(p)
  BY <1>1 DEF Made, Prose
<1>4. CASE Idle
  BY <1>2, <1>4, IdleKeeps
<1>5. CASE Unlink
  BY <1>2, <1>3, <1>5, UnlinkDoes
<1>6. CASE Replace
  BY <1>2, <1>6, ReplaceDoes
<1>7. CASE RecoverUnlink
  BY <1>2, <1>3, <1>7, RecoverUnlinkDoes
<1>8. CASE Remove
  BY <1>2, <1>3, <1>8, RemoveDoes
<1>9. CASE Edit
  <2>1. disk'[p] = disk[p] \/ disk'[p].by = Stamp
    BY <1>9, EditDoes
  <2>2. \A s \in Stamps(p) : s <= MaxSyncs + edits
    BY DEF StampInv
  <2>3. MaxSyncs \in Nat /\ edits \in Nat /\ ~(Stamp <= MaxSyncs + edits)
    BY ConstantTypes DEF TypeInv, TypeOK, Stamp
  <2> QED
    BY <1>2, <1>3, <2>1, <2>2, <2>3
<1>10. CASE Resolve
  <2>1. disk'[p] = disk[p] \/ disk'[p] = Absent \/ disk'[p].by = 0
    BY <1>10, ResolveDoes
  <2>2. \A s \in Stamps(p) : s # 0
    BY DEF StampInv
  <2> QED
    BY <1>2, <1>3, <2>1, <2>2
<1> QED
  BY <1>4, <1>5, <1>6, <1>7, <1>8, <1>9, <1>10
     DEF Next, Sync, Moved, Written, Ended, Recovery, Outside, Idle, Over

\* What is written while pages move is a copy of an original, or stays put.
LEMMA CarriedCopies ==
    ASSUME PlanInv, MovesInv, Stage \in {"unlink", "place", "refresh"},
           NEW path, NEW note, Carried(path, note)
    PROVE  Replaceable /\ \E m \in moves.list : m.to = path /\ note = moves.originals[m.from].note
<1>1. PICK m \in Moving : m.to = path /\ note = taken[m.from].note
  BY DEF Carried
<1>2. plan.old # plan.new /\ manifest = plan.old
  BY <1>1, MovesRename DEF PlanInv, Planning, Transit
<1>3. moves.list = Moving /\ moves.names = plan.new /\ moves.originals[m.from] = taken[m.from]
      /\ moves.state \in {"prepared", "applied"}
  BY <1>1 DEF MovesInv, Transit
<1> QED
  BY <1>1, <1>2, <1>3 DEF Replaceable

\* The note that a write just brought, or is about to bind.
LEMMA WrittenNote ==
    ASSUME TypeInv, PlanInv, Replace \/ Bind
    PROVE  /\ job.path \in Paths /\ disk'[job.path] # Absent
           /\ disk'[job.path].note = job.new.note
           /\ pc \in {"replace", "bind"}
<1>1. CASE Replace
  BY <1>1, ReplaceDoes, DistinctAssumption
<1>2. CASE Bind
  <2>1. pc = "bind" /\ disk' = disk /\ Same(disk[job.path], job.new)
    BY <1>2 DEF Bind
  <2>2. job.path \in Paths /\ job.new \in Pages /\ disk[job.path] \in Pages \cup {Absent}
    BY <2>1 DEF TypeInv, TypeOK, Shape, Trees
  <2> QED
    BY <2>1, <2>2, SameHold, DistinctAssumption
<1> QED
  BY <1>1, <1>2

LEMMA CopiesStep ==
    ASSUME TypeInv, PlanInv, MovesInv, JobInv, StampInv, CopiesInv, LeavingInv, [Next]_vars
    PROVE  CopiesInv'
<1> SUFFICES ASSUME NEW p \in Paths, Made(p)', p \notin OwnedPages(manifest')
             PROVE  /\ Replaceable'
                    /\ \E m \in moves'.list :
                          m.to = p /\ disk'[p].note = moves'.originals[m.from].note
  BY DEF CopiesInv
<1> USE DEF env, store, bounds, run
<1>1. CASE (Replace \/ Bind) /\ p = job.path
  <2>1. UNCHANGED <<manifest, moves>> /\ Stage \in {"place", "refresh"}
    BY <1>1, WithinKeeps DEF Within, Replace, Bind, PlanInv, Stage
  <2>2. disk'[p].note = job.new.note /\ job.new.note # NoNote /\ pc \in {"replace", "bind"}
    BY <1>1, WrittenNote DEF Made, Prose
  <2>3. manifest = plan.old
    BY <2>1 DEF PlanInv, Planning, Transit
  <2>4. Carried(p, job.new.note)
    BY <1>1, <2>1, <2>2, <2>3 DEF JobInv
  <2>5. Replaceable /\ \E m \in moves.list : m.to = p /\ job.new.note = moves.originals[m.from].note
    BY <2>1, <2>4, CarriedCopies
  <2> QED
    BY <2>1, <2>2, <2>5 DEF Replaceable
<1>2. CASE ~((Replace \/ Bind) /\ p = job.path)
  <2>1. Made(p) /\ disk'[p] = disk[p]
    BY <1>2, MadeStays
  <2>2. CASE UNCHANGED <<manifest, moves>>
    BY <2>1, <2>2 DEF CopiesInv, Replaceable
  <2>3. CASE manifest' = manifest /\ ~Replaceable
    BY <2>1, <2>3 DEF CopiesInv
  <2>4. CASE Begin \/ Open \/ Vacated
    BY <2>2, <2>4 DEF Begin, Open, Vacated
  <2>5. CASE Capture \/ SaveOriginal \/ Prepare
    BY <2>3, <2>5 DEF Capture, SaveOriginal, Prepare, MovesInv, Stage, Replaceable
  <2>6. CASE Within
    BY <2>2, <2>6, WithinKeeps
  <2>7. CASE Placed
    BY <2>1, <2>7 DEF Placed, CopiesInv, Replaceable, TypeInv, TypeOK, MovesInv, Stage
  <2>8. CASE Commit
    <3>1. Stage = "refresh" /\ pc = "refresh" /\ manifest' = plan.new
      BY <2>8 DEF Commit, Stage
    <3> QED
      BY <2>1, <3>1 DEF LeavingInv, Transit
  <2>9. CASE MarkCommitted \/ Cleanup
    BY <2>3, <2>9 DEF MarkCommitted, Cleanup, MovesInv, Stage, Replaceable, PlanInv
  <2>10. CASE Over
    BY <2>2, <2>10, OverEnds
  <2>11. CASE RecoverBegin \/ RecoverCheck \/ RecoverUnlink \/ SourceChange \/ UNCHANGED vars
    BY <2>2, <2>11 DEF RecoverBegin, RecoverCheck, RecoverUnlink, SourceChange, vars
  <2>12. CASE Edit \/ Remove
    BY <2>2, <2>12 DEF Edit, Remove
  <2>13. CASE Resolve
    <3>1. CASE manifest = moves.names \/ moves.state = "capturing"
      BY <2>3, <2>13, <3>1 DEF Resolve, Replaceable
    <3>2. CASE ~(manifest = moves.names \/ moves.state = "capturing")
      <4>1. manifest' = manifest /\ disk'[p] # Absent
        BY <2>13 DEF Resolve, Made, Prose
      <4>2. \E m \in moves.list : m.to = p
        BY <2>1, <4>1 DEF CopiesInv
      <4>3. disk'[p].by = 0
        BY <2>13, <3>2, <4>1, <4>2, ResolveDoes
      <4> QED
        BY <2>1, <4>3 DEF Made, StampInv
    <3> QED
      BY <3>1, <3>2
  <2> QED
    BY <2>4, <2>5, <2>6, <2>7, <2>8, <2>9, <2>10, <2>11, <2>12, <2>13
       DEF Next, Sync, Moved, Written, Ended, Recovery, Outside, Over, Within
<1> QED
  BY <1>1, <1>2

LEMMA LeavingStep ==
    ASSUME TypeInv, PlanInv, MovesInv, JobInv, StampInv, CopiesInv, LeavingInv, [Next]_vars
    PROVE  LeavingInv'
<1> SUFFICES ASSUME Stage' \in Transit \cup {"committed"},
                    NEW p \in Paths, Made(p)', p \notin OwnedPages(plan'.new)
             PROVE  \/ Stage' = "save" /\ \E m \in Moving' : m.from = p
                    \/ pc' = "unlink" /\ \E m \in rest' : m.from = p
  BY DEF LeavingInv
<1> USE DEF env, store, bounds, run
<1>1. CASE (Replace \/ Bind) /\ p = job.path
  <2>1. plan' = plan /\ pc \in {"replace", "bind"}
    BY <1>1 DEF Replace, Bind
  <2> QED
    BY <1>1, <2>1 DEF JobInv
<1>2. CASE ~((Replace \/ Bind) /\ p = job.path)
  <2>1. Made(p) /\ disk'[p] = disk[p]
    BY <1>2, MadeStays
  <2>2. CASE Stage \in {"place", "refresh", "committed"} /\ plan' = plan
    BY <2>1, <2>2 DEF LeavingInv, Transit, Stage
  <2>3. CASE Capture
    <3>1. Stage = "apply" /\ plan' = plan /\ Replanned /\ moves.state = "none" /\ TypeOK
      BY <2>3 DEF Capture, Stage, MovesInv, TypeInv
    <3>2. manifest = plan.old /\ Separate(plan.old, plan.new) /\ p \in OwnedPages(manifest)
      BY <2>1, <3>1 DEF PlanInv, Planning, CopiesInv, Replaceable
    <3>3. PICK o \in Owners : plan.old[o] = p
      BY <3>2 DEF OwnedPages
    <3>4. p # NoPath /\ o \in Current(plan.new) /\ plan.new[o] # p
      BY <3>1, <3>2, <3>3, NoPathAssumption DEF Separate, Current, OwnedPages
    <3>5. p \in Existing
      BY <2>1 DEF Made, Prose, Existing
    <3>6. p \in plan.existing
      BY <3>1, <3>3, <3>4, <3>5 DEF Replanned, SourceOf
    <3>7. PICK m \in Moving : m.from = p
      BY <3>1, <3>3, <3>4, <3>6, MoveOf
    <3>8. Moving' = Moving /\ Stage' = "save"
      BY <2>3, <3>1, <3>7 DEF Capture, Moving, Stage
    <3> QED
      BY <3>7, <3>8
  <2>4. CASE SaveOriginal \/ Prepare
    <3>1. /\ Stage = "save" /\ plan' = plan /\ Moving' = Moving
          /\ Stage' = "save" \/ (pc' = "unlink" /\ rest' = Moving)
      BY <2>4 DEF SaveOriginal, Prepare, Stage, Moving
    <3>2. \E m \in Moving : m.from = p
      BY <2>1, <3>1 DEF LeavingInv, Transit, Stage
    <3> QED
      BY <3>1, <3>2
  <2>5. CASE Unlink
    <3>1. plan' = plan /\ Stage = "unlink" /\ pc = "unlink"
      BY <2>5 DEF Unlink, Stage
    <3>2. PICK m \in rest : m.from = p
      BY <2>1, <3>1 DEF LeavingInv, Transit
    <3>3. disk'[p] # Absent
      BY DEF Made, Prose
    <3> QED
      BY <2>5, <3>2, <3>3, UnlinkDoes
  <2>6. CASE Vacated
    <3>1. plan' = plan /\ Stage = "unlink" /\ rest = {}
      BY <2>6 DEF Vacated, Stage
    <3> QED
      BY <2>1, <3>1 DEF LeavingInv, Transit
  <2>7. CASE Place \/ Refresh \/ Skip \/ Replace \/ Bind
    <3>1. Stage \in {"place", "refresh"} /\ plan' = plan
      BY <2>7, WithinKeeps DEF Within, Place, Refresh, Skip, Replace, Bind, Stage, PlanInv
    <3> QED
      BY <2>2, <3>1
  <2>8. CASE Placed \/ Commit \/ MarkCommitted \/ Cleanup
    BY <2>2, <2>8 DEF Placed, Commit, MarkCommitted, Cleanup, Stage
  <2>9. CASE SourceChange \/ Edit \/ Remove \/ UNCHANGED vars
    <3>1. UNCHANGED <<pc, job, rest, plan>>
      BY <2>9 DEF SourceChange, Edit, Remove, vars
    <3>2. Stage' = Stage /\ Moving' = Moving
      BY <3>1 DEF Stage, Moving
    <3> QED
      BY <2>1, <3>1, <3>2 DEF LeavingInv
  <2>10. ASSUME Over PROVE FALSE
    BY <2>10, OverEnds DEF Transit
  <2>11. ASSUME Begin \/ Open \/ RecoverBegin \/ RecoverCheck \/ RecoverUnlink \/ Resolve
         PROVE FALSE
    BY <2>11 DEF Begin, Open, RecoverBegin, RecoverCheck, RecoverUnlink, Resolve, Stage, Transit
  <2> QED
    BY <2>3, <2>4, <2>5, <2>6, <2>7, <2>8, <2>9, <2>10, <2>11
       DEF Next, Sync, Moved, Written, Ended, Recovery, Outside, Over
<1> QED
  BY <1>1, <1>2

(***************************************************************************)
(* What a transition or a recovery takes away is among the originals       *)
(***************************************************************************)

LEMMA NoteIsIn ==
    ASSUME NEW tree, NEW p \in Paths, tree[p] # Absent, tree[p].note # NoNote
    PROVE  tree[p].note \in NotesIn(tree)
BY DEF NotesIn

\* Where pages are being moved, a file no author saved is one that was captured.
SavedInv ==
    Stage = "save" =>
       \A m \in Moving : \A p \in {m.from, m.to} :
          disk[p] # Absent /\ disk[p].by <= MaxSyncs =>
             \E n \in Moving : n.from = p /\ disk[p].note = taken[p].note

\* ... and what is on one, until its author resolves the transition, is saved.
CoveredInv ==
    Replaceable =>
       \A m \in moves.list : \A p \in {m.from, m.to} :
          Prose(p) /\ disk[p].by <= MaxSyncs => disk[p].note \in NotesIn(moves.originals)

RemovedInv ==
    pc \in {"recover", "remove"} =>
       /\ \A p \in Remaining :
             taken[p].note # NoNote =>
                Replaceable /\ taken[p].note \in NotesIn(moves.originals)
       /\ pc = "remove" => job.old = taken[job.path]

\* Only a write brings a page that an author did not save.
LEMMA OthersKeep ==
    ASSUME TypeInv, PlanInv, [Next]_vars, ~Replace, ~Resolve, NEW p \in Paths
    PROVE  disk'[p] = disk[p] \/ disk'[p] = Absent \/ ~(disk'[p].by <= MaxSyncs)
<1>1. CASE Idle
  BY <1>1, IdleKeeps
<1>2. CASE Unlink
  BY <1>2, UnlinkDoes
<1>3. CASE RecoverUnlink
  BY <1>3, RecoverUnlinkDoes
<1>4. CASE Remove
  BY <1>4, RemoveDoes
<1>5. CASE Edit
  <2>1. disk'[p] = disk[p] \/ disk'[p].by = Stamp
    BY <1>5, EditDoes
  <2>2. ~(Stamp <= MaxSyncs)
    BY ConstantTypes DEF TypeInv, TypeOK, Stamp
  <2> QED
    BY <2>1, <2>2
<1> QED
  BY <1>1, <1>2, <1>3, <1>4, <1>5
     DEF Next, Sync, Moved, Written, Ended, Recovery, Outside, Idle, Over

\* A plan that still holds: whoever is at a target moves away itself.
LEMMA OccupantsMove ==
    ASSUME TypeInv, Replanned, NEW m \in Moving, NEW p \in {m.from, m.to}, p \in Existing
    PROVE  \E n \in Moving : n.from = p
<1>1. CASE p = m.from
  BY <1>1
<1>2. CASE p = m.to /\ p # m.from
  <2>1. /\ m.owner \in Current(plan.new) /\ m.from = plan.old[m.owner]
        /\ m.to = plan.new[m.owner] /\ m.from # m.to /\ m.to \in Paths
    BY MovesAre
  <2>2. Free(plan.old, plan.new, Existing, m.owner)
    BY <2>1 DEF Replanned, Plannable
  <2>3. PICK u \in Current(plan.new) :
           plan.old[u] = p /\ (u # m.owner => plan.new[u] # p)
    BY <1>2, <2>1, <2>2 DEF Free
  <2>4. u # m.owner /\ plan.new[u] # p /\ p # NoPath
    BY <1>2, <2>1, <2>3, NoPathAssumption
  <2>5. p \in plan.existing
    BY <2>3, <2>4 DEF Replanned, SourceOf
  <2> QED
    BY <2>3, <2>4, <2>5, MoveOf DEF TypeInv
<1> QED
  BY <1>1, <1>2

LEMMA SavedStep ==
    ASSUME TypeInv, PlanInv, SavedInv, [Next]_vars
    PROVE  SavedInv'
<1> SUFFICES ASSUME Stage' = "save" PROVE SavedInv'
  BY DEF SavedInv
<1> USE DEF env, store, bounds, run
<1>0. \A m \in Moving : m.from \in Paths /\ m.to \in Paths
  BY MovesAre
<1>1. CASE Capture
  <2>1. Moving' = Moving /\ Replanned /\ disk' = disk
        /\ taken' = [p \in Paths |-> IF \E m \in Moving : m.from = p THEN disk[p] ELSE Absent]
    BY <1>1 DEF Capture, Moving
  <2>2. ASSUME NEW m \in Moving, NEW p \in {m.from, m.to}, disk[p] # Absent
        PROVE  \E n \in Moving : n.from = p /\ disk[p].note = taken'[p].note
    <3>1. p \in Paths /\ p \in Existing
      BY <1>0, <2>2 DEF Existing
    <3>2. PICK n \in Moving : n.from = p
      BY <2>1, <2>2, <3>1, OccupantsMove
    <3> QED
      BY <2>1, <3>1, <3>2
  <2>3. \A m \in Moving' : \A p \in {m.from, m.to} :
           disk'[p] # Absent => \E n \in Moving' : n.from = p /\ disk'[p].note = taken'[p].note
    <3>1. Moving' = Moving /\ disk' = disk
      BY <2>1
    <3>2. \A m \in Moving : \A p \in {m.from, m.to} :
             disk[p] # Absent => \E n \in Moving : n.from = p /\ disk[p].note = taken'[p].note
      BY <2>2
    <3> QED
      BY <3>1, <3>2
  <2> QED
    BY <2>3 DEF SavedInv
<1>2. CASE SaveOriginal \/ SourceChange \/ Edit \/ Remove \/ UNCHANGED vars
  <2>1. UNCHANGED <<pc, job, plan, taken>> /\ ~Replace /\ ~Resolve
    BY <1>2 DEF SaveOriginal, SourceChange, Edit, Remove, vars, Stage, Replace, Resolve
  <2>2. Moving' = Moving /\ Stage = "save"
    BY <2>1 DEF Moving, Stage
  <2>3. ASSUME NEW m \in Moving, NEW p \in {m.from, m.to},
               disk'[p] # Absent, disk'[p].by <= MaxSyncs
        PROVE  \E n \in Moving : n.from = p /\ disk'[p].note = taken[p].note
    <3>1. disk'[p] = disk[p]
      BY <1>0, <2>1, <2>3, OthersKeep
    <3> QED
      BY <2>2, <2>3, <3>1 DEF SavedInv
  <2> QED
    BY <2>1, <2>2, <2>3 DEF SavedInv
<1>3. ASSUME Within \/ Over PROVE FALSE
  BY <1>3, WithinKeeps, OverEnds
<1>4. ASSUME Begin \/ Open \/ Prepare \/ Vacated \/ Placed \/ Commit \/ MarkCommitted \/ Cleanup
             \/ RecoverBegin \/ RecoverCheck \/ RecoverUnlink \/ Resolve
      PROVE FALSE
  BY <1>4 DEF Begin, Open, Prepare, Vacated, Placed, Commit, MarkCommitted, Cleanup, RecoverBegin,
              RecoverCheck, RecoverUnlink, Resolve, Stage
<1> QED
  BY <1>1, <1>2, <1>3, <1>4
     DEF Next, Sync, Moved, Written, Ended, Recovery, Outside, Over, Within

\* Steps that neither change the directory of originals nor the authority.
LEMMA StoreStays ==
    ASSUME PlanInv, [Next]_vars,
           ~(Capture \/ SaveOriginal \/ Prepare \/ Placed \/ Commit \/ MarkCommitted \/ Cleanup
             \/ Resolve)
    PROVE  UNCHANGED <<manifest, moves>>
<1> USE DEF env, store, bounds, run
<1>1. CASE Within
  BY <1>1, WithinKeeps
<1>2. CASE Over
  BY <1>2, OverEnds
<1>3. CASE Begin \/ Open \/ Vacated \/ RecoverBegin \/ RecoverCheck \/ RecoverUnlink
  BY <1>3 DEF Begin, Open, Vacated, RecoverBegin, RecoverCheck, RecoverUnlink
<1>4. CASE SourceChange \/ Edit \/ Remove \/ UNCHANGED vars
  BY <1>4 DEF SourceChange, Edit, Remove, vars
<1> QED
  BY <1>1, <1>2, <1>3, <1>4
     DEF Next, Sync, Moved, Written, Ended, Recovery, Outside, Over, Within

\* Where a transition becomes one that can be put back, and where it ceases to.
LEMMA BecomesReplaceable ==
    ASSUME TypeInv, PlanInv, MovesInv, [Next]_vars, Replaceable'
    PROVE  \/ Replaceable /\ UNCHANGED <<manifest, moves>>
           \/ Prepare
           \/ /\ Placed /\ Replaceable /\ manifest' = manifest
              /\ moves'.list = moves.list /\ moves'.originals = moves.originals
<1> USE DEF env, store, bounds, run
<1>1. ASSUME Capture \/ SaveOriginal \/ Cleanup \/ Resolve PROVE FALSE
  <2>1. moves'.state \in {"none", "capturing"}
    <3>1. CASE Capture
      BY <3>1 DEF Capture, NoMoves, MovesInv, Stage
    <3>2. CASE SaveOriginal
      <4>1. Stage = "save" /\ moves'.state = moves.state
        BY <3>2 DEF SaveOriginal, Stage, TypeInv, TypeOK
      <4> QED
        BY <4>1 DEF MovesInv
    <3>3. CASE Cleanup \/ Resolve
      BY <3>3 DEF Cleanup, Resolve, NoMoves
    <3> QED
      BY <1>1, <3>1, <3>2, <3>3
  <2> QED
    BY <2>1 DEF Replaceable
<1>2. ASSUME Commit PROVE FALSE
  <2>1. Stage = "refresh" /\ manifest' = plan.new /\ moves' = moves
    BY <1>2 DEF Commit, Stage
  <2> QED
    BY <2>1 DEF Replaceable, MovesInv, Transit
<1>3. ASSUME MarkCommitted PROVE FALSE
  <2>1. Stage = "committed" /\ manifest' = manifest /\ moves'.names = moves.names
        /\ moves.state = "applied"
    BY <1>3 DEF MarkCommitted, Stage, TypeInv, TypeOK
  <2> QED
    BY <2>1 DEF Replaceable, MovesInv, PlanInv
<1>4. CASE Placed
  <2>1. /\ Stage = "place" /\ manifest' = manifest /\ moves'.names = moves.names
        /\ moves'.list = moves.list /\ moves'.originals = moves.originals
    BY <1>4 DEF Placed, Stage, TypeInv, TypeOK
  <2> QED
    BY <1>4, <2>1 DEF Replaceable, MovesInv
<1> QED
  BY <1>1, <1>2, <1>3, <1>4, StoreStays DEF Replaceable

LEMMA CoveredStep ==
    ASSUME TypeInv, PlanInv, MovesInv, JobInv, SavedInv, CoveredInv, [Next]_vars
    PROVE  CoveredInv'
<1> SUFFICES ASSUME Replaceable', NEW m \in moves'.list, NEW p \in {m.from, m.to},
                    disk'[p] # Absent, disk'[p].note # NoNote, disk'[p].by <= MaxSyncs
             PROVE  disk'[p].note \in NotesIn(moves.originals)'
  BY DEF CoveredInv, Prose
<1>0. moves.list \subseteq MoveList /\ moves'.list \subseteq MoveList /\ p \in Paths
  BY TypeStep DEF TypeInv, TypeOK, MoveList
<1>1. CASE Prepare
  <2>1. /\ Stage = "save" /\ disk' = disk /\ rest = {} /\ moves.list = Moving
        /\ moves'.list = moves.list /\ moves'.originals = moves.originals
    BY <1>1 DEF Prepare, Stage, TypeInv, TypeOK, Shape
  <2>2. PICK n \in Moving : n.from = p /\ disk[p].note = taken[p].note
    BY <2>1 DEF SavedInv
  <2>3. moves.originals[p] = taken[p] /\ moves.originals[p] \in Pages
    BY <1>1, <2>1, <2>2 DEF MovesInv, TypeInv, Shape, Prepare
  <2> QED
    BY <1>0, <2>1, <2>2, <2>3, NoteIsIn, DistinctAssumption
<1>2. CASE ~Prepare
  <2>1. Replaceable /\ moves'.list = moves.list /\ moves'.originals = moves.originals
    BY <1>2, BecomesReplaceable
  <2>2. ~Resolve
    BY <2>1 DEF Resolve, NoMoves, Replaceable
  <2>3. CASE Replace /\ p = job.path
    <3>1. Stage \in {"place", "refresh"} /\ pc = "replace" /\ plan' = plan
      BY <2>3 DEF Replace, Stage, PlanInv
    <3>2. disk'[p].note = job.new.note
      BY <2>3, WrittenNote
    <3>3. moves.list = Moving
      BY <2>1, <3>1 DEF Replaceable, MovesInv, Transit
    <3>4. Carried(p, job.new.note)
      BY <2>1, <2>3, <3>1, <3>2, <3>3 DEF JobInv
    <3>5. PICK n \in moves.list : disk'[p].note = moves.originals[n.from].note
      BY <3>1, <3>2, <3>4, CarriedCopies
    <3>6. n.from \in Paths /\ moves.originals[n.from] \in Pages
      BY <1>0, <2>1, <3>5 DEF MoveList, TypeInv, Shape, Replaceable
    <3>7. moves.originals[n.from].note \in NotesIn(moves.originals)
      BY <3>5, <3>6, NoteIsIn, DistinctAssumption
    <3> QED
      BY <2>1, <3>5, <3>7 DEF NotesIn
  <2>4. CASE ~(Replace /\ p = job.path)
    <3>1. disk'[p] = disk[p]
      <4>1. CASE Replace
        BY <1>0, <2>4, <4>1, ReplaceDoes
      <4>2. CASE ~Replace
        BY <1>0, <2>2, <4>2, OthersKeep
      <4> QED
        BY <4>1, <4>2
    <3>2. disk[p].note \in NotesIn(moves.originals)
      BY <2>1, <3>1 DEF CoveredInv, Prose
    <3> QED
      BY <2>1, <3>1, <3>2 DEF NotesIn
  <2> QED
    BY <2>3, <2>4
<1> QED
  BY <1>1, <1>2

LEMMA RemovedStep ==
    ASSUME TypeInv, PlanInv, CopiesInv, RemovedInv, [Next]_vars
    PROVE  RemovedInv'
<1> SUFFICES ASSUME pc' \in {"recover", "remove"} PROVE RemovedInv'
  BY DEF RemovedInv
<1> USE DEF env, store, bounds, run
<1>1. CASE RecoverBegin
  <2>1. PICK j \in Ops :
           /\ Recoverable(j)
           /\ taken' = [p \in Paths |-> IF p \in Journaled(j) THEN disk[p] ELSE Absent]
    BY <1>1 DEF RecoverBegin
  <2>2. UNCHANGED <<moves, manifest>> /\ pc' = "recover"
    BY <1>1 DEF RecoverBegin
  <2>3. ASSUME NEW p \in Remaining', taken'[p].note # NoNote
        PROVE  Replaceable /\ taken'[p].note \in NotesIn(moves.originals)
    <3>1. p \in Paths /\ p \in Journaled(j) /\ taken'[p] = disk[p] /\ disk[p] # Absent
      BY <2>1, <2>3 DEF Remaining
    <3>2. Matches(disk[p], journals[j].rows[p]) /\ p \notin OwnedPages(manifest)
      BY <2>1, <3>1 DEF Recoverable, Unpublished
    <3>3. disk[p].by \in Savers
      BY <3>1 DEF TypeInv, TypeOK, Trees, Pages
    <3>4. Made(p)
      BY <2>3, <3>1, <3>2, <3>3 DEF Made, Prose, Matches, Stamps
    <3>5. Replaceable /\ \E m \in moves.list : disk[p].note = moves.originals[m.from].note
      BY <3>1, <3>2, <3>4 DEF CopiesInv
    <3>6. PICK m \in moves.list : disk[p].note = moves.originals[m.from].note
      BY <3>5
    <3>7. m.from \in Paths /\ moves.originals[m.from] \in Pages
      BY <3>5, <3>6 DEF Replaceable, TypeInv, TypeOK, Shape, MoveList
    <3> QED
      BY <2>3, <3>1, <3>5, <3>6, <3>7, NoteIsIn, DistinctAssumption
  <2> QED
    BY <2>2, <2>3 DEF RemovedInv, Replaceable
<1>2. CASE RecoverCheck
  <2>1. PICK p \in Remaining : job' = [NoJob EXCEPT !.path = p, !.old = taken[p]]
    BY <1>2 DEF RecoverCheck
  <2>2. job'.path = p /\ job'.old = taken[p]
    BY <2>1 DEF NoJob
  <2>3. UNCHANGED <<moves, manifest, taken>> /\ pc = "recover"
    BY <1>2 DEF RecoverCheck
  <2> QED
    BY <2>2, <2>3 DEF RemovedInv, Remaining, Replaceable
<1>3. CASE RecoverUnlink
  <2>1. pc = "remove" /\ pc' = "recover" /\ UNCHANGED <<moves, manifest>>
    BY <1>3 DEF RecoverUnlink
  <2>2. \A p \in Remaining' : p \in Remaining /\ taken'[p] = taken[p]
    BY <1>3, RecoverUnlinkDoes DEF Remaining
  <2> QED
    BY <2>1, <2>2 DEF RemovedInv, Replaceable
<1>4. CASE SourceChange \/ Edit \/ Remove \/ UNCHANGED vars
  <2>1. UNCHANGED <<moves, manifest, taken, pc, job>>
    BY <1>4 DEF SourceChange, Edit, Remove, vars
  <2> QED
    BY <2>1 DEF RemovedInv, Remaining, Replaceable
<1>5. ASSUME Over PROVE FALSE
  BY <1>5, OverEnds
<1>6. ASSUME Begin \/ Open \/ Capture \/ SaveOriginal \/ Prepare \/ Unlink \/ Vacated \/ Placed
             \/ Skip \/ Commit \/ MarkCommitted \/ Cleanup \/ Resolve
      PROVE  FALSE
  BY <1>6 DEF Begin, Open, Capture, SaveOriginal, Prepare, Unlink, Vacated, Placed, Skip, Commit,
              MarkCommitted, Cleanup, Resolve
<1>7. ASSUME Place \/ Refresh PROVE FALSE
  BY <1>7, WriteDoes DEF Place, Refresh
<1>8. ASSUME Replace \/ Bind PROVE FALSE
  BY <1>8 DEF Replace, Bind, PlanInv
<1> QED
  BY <1>1, <1>2, <1>3, <1>4, <1>5, <1>6, <1>7, <1>8
     DEF Next, Sync, Moved, Written, Ended, Recovery, Outside, Over

(***************************************************************************)
(* Where the notes are that no author took back                            *)
(***************************************************************************)
NotesOf(ms) == {taken[m.from].note : m \in ms}

AliveInv ==
    /\ ProseKept
    /\ Stage \in {"planned", "apply", "save", "refresh", "committed"} \/ Droppable =>
          alive \subseteq NotesIn(disk)
    /\ pc = "unlink" => alive \subseteq NotesIn(disk) \cup NotesOf(Moving \ rest)
    /\ Stage = "place" =>
          alive \subseteq NotesIn(disk) \cup NotesOf(rest)
                            \cup (IF pc = "replace" THEN {job.new.note} ELSE {})

LEMMA AllInTheWiki == alive \subseteq NotesIn(disk) => AliveInv
BY DEF AliveInv, ProseKept

\* What was moved is among the originals while others still move.
LEMMA MovedIsSaved ==
    ASSUME TypeInv, PlanInv, MovesInv, Stage \in {"unlink", "place"}
    PROVE  ~Droppable /\ NotesOf(Moving) \subseteq NotesIn(moves.originals) \cup {NoNote}
<1>1. moves.state = "prepared" /\ moves.names = plan.new /\ Moving # {} /\ manifest = plan.old
  BY DEF MovesInv, PlanInv, Planning, Transit
<1>2. ~Droppable
  BY <1>1, MovesRename DEF Droppable, Replaceable
<1>3. ASSUME NEW m \in Moving, taken[m.from].note # NoNote
      PROVE  taken[m.from].note \in NotesIn(moves.originals)
  <2>1. moves.list = Moving /\ moves.originals[m.from] = taken[m.from] /\ m.from \in Paths
    BY <1>1, MovesAre DEF MovesInv, Transit
  <2>2. moves.originals[m.from] \in Pages
    BY <1>1, <2>1 DEF TypeInv, Shape
  <2> QED
    BY <1>3, <2>1, <2>2, NoteIsIn, DistinctAssumption
<1> QED
  BY <1>2, <1>3 DEF NotesOf

\* Authors take back no note but what they replace or remove.
LEMMA AuthorsHold ==
    ASSUME TypeInv, Edit \/ Remove, [Next]_vars, NEW S, alive \subseteq NotesIn(disk) \cup S
    PROVE  alive' \subseteq NotesIn(disk)' \cup S
<1>0. alive' \subseteq Notes /\ NoNote \notin Notes /\ NotesIn(disk)' = NotesIn(disk')
  BY TypeStep, DistinctAssumption DEF TypeInv, TypeOK, NotesIn
<1> SUFFICES ASSUME NEW a \in alive', a \notin S PROVE a \in NotesIn(disk')
  BY <1>0
<1>1. ASSUME NEW p \in Paths, disk'[p] # Absent, disk'[p].note = a PROVE a \in NotesIn(disk')
  BY <1>0, <1>1, NoteIsIn
<1>2. ASSUME a \in alive
      PROVE  \E p \in Paths : disk[p] # Absent /\ disk[p].note = a /\ a # NoNote
  BY <1>0, <1>2 DEF NotesIn
<1>3. CASE Edit
  <2>1. PICK q \in Paths :
           /\ \A p \in Paths : p # q => disk'[p] = disk[p]
           /\ disk'[q] \in Pages
           /\ \/ disk'[q].note = disk[q].note /\ alive' = alive
              \/ alive' = (alive \ NoteAt(q)) \cup {disk'[q].note}
              \/ disk[q] = Absent /\ alive' = alive \cup {disk'[q].note}
    BY <1>3, EditDoes
  <2>2. CASE a = disk'[q].note
    BY <1>1, <2>1, <2>2, DistinctAssumption
  <2>3. CASE a # disk'[q].note
    <3>1. a \in alive
      BY <2>1, <2>3
    <3>2. PICK p \in Paths : disk[p] # Absent /\ disk[p].note = a /\ a # NoNote
      BY <1>2, <3>1
    <3>3. p # q
      BY <2>1, <2>3, <3>2 DEF NoteAt
    <3> QED
      BY <1>1, <2>1, <3>2, <3>3
  <2> QED
    BY <2>2, <2>3
<1>4. CASE Remove
  <2>1. PICK q \in Existing : /\ alive' = alive \ NoteAt(q)
                              /\ \A p \in Paths : disk'[p] = IF p = q THEN Absent ELSE disk[p]
    BY <1>4, RemoveDoes
  <2>2. PICK p \in Paths : disk[p] # Absent /\ disk[p].note = a /\ a # NoNote
    BY <1>2, <2>1
  <2>3. p # q
    BY <2>1, <2>2 DEF NoteAt
  <2> QED
    BY <1>1, <2>1, <2>2, <2>3
<1> QED
  BY <1>3, <1>4

\* A write covers nothing that it does not bring along.
LEMMA WritesHold ==
    ASSUME TypeInv, PlanInv, JobInv, Replace
    PROVE  /\ NotesIn(disk) \subseteq NotesIn(disk)'
           /\ job.new.note \in NotesIn(disk)' \cup {NoNote}
<1>0. NotesIn(disk)' = NotesIn(disk')
  BY DEF NotesIn
<1>1. /\ pc = "replace" /\ job.path \in Paths /\ job.new \in Pages
      /\ Same(disk[job.path], job.old)
      /\ \A p \in Paths : disk'[p] = IF p = job.path THEN job.new ELSE disk[p]
  BY ReplaceDoes
<1>2. disk[job.path] \in Pages \cup {Absent} /\ job.old \in Pages \cup {Absent}
  BY <1>1 DEF TypeInv, TypeOK, Trees
<1>3. job.new.note \in NotesIn(disk') \cup {NoNote}
  BY <1>1, NoteIsIn, DistinctAssumption
<1>4. disk[job.path] # Absent => disk[job.path].note = job.new.note
  BY <1>1, <1>2, SameHold DEF JobInv, PlanInv
<1>5. ASSUME NEW p \in Paths, disk[p] # Absent, disk[p].note # NoNote
      PROVE  disk[p].note \in NotesIn(disk')
  <2>1. CASE p = job.path
    BY <1>3, <1>4, <1>5, <2>1
  <2>2. CASE p # job.path
    BY <1>1, <1>5, <2>2, NoteIsIn
  <2> QED
    BY <2>1, <2>2
<1> QED
  BY <1>0, <1>3, <1>5 DEF NotesIn

\* The notes left when one page is taken away.
LEMMA LeftWithout ==
    ASSUME NEW q, \A p \in Paths : disk'[p] = IF p = q THEN Absent ELSE disk[p]
    PROVE  NotesIn(disk) \subseteq NotesIn(disk)' \cup
              {disk[p].note : p \in {u \in Paths : u = q /\ disk[u] # Absent}}
<1>1. ASSUME NEW p \in Paths, p # q, disk[p] # Absent, disk[p].note # NoNote
      PROVE  disk[p].note \in NotesIn(disk')
  BY <1>1, NoteIsIn
<1> QED
  BY <1>1 DEF NotesIn

LEMMA AliveMoved ==
    ASSUME TypeInv, PlanInv, MovesInv, JobInv, AliveInv, [Next]_vars,
           Unlink \/ Vacated \/ Place \/ Placed \/ Replace \/ Bind
    PROVE  AliveInv'
<1> USE DEF env, store, bounds, run
<1>0. alive' = alive /\ NoNote \notin alive
  <2>1. alive' = alive
    BY WithinKeeps DEF Within, Vacated, Placed
  <2> QED
    BY <2>1, DistinctAssumption DEF TypeInv, TypeOK
<1>1. CASE Unlink
  <2>1. PICK m \in rest :
           /\ m \in Moving /\ m.from \in Paths /\ rest' = rest \ {m}
           /\ Same(disk[m.from], taken[m.from]) /\ taken[m.from] \in Pages
           /\ \A p \in Paths : disk'[p] = IF p = m.from THEN Absent ELSE disk[p]
    BY <1>1, UnlinkDoes
  <2>2. UNCHANGED <<manifest, moves, plan, taken>> /\ Stage = "unlink" /\ Stage' = "unlink"
        /\ pc = "unlink" /\ pc' = "unlink" /\ Moving' = Moving
    BY <1>1 DEF Unlink, Stage, Moving
  <2>3. disk[m.from] # Absent => disk[m.from].note = taken[m.from].note
    BY <2>1, SameHold DEF TypeInv, TypeOK, Trees
  <2>4. NotesIn(disk) \subseteq NotesIn(disk)' \cup {taken[m.from].note}
    BY <2>1, <2>3, LeftWithout
  <2>5. NotesOf(Moving \ rest) \cup {taken[m.from].note} \subseteq NotesOf(Moving \ rest')
    BY <2>1 DEF NotesOf
  <2>6. alive \subseteq NotesIn(disk)' \cup NotesOf(Moving \ rest')
    BY <2>2, <2>4, <2>5 DEF AliveInv
  <2>7. NotesOf(Moving \ rest') \subseteq NotesOf(Moving) /\ NotesOf(Moving \ rest)' = NotesOf(Moving \ rest')
    BY <2>2 DEF NotesOf
  <2>8. ~Droppable /\ NotesOf(Moving) \subseteq NotesIn(moves.originals) \cup {NoNote}
    BY <2>2, MovedIsSaved
  <2>9. ~Droppable' /\ NotesIn(moves.originals)' = NotesIn(moves.originals)
    BY <2>2, <2>8 DEF Droppable, Replaceable, NotesIn
  <2>10. ProseKept'
    BY <1>0, <2>6, <2>7, <2>8, <2>9 DEF ProseKept
  <2> QED
    BY <1>0, <2>2, <2>6, <2>7, <2>9, <2>10 DEF AliveInv
<1>2. CASE Vacated \/ Place \/ (Bind /\ Stage = "place")
  <2>1. UNCHANGED <<disk, manifest, moves, plan, taken>> /\ Stage \in {"unlink", "place"}
        /\ Stage' = "place"
    BY <1>2, WithinKeeps DEF Vacated, Place, Bind, Within, Stage, PlanInv
  <2>2. NotesIn(disk)' = NotesIn(disk) /\ NotesIn(moves.originals)' = NotesIn(moves.originals)
    BY <2>1 DEF NotesIn
  <2>3. ProseKept' /\ ~Droppable'
    BY <1>0, <2>1, <2>2, MovedIsSaved DEF ProseKept, AliveInv, Droppable, Replaceable
  <2>4. alive \subseteq NotesIn(disk) \cup NotesOf(rest')
                            \cup (IF pc' = "replace" THEN {job'.new.note} ELSE {})
    <3>1. CASE Vacated
      <4>1. pc = "unlink" /\ rest = {} /\ rest' = Moving
        BY <3>1 DEF Vacated
      <4>2. Moving \ rest = Moving
        BY <4>1
      <4> QED
        BY <4>1, <4>2 DEF AliveInv
    <3>2. CASE Place
      <4>1. PICK m \in rest : /\ Write(m.to, Absent, [taken[m.from] EXCEPT !.by = op], "place")
                              /\ rest' = rest \ {m}
        BY <3>2 DEF Place
      <4>2. taken[m.from] \in Pages /\ pc = "place" /\ Stage = "place"
        BY <3>2, <4>1 DEF Place, Stage, TypeInv, Shape, Captured, Working
      <4>3. pc' = "replace" /\ job'.new.note = taken[m.from].note
        BY <4>1, <4>2, WriteDoes DEF Pages
      <4>4. NotesOf(rest) \subseteq NotesOf(rest') \cup {job'.new.note}
        BY <4>1, <4>3 DEF NotesOf
      <4> QED
        BY <4>2, <4>3, <4>4 DEF AliveInv
    <3>3. CASE Bind /\ Stage = "place"
      <4>1. pc = "bind" /\ rest' = rest /\ pc' = "place"
        BY <3>3 DEF Bind, Stage
      <4> QED
        BY <3>3, <4>1 DEF AliveInv
    <3> QED
      BY <1>2, <3>1, <3>2, <3>3
  <2>5. NotesOf(rest)' = NotesOf(rest')
    BY <2>1 DEF NotesOf
  <2>6. pc' # "unlink"
    BY <2>1 DEF Stage
  <2> QED
    BY <1>0, <2>1, <2>2, <2>3, <2>4, <2>5, <2>6 DEF AliveInv
<1>3. CASE Placed
  <2>1. pc = "place" /\ Stage = "place" /\ rest = {} /\ disk' = disk
    BY <1>3 DEF Placed, Stage
  <2>2. alive \subseteq NotesIn(disk)
    BY <2>1 DEF AliveInv, NotesOf
  <2> QED
    BY <1>0, <2>1, <2>2, AllInTheWiki DEF AliveInv, ProseKept, NotesIn
<1>4. CASE Replace /\ Stage = "place"
  <2>1. pc = "replace" /\ pc' # "replace" /\ pc' # "unlink" /\ Stage' = "place" /\ rest' = rest
        /\ UNCHANGED <<manifest, moves, taken>>
    BY <1>4 DEF Replace, Stage
  <2>2. NotesIn(disk) \cup {job.new.note} \subseteq NotesIn(disk)' \cup {NoNote}
    BY <1>4, WritesHold
  <2>3. NotesOf(rest)' = NotesOf(rest) /\ NotesIn(moves.originals)' = NotesIn(moves.originals)
    BY <2>1 DEF NotesOf, NotesIn
  <2>4. ~Droppable'
    BY <1>4, <2>1, MovedIsSaved DEF Droppable, Replaceable
  <2>5. alive' \subseteq NotesIn(disk)' \cup NotesOf(rest)'
    BY <1>0, <1>4, <2>1, <2>2, <2>3 DEF AliveInv
  <2>6. ProseKept'
    BY <1>0, <2>2, <2>3 DEF ProseKept, AliveInv
  <2> QED
    BY <2>1, <2>4, <2>5, <2>6 DEF AliveInv
<1>5. CASE (Replace \/ Bind) /\ Stage # "place"
  <2>1. Stage = "refresh"
    BY <1>5 DEF Replace, Bind, Stage, PlanInv
  <2>2. NotesIn(disk) \subseteq NotesIn(disk)'
    <3>1. CASE Replace
      BY <3>1, WritesHold
    <3>2. CASE Bind
      BY <3>2 DEF Bind, NotesIn
    <3> QED
      BY <1>5, <3>1, <3>2
  <2>3. alive' \subseteq NotesIn(disk)'
    BY <1>0, <2>1, <2>2 DEF AliveInv
  <2> QED
    BY <2>3, AllInTheWiki DEF AliveInv, ProseKept
<1> QED
  BY <1>1, <1>2, <1>3, <1>4, <1>5

LEMMA AliveStep ==
    ASSUME TypeInv, Recovering, PlanInv, MovesInv, JobInv, CoveredInv, RemovedInv, AliveInv,
           [Next]_vars
    PROVE  AliveInv'
<1> USE DEF env, store, bounds, run
<1>0. NoNote \notin alive /\ disk \in Trees
  BY DistinctAssumption DEF TypeInv, TypeOK
<1>1. ASSUME alive' \subseteq NotesIn(disk)' PROVE AliveInv'
  BY <1>1 DEF AliveInv, ProseKept
<1>2. CASE Begin
  <2>1. moves.state = "none" /\ UNCHANGED <<disk, alive>>
    BY <1>2 DEF Begin
  <2>2. NotesIn(moves.originals) = {}
    BY <2>1 DEF MovesInv, NotesIn, Nothing
  <2> QED
    BY <1>1, <2>1, <2>2 DEF AliveInv, ProseKept, NotesIn
<1>3. CASE \/ Open \/ Capture \/ SaveOriginal \/ Prepare \/ Refresh \/ Skip \/ Commit
           \/ MarkCommitted \/ Cleanup
  <2>1. Stage \in {"planned", "apply", "save", "refresh", "committed"} /\ UNCHANGED <<disk, alive>>
    BY <1>3 DEF Open, Capture, SaveOriginal, Prepare, Refresh, Skip, Commit, MarkCommitted, Cleanup,
                Stage
  <2> QED
    BY <1>1, <2>1 DEF AliveInv, NotesIn
<1>4. CASE Unlink \/ Vacated \/ Place \/ Placed \/ Replace \/ Bind
  BY <1>4, AliveMoved
<1>5. CASE Over \/ RecoverBegin \/ RecoverCheck
  <2>1. UNCHANGED <<disk, alive, moves, manifest>> /\ Stage' \in {"idle", "recover", "remove"}
        /\ pc' \in {"idle", "recover", "remove"}
    BY <1>5, OverEnds DEF RecoverBegin, RecoverCheck, Stage
  <2> QED
    BY <2>1 DEF AliveInv, ProseKept, Droppable, Replaceable, NotesIn
<1>6. CASE SourceChange \/ UNCHANGED vars
  <2>1. UNCHANGED <<disk, alive, moves, manifest, pc, job, taken, plan, rest>>
    BY <1>6 DEF SourceChange, vars
  <2>2. Moving' = Moving /\ Stage' = Stage
    BY <2>1 DEF Moving, Stage
  <2> QED
    BY <2>1, <2>2 DEF AliveInv, ProseKept, Droppable, Replaceable, NotesIn, NotesOf
<1>7. CASE Edit \/ Remove
  <2>1. UNCHANGED <<moves, manifest, pc, job, taken, plan, rest>>
    BY <1>7 DEF Edit, Remove
  <2>2. /\ Moving' = Moving /\ Stage' = Stage /\ Droppable' = Droppable
        /\ NotesIn(moves.originals)' = NotesIn(moves.originals)
        /\ NotesOf(rest)' = NotesOf(rest)
        /\ NotesOf(Moving \ rest)' = NotesOf(Moving \ rest)
    BY <2>1 DEF Moving, Stage, Droppable, Replaceable, NotesIn, NotesOf
  <2>3. \A S : alive \subseteq NotesIn(disk) \cup S => alive' \subseteq NotesIn(disk)' \cup S
    BY <1>7, AuthorsHold
  <2>4. alive \subseteq NotesIn(disk) => alive' \subseteq NotesIn(disk)'
    <3>1. alive \subseteq NotesIn(disk) \cup {} => alive' \subseteq NotesIn(disk)' \cup {}
      BY <2>3
    <3> QED
      BY <3>1
  <2>5. ProseKept'
    BY <2>2, <2>3 DEF AliveInv, ProseKept
  <2>6. pc' = "unlink" => alive' \subseteq NotesIn(disk)' \cup NotesOf(Moving \ rest)'
    BY <2>1, <2>2, <2>3 DEF AliveInv
  <2>7. ASSUME Stage' = "place"
        PROVE  alive' \subseteq NotesIn(disk)' \cup NotesOf(rest)'
                            \cup (IF pc' = "replace" THEN {job'.new.note} ELSE {})
    <3> DEFINE S == NotesOf(rest) \cup (IF pc = "replace" THEN {job.new.note} ELSE {})
    <3>1. alive \subseteq NotesIn(disk) \cup S
      BY <2>2, <2>7 DEF AliveInv
    <3>2. alive' \subseteq NotesIn(disk)' \cup S
      BY <2>3, <3>1
    <3> QED
      BY <2>1, <2>2, <3>2
  <2> QED
    BY <2>2, <2>4, <2>5, <2>6, <2>7 DEF AliveInv
<1>8. CASE RecoverUnlink
  <2>1. /\ pc = "remove" /\ job.path \in Remaining /\ Same(disk[job.path], taken[job.path])
        /\ UNCHANGED <<manifest, moves, alive>>
        /\ \A p \in Paths : disk'[p] = IF p = job.path THEN Absent ELSE disk[p]
    BY <1>8, RecoverUnlinkDoes DEF Recovering, RemovedInv
  <2>2. pc' = "recover" /\ Stage' = "recover"
    BY <1>8 DEF RecoverUnlink, Stage
  <2>3. taken[job.path] \in Pages /\ disk[job.path] \in Pages \cup {Absent}
    BY <2>1 DEF Remaining, TypeInv, TypeOK, Trees
  <2>4. disk[job.path] # Absent => disk[job.path].note = taken[job.path].note
    BY <2>1, <2>3, SameHold
  <2>5. NotesIn(disk) \subseteq NotesIn(disk)' \cup {taken[job.path].note}
    BY <2>1, <2>4, LeftWithout
  <2>6. \/ taken[job.path].note = NoNote
        \/ Replaceable /\ taken[job.path].note \in NotesIn(moves.originals)
    BY <2>1 DEF RemovedInv
  <2>7. NotesIn(moves.originals)' = NotesIn(moves.originals)
    BY <2>1 DEF NotesIn
  <2>8. ProseKept'
    BY <1>0, <2>1, <2>5, <2>6, <2>7 DEF AliveInv, ProseKept
  <2>9. ASSUME Droppable' PROVE alive' \subseteq NotesIn(disk)'
    <3>1. Droppable /\ ~Replaceable
      BY <2>1, <2>9 DEF Droppable, Replaceable
    <3> QED
      BY <1>0, <2>1, <2>5, <2>6, <3>1 DEF AliveInv
  <2> QED
    BY <2>2, <2>8, <2>9 DEF AliveInv
<1>9. CASE Resolve
  <2>1. moves.state # "none" /\ alive' = alive
    BY <1>9, ResolveDoes
  <2>2. CASE manifest = moves.names \/ moves.state = "capturing"
    <3>1. disk' = disk /\ Droppable
      BY <1>9, <2>1, <2>2, ResolveDoes DEF Droppable, Replaceable
    <3> QED
      BY <1>1, <2>1, <3>1 DEF AliveInv, NotesIn
  <2>3. CASE ~(manifest = moves.names \/ moves.state = "capturing")
    <3>1. /\ Replaceable
          /\ \A m \in moves.list : \A p \in {m.from, m.to} :
                disk[p] # Absent => disk[p].by <= MaxSyncs
          /\ \A p \in Paths :
                \/ /\ \A m \in moves.list : p \notin {m.from, m.to}
                   /\ disk'[p] = disk[p]
                \/ /\ \A m \in moves.list : m.from # p
                   /\ \E m \in moves.list : m.to = p
                   /\ disk'[p] = Absent
                \/ /\ \E m \in moves.list : m.from = p
                   /\ moves.originals[p] \in Pages /\ disk'[p] \in Pages
                   /\ disk'[p].by = 0
                   /\ disk'[p].note = moves.originals[p].note
                   /\ disk'[p].owner = moves.originals[p].owner
      BY <1>9, <2>1, <2>3, ResolveDoes DEF Replaceable
    <3>2. ASSUME NEW p \in Paths, moves.originals[p] # Absent, moves.originals[p].note # NoNote
          PROVE  moves.originals[p].note \in NotesIn(disk')
      <4>1. \E m \in moves.list : m.from = p
        BY <3>2 DEF MovesInv
      <4>2. disk'[p] \in Pages /\ disk'[p].note = moves.originals[p].note
        BY <3>1, <4>1
      <4> QED
        BY <3>2, <4>2, NoteIsIn, DistinctAssumption
    <3>3. NotesIn(moves.originals) \subseteq NotesIn(disk')
      BY <3>2 DEF NotesIn
    <3>4. ASSUME NEW p \in Paths, disk[p] # Absent, disk[p].note # NoNote
          PROVE  disk[p].note \in NotesIn(disk')
      <4>1. CASE \A m \in moves.list : p \notin {m.from, m.to}
        <5>1. disk'[p] = disk[p]
          BY <3>1, <4>1
        <5> QED
          BY <3>4, <5>1, NoteIsIn
      <4>2. CASE \E m \in moves.list : p \in {m.from, m.to}
        <5>1. disk[p].note \in NotesIn(moves.originals)
          BY <3>1, <3>4, <4>2 DEF CoveredInv, Prose
        <5> QED
          BY <3>3, <5>1
      <4> QED
        BY <4>1, <4>2
    <3>5. NotesIn(disk) \subseteq NotesIn(disk')
      BY <3>4 DEF NotesIn
    <3>6. alive' \subseteq NotesIn(disk)'
      BY <2>1, <3>3, <3>5 DEF AliveInv, ProseKept, NotesIn
    <3> QED
      BY <1>1, <3>6
  <2> QED
    BY <2>2, <2>3
<1> QED
  BY <1>2, <1>3, <1>4, <1>5, <1>6, <1>7, <1>8, <1>9
     DEF Next, Sync, Moved, Written, Ended, Recovery, Outside, Over

(***************************************************************************)
(* What authors wrote is kept                                              *)
(***************************************************************************)
KeptInv ==
    /\ TypeInv /\ Recovering
    /\ PlanInv /\ MovesInv /\ JobInv
    /\ StampInv /\ CopiesInv /\ LeavingInv
    /\ SavedInv /\ CoveredInv /\ RemovedInv /\ AliveInv

LEMMA KeptInit == Init => KeptInv
<1> SUFFICES ASSUME Init PROVE KeptInv
  OBVIOUS
<1>1. /\ pc = "idle" /\ Stage = "idle" /\ moves = NoMoves /\ manifest = FirstMap
      /\ moves.state = "none" /\ moves.list = {} /\ moves.originals = Nothing
  BY NoMovesFresh DEF Init, Stage
<1>2. TypeInv /\ Recovering
  BY <1>1, TypeInit DEF Recovering
<1>3. PlanInv
  <2>1. source \in Targets
    BY DEF Init
  <2> QED
    BY <1>1, <2>1, SyncAssumption DEF PlanInv, Planning, Transit
<1>4. MovesInv /\ JobInv
  BY <1>1 DEF MovesInv, JobInv, Nothing, Transit
<1>5. \A p \in Paths : Stamps(p) = {}
  <2>1. journals = [j \in Ops |-> NoJournal] /\ NoJournal.rows = [p \in Paths |-> {}]
    BY DEF Init, NoJournal
  <2> QED
    BY <2>1 DEF Stamps
<1>6. \A p \in Paths : p \in OwnedPages(FirstMap) =>
         LET o == CHOOSE u \in Owners : FirstMap[u] = p IN
         disk[p] = [owner |-> o, note |-> [n |-> 0, home |-> o], gen |-> 0, by |-> 0]
  BY DEF Init
<1>7. \A p \in Paths : p \notin OwnedPages(FirstMap) => disk[p] = Absent
  BY DEF Init
<1>8. StampInv
  <2>1. ASSUME NEW p \in Paths, disk[p] # Absent PROVE disk[p].by = 0
    <3>1. p \in OwnedPages(FirstMap)
      BY <1>7, <2>1
    <3> DEFINE o == CHOOSE u \in Owners : FirstMap[u] = p
    <3>2. disk[p] = [owner |-> o, note |-> [n |-> 0, home |-> o], gen |-> 0, by |-> 0]
      BY <1>6, <3>1
    <3> HIDE DEF o
    <3> QED
      BY <3>2
  <2>2. MaxSyncs \in Nat /\ edits = 0
    BY ConstantTypes DEF Init
  <2>3. 0 <= MaxSyncs + edits
    BY <2>2
  <2> QED
    BY <1>1, <1>5, <2>1, <2>3 DEF StampInv, Planning, Transit
<1>9. CopiesInv /\ LeavingInv /\ SavedInv /\ CoveredInv /\ RemovedInv
  BY <1>1, <1>5 DEF CopiesInv, LeavingInv, SavedInv, CoveredInv, RemovedInv, Made, Replaceable,
                    Transit
<1>10. ASSUME NEW o \in Current(FirstMap) PROVE [n |-> 0, home |-> o] \in NotesIn(disk)
  <2> DEFINE p == FirstMap[o]
  <2> DEFINE u == CHOOSE v \in Owners : FirstMap[v] = p
  <2>1. o \in Owners /\ p \in Paths /\ p # NoPath /\ p \in OwnedPages(FirstMap)
    BY <1>10, SyncAssumption DEF Current, Maps, OwnedPages
  <2>2. u \in Owners /\ FirstMap[u] = p
    BY <2>1
  <2>3. u = o
    BY <2>1, <2>2, SyncAssumption DEF Injective
  <2>4. disk[p] = [owner |-> o, note |-> [n |-> 0, home |-> o], gen |-> 0, by |-> 0]
    BY <1>6, <2>1, <2>3
  <2>5. disk[p].note = [n |-> 0, home |-> o] /\ disk[p] # Absent
    <3>1. [n |-> 0, home |-> o] \in Notes
      BY <2>1, ConstantTypes DEF Notes
    <3>2. 0 \in Savers /\ 0 \in 0 .. MaxSyncs
      BY ConstantTypes DEF Savers
    <3>3. disk[p] \in Pages
      BY <2>1, <2>4, <3>1, <3>2 DEF Pages
    <3> QED
      BY <2>4, <3>3, DistinctAssumption
  <2>6. disk[p].note # NoNote
    BY <1>2, <2>1, <2>5, DistinctAssumption DEF TypeInv, TypeOK, Notes, Init
  <2> QED
    BY <2>1, <2>5, <2>6, NoteIsIn
<1>11. AliveInv
  <2>1. alive \subseteq NotesIn(disk)
    BY <1>10 DEF Init
  <2> QED
    BY <2>1, AllInTheWiki
<1> QED
  BY <1>2, <1>3, <1>4, <1>8, <1>9, <1>11 DEF KeptInv

LEMMA KeptStep == KeptInv /\ [Next]_vars => KeptInv'
BY TypeStep, RecoveringStep, PlanStep, MovesStep, JobStep, StampStep, CopiesStep, LeavingStep,
   SavedStep, CoveredStep, RemovedStep, AliveStep DEF KeptInv

\* Whatever the names of the source, and wherever a sync, its failure or its
\* recovery is killed or meets an author: what authors wrote and did not take
\* back is in the wiki, or among the originals of a transition.
THEOREM ProseIsKept == Spec => []ProseKept
<1>1. KeptInv => ProseKept
  BY DEF KeptInv, AliveInv
<1> QED
  BY <1>1, KeptInit, KeptStep, PTL DEF Spec

(***************************************************************************)
(* Whose page is whose, as long as no author removes one                   *)
(***************************************************************************)
Belongs(page, o) == page # Absent /\ page.owner \in {NoOwner, o}
Follows(page) == page.note # NoNote => page.note.home \in {NoOwner, page.owner}

Sources(ms) == {m.from : m \in ms}
Ends(ms) == {m.to : m \in ms}

\* What is written about one member is nowhere on the page of another.
FollowsInv ==
    /\ \A p \in Paths : disk[p] # Absent => Follows(disk[p])
    /\ \A p \in Paths : moves.originals[p] # Absent => Follows(moves.originals[p])
    /\ \A p \in Paths : taken[p] # Absent => Follows(taken[p])
    /\ pc = "replace" => Follows(job.new)

\* The page at a path, or its original while that can be put back.
Keeper(p) == IF Replaceable /\ p \in Sources(moves.list) THEN moves.originals[p] ELSE disk[p]

\* Every member of the committed names has its page, or the original of it.
AuthorityInv ==
    \A o \in Current(manifest) :
       /\ Belongs(Keeper(manifest[o]), o)
       /\ Replaceable /\ manifest[o] \in Ends(moves.list) => manifest[o] \in Sources(moves.list)

\* What was captured is the moving member's, and nobody is moved over.
CapturedInv ==
    Stage \in Transit =>
       /\ \A m \in Moving : Belongs(taken[m.from], m.owner)
       /\ Ends(Moving) \cap OwnedPages(plan.old) \subseteq Sources(Moving)

\* A member with nothing to write has its page, now or since it was written.
SettledInv ==
    /\ Stage \in Planning \ {"refresh"} =>
          \A o \in Current(plan.new) \ todo : plan.old[o] = plan.new[o]
    /\ Stage = "refresh" =>
          \A o \in Current(plan.new) \ todo :
             (pc = "replace" /\ job.path = plan.new[o]) \/ Belongs(disk[plan.new[o]], o)

\* A write brings the page of the member at that name.
BroughtInv ==
    pc = "replace" =>
       /\ job.then = "place" => \E m \in Moving : job.path = m.to
       /\ job.then = "refresh" =>
             \E o \in Current(plan.new) :
                /\ job.path = plan.new[o] /\ job.new.owner = o
                /\ plan.old[o] = plan.new[o] \/ job.old = Absent \/ job.path \in Ends(Moving)

OwnersInv == FollowsInv /\ AuthorityInv /\ CapturedInv /\ SettledInv /\ BroughtInv

\* Only an author removes a page for good.
LEMMA RemovalsGrow ==
    ASSUME TypeInv, PlanInv, [Next]_vars, removals' = 0
    PROVE  removals = 0 /\ ~Remove
<1> USE DEF env, store, bounds, run
<1>1. CASE Within
  <2>1. removals' = removals
    BY <1>1, WithinKeeps
  <2> QED
    BY <2>1 DEF Remove, TypeInv, TypeOK
<1>2. CASE Over
  BY <1>2, OverEnds DEF Remove, TypeInv, TypeOK
<1>3. CASE Begin \/ Open \/ Capture \/ SaveOriginal \/ Prepare \/ Vacated \/ Placed \/ Commit
           \/ MarkCommitted \/ Cleanup
  <2>1. removals' = removals
    BY <1>3 DEF Begin, Open, Capture, SaveOriginal, Prepare, Vacated, Placed, Commit,
                MarkCommitted, Cleanup
  <2> QED
    BY <2>1 DEF Remove, TypeInv, TypeOK
<1>4. CASE RecoverBegin \/ RecoverCheck \/ RecoverUnlink \/ SourceChange \/ Edit \/ Resolve
           \/ UNCHANGED vars
  <2>1. removals' = removals
    BY <1>4 DEF RecoverBegin, RecoverCheck, RecoverUnlink, SourceChange, Edit, Resolve, vars
  <2> QED
    BY <2>1 DEF Remove, TypeInv, TypeOK
<1>5. CASE Remove
  <2>1. removals' = removals + 1 /\ removals \in Nat
    BY <1>5 DEF Remove, TypeInv, TypeOK
  <2> QED
    BY <2>1
<1> QED
  BY <1>1, <1>2, <1>3, <1>4, <1>5
     DEF Next, Sync, Moved, Written, Ended, Recovery, Outside, Over, Within

\* A member whose name stays has its page, whatever moves.
LEMMA StayersStand ==
    ASSUME TypeInv, PlanInv, MovesInv, AuthorityInv, Stage \in Planning,
           NEW o \in Current(plan.new), plan.old[o] = plan.new[o]
    PROVE  Belongs(disk[plan.new[o]], o)
<1> DEFINE p == plan.new[o]
<1>1. manifest = plan.old /\ Separate(plan.old, plan.new) /\ o \in Current(manifest)
  BY DEF PlanInv, Current
<1>2. Belongs(Keeper(p), o)
  BY <1>1 DEF AuthorityInv
<1>3. ASSUME Replaceable PROVE p \notin Sources(moves.list)
  <2>1. Stage \in {"unlink", "place", "refresh"} /\ Moving # {}
    BY <1>3 DEF Replaceable, MovesInv, Planning, Transit
  <2>2. moves.list = Moving
    BY <2>1 DEF MovesInv, Transit
  <2>3. \A m \in Moving : p # m.from
    BY <1>1, StaysPut DEF TypeInv
  <2> QED
    BY <2>2, <2>3 DEF Sources
<1> QED
  BY <1>2, <1>3 DEF Keeper

\* A page that may be written anew is the member's own.
LEMMA ReadableFits ==
    ASSUME TypeInv, PlanInv, MovesInv, AuthorityInv, CapturedInv, pc = "refresh",
           NEW o \in todo, Readable(o), disk[plan.new[o]] # Absent
    PROVE  Belongs(disk[plan.new[o]], o)
<1>1. Stage = "refresh" /\ o \in Current(plan.new)
  BY ReadableSays DEF Stage
<1>2. CASE plan.old[o] = plan.new[o]
  BY <1>1, <1>2, StayersStand DEF Planning, Transit
<1>3. CASE \E m \in Moving : m.owner = o /\ Expected(o) = taken[m.from]
  <2>1. PICK m \in Moving : m.owner = o /\ Expected(o) = taken[m.from]
    BY <1>3
  <2>2. Belongs(taken[m.from], o)
    BY <1>1, <2>1 DEF CapturedInv, Transit
  <2>3. disk[plan.new[o]].owner = Expected(o).owner
    BY ReadableSays
  <2> QED
    BY <2>1, <2>2, <2>3 DEF Belongs
<1> QED
  BY <1>2, <1>3, ReadableSays

\* Steps that capture no page.
LEMMA TakenStays ==
    ASSUME TypeInv, PlanInv, [Next]_vars, ~Capture, ~RecoverBegin, NEW p \in Paths
    PROVE  taken'[p] = taken[p] \/ taken'[p] = Absent
<1> USE DEF env, store, bounds, run
<1>1. CASE Within
  BY <1>1, WithinKeeps
<1>2. CASE Over
  BY <1>2, OverEnds DEF Forget, Nothing
<1>3. CASE RecoverUnlink
  BY <1>3, RecoverUnlinkDoes
<1>4. CASE Begin \/ Open \/ SaveOriginal \/ Prepare \/ Vacated \/ Placed \/ Commit \/ MarkCommitted
           \/ Cleanup \/ RecoverCheck
  BY <1>4 DEF Begin, Open, SaveOriginal, Prepare, Vacated, Placed, Commit, MarkCommitted, Cleanup,
              RecoverCheck
<1>5. CASE SourceChange \/ Edit \/ Remove \/ Resolve \/ UNCHANGED vars
  BY <1>5 DEF SourceChange, Edit, Remove, Resolve, vars
<1> QED
  BY <1>1, <1>2, <1>3, <1>4, <1>5
     DEF Next, Sync, Moved, Written, Ended, Recovery, Outside, Over, Within

\* Steps that save no original.
LEMMA OriginalsStay ==
    ASSUME TypeInv, PlanInv, MovesInv, [Next]_vars, ~SaveOriginal, NEW p \in Paths
    PROVE  moves'.originals[p] = moves.originals[p] \/ moves'.originals[p] = Absent
<1>1. CASE Capture \/ Cleanup \/ Resolve
  <2>1. moves' = moves \/ moves'.originals = Nothing
    <3>1. CASE Capture
      <4>1. moves.originals = Nothing
        BY <3>1 DEF Capture, MovesInv, Stage
      <4>2. moves' = moves \/ moves' = [NoMoves EXCEPT !.state = "capturing", !.list = Moving,
                                                      !.names = plan.new]
        BY <3>1 DEF Capture
      <4> QED
        BY <4>2 DEF NoMoves
    <3>2. CASE Cleanup \/ Resolve
      BY <3>2 DEF Cleanup, Resolve, NoMoves
    <3> QED
      BY <1>1, <3>1, <3>2
  <2> QED
    BY <2>1 DEF Nothing
<1>2. CASE Prepare \/ Placed \/ MarkCommitted
  BY <1>2 DEF Prepare, Placed, MarkCommitted, TypeInv, TypeOK
<1>3. CASE Commit
  BY <1>3 DEF Commit, store
<1> QED
  BY <1>1, <1>2, <1>3, StoreStays

\* A step that goes on with a write, or starts one.
LEMMA ReplaceComes ==
    ASSUME PlanInv, [Next]_vars, pc' = "replace"
    PROVE  Place \/ Refresh \/ UNCHANGED <<pc, job, plan, taken, todo, rest>>
<1> USE DEF env, store, bounds, run
<1>1. ASSUME Over PROVE FALSE
  BY <1>1, OverEnds
<1>2. ASSUME Begin \/ Open \/ Capture \/ SaveOriginal \/ Prepare \/ Unlink \/ Vacated \/ Placed
             \/ Skip \/ Commit \/ MarkCommitted \/ Cleanup
      PROVE  FALSE
  BY <1>2 DEF Begin, Open, Capture, SaveOriginal, Prepare, Unlink, Vacated, Placed, Skip, Commit,
              MarkCommitted, Cleanup
<1>3. ASSUME Replace \/ Bind \/ RecoverBegin \/ RecoverCheck \/ RecoverUnlink PROVE FALSE
  BY <1>3 DEF Replace, Bind, PlanInv, RecoverBegin, RecoverCheck, RecoverUnlink
<1>4. CASE SourceChange \/ Edit \/ Remove \/ Resolve \/ UNCHANGED vars
  BY <1>4 DEF SourceChange, Edit, Remove, Resolve, vars
<1> QED
  BY <1>1, <1>2, <1>3, <1>4
     DEF Next, Sync, Moved, Written, Ended, Recovery, Outside, Over

LEMMA FollowsStep ==
    ASSUME TypeInv, PlanInv, MovesInv, OwnersInv, [Next]_vars, ~Remove
    PROVE  FollowsInv'
<1> USE DEF env, store, bounds, run
<1>1. ASSUME NEW p \in Paths, disk'[p] # Absent PROVE Follows(disk'[p])
  <2>1. CASE Idle
    BY <1>1, <2>1, IdleKeeps DEF OwnersInv, FollowsInv
  <2>2. CASE Unlink \/ RecoverUnlink
    BY <1>1, <2>2, UnlinkDoes, RecoverUnlinkDoes DEF OwnersInv, FollowsInv
  <2>3. CASE Replace
    BY <1>1, <2>3, ReplaceDoes DEF OwnersInv, FollowsInv
  <2>4. CASE Edit
    <3>1. PICK q \in Paths :
             /\ \A u \in Paths : u # q => disk'[u] = disk[u]
             /\ \/ /\ disk[q] # Absent /\ disk'[q].owner = disk[q].owner
                   /\ disk'[q].note = disk[q].note
                \/ /\ disk'[q].owner = disk[q].owner
                   /\ disk'[q].note = [n |-> edits + 1, home |-> disk[q].owner]
                \/ disk'[q].note = [n |-> edits + 1, home |-> NoOwner]
      BY <2>4, EditDoes
    <3>2. CASE p # q
      BY <1>1, <3>1, <3>2 DEF OwnersInv, FollowsInv
    <3>3. CASE p = q
      BY <1>1, <3>1, <3>3 DEF OwnersInv, FollowsInv, Follows
    <3> QED
      BY <3>2, <3>3
  <2>5. CASE Resolve
    <3>1. \/ disk'[p] = disk[p]
          \/ /\ moves.originals[p] \in Pages
             /\ disk'[p].note = moves.originals[p].note
             /\ disk'[p].owner = moves.originals[p].owner
      BY <1>1, <2>5, ResolveDoes
    <3> QED
      BY <1>1, <3>1, DistinctAssumption DEF OwnersInv, FollowsInv, Follows
  <2> QED
    BY <2>1, <2>2, <2>3, <2>4, <2>5
       DEF Next, Sync, Moved, Written, Ended, Recovery, Outside, Idle, Over
<1>2. ASSUME NEW p \in Paths, moves'.originals[p] # Absent PROVE Follows(moves'.originals[p])
  <2>1. CASE SaveOriginal
    <3>1. PICK m \in rest : moves' = [moves EXCEPT !.originals[m.from] = taken[m.from]]
      BY <2>1 DEF SaveOriginal
    <3>2. moves'.originals[p] = moves.originals[p] \/ moves'.originals[p] = taken[p]
      BY <3>1 DEF TypeInv, TypeOK, Trees
    <3> QED
      BY <1>2, <3>2 DEF OwnersInv, FollowsInv
  <2>2. CASE ~SaveOriginal
    BY <1>2, <2>2, OriginalsStay DEF OwnersInv, FollowsInv
  <2> QED
    BY <2>1, <2>2
<1>3. ASSUME NEW p \in Paths, taken'[p] # Absent PROVE Follows(taken'[p])
  <2>1. CASE Capture \/ RecoverBegin
    <3>1. taken'[p] = disk[p]
      BY <1>3, <2>1 DEF Capture, RecoverBegin
    <3> QED
      BY <1>3, <3>1 DEF OwnersInv, FollowsInv
  <2>2. CASE ~(Capture \/ RecoverBegin)
    BY <1>3, <2>2, TakenStays DEF OwnersInv, FollowsInv
  <2> QED
    BY <2>1, <2>2
<1>4. ASSUME pc' = "replace" PROVE Follows(job'.new)
  <2>1. CASE Place
    <3>1. PICK m \in rest : Write(m.to, Absent, [taken[m.from] EXCEPT !.by = op], "place")
      BY <2>1 DEF Place
    <3>2. m.from \in Paths /\ taken[m.from] \in Pages
      BY <2>1, <3>1, MovesAre DEF Place, TypeInv, Shape, Captured, Working
    <3>3. job'.new.note = taken[m.from].note /\ job'.new.owner = taken[m.from].owner
      BY <3>1, <3>2, WriteDoes DEF Pages
    <3> QED
      BY <3>2, <3>3, DistinctAssumption DEF OwnersInv, FollowsInv, Follows
  <2>2. CASE Refresh
    <3> DEFINE page(o) == disk[plan.new[o]]
    <3>1. PICK o \in todo :
             Readable(o) /\ Write(plan.new[o], Expected(o), Merged(o, page(o)), "refresh")
      BY <2>2 DEF Refresh
    <3>2. job'.new = Merged(o, page(o)) /\ pc = "refresh"
      BY <2>2, <3>1, WriteDoes DEF Refresh
    <3>3. CASE page(o) = Absent
      BY <3>2, <3>3 DEF Merged, Follows
    <3>4. CASE page(o) # Absent
      <4>1. Belongs(page(o), o) /\ plan.new[o] \in Paths
        BY <3>1, <3>2, <3>4, ReadableFits, ReadableSays DEF OwnersInv
      <4>2. Follows(page(o))
        BY <3>4, <4>1 DEF OwnersInv, FollowsInv
      <4>3. job'.new.note = page(o).note /\ job'.new.owner = o
        BY <3>2, <3>4 DEF Merged
      <4> QED
        BY <4>1, <4>2, <4>3 DEF Belongs, Follows
    <3> QED
      BY <3>3, <3>4
  <2>3. CASE UNCHANGED <<pc, job>>
    BY <1>4, <2>3 DEF OwnersInv, FollowsInv
  <2> QED
    BY <1>4, <2>1, <2>2, <2>3, ReplaceComes
<1> QED
  BY <1>1, <1>2, <1>3, <1>4 DEF FollowsInv

\* A page stays its owner's but where a step removes, moves or rewrites it.
LEMMA BelongsStays ==
    ASSUME TypeInv, PlanInv, Idle \/ Edit, NEW p \in Paths, NEW o, Belongs(disk[p], o)
    PROVE  Belongs(disk'[p], o)
<1>1. CASE Idle
  BY <1>1, IdleKeeps
<1>2. CASE Edit
  <2>1. disk'[p] = disk[p] \/ (disk'[p] # Absent /\ disk'[p].owner = disk[p].owner)
    BY <1>2, EditDoes, DistinctAssumption DEF Belongs
  <2> QED
    BY <2>1 DEF Belongs
<1> QED
  BY <1>1, <1>2

\* A write at a name that the manifest gives to a member is that member's own.
LEMMA ReplaceFits ==
    ASSUME TypeInv, PlanInv, MovesInv, OwnersInv, Replace, NEW o \in Current(manifest),
           NEW p, p = manifest[o], ~(Replaceable /\ p \in Sources(moves.list))
    PROVE  Belongs(disk'[p], o)
<1>1. /\ pc = "replace" /\ job.path \in Paths /\ job.new \in Pages /\ Same(disk[job.path], job.old)
      /\ \A q \in Paths : disk'[q] = IF q = job.path THEN job.new ELSE disk[q]
      /\ Stage \in {"place", "refresh"} /\ job.then = Stage
  BY ReplaceDoes DEF PlanInv, Stage
<1>2. /\ Belongs(disk[p], o) /\ o \in Owners /\ p \in Paths
      /\ ~(Replaceable /\ p \in Ends(moves.list))
  BY DEF OwnersInv, AuthorityInv, Keeper, TypeInv, TypeOK, Current, Maps
<1>3. manifest = plan.old /\ Separate(plan.old, plan.new) /\ o \in Current(plan.new) /\ p # NoPath
  BY <1>1, <1>2, NoPathAssumption DEF PlanInv, Planning, Transit, Separate
<1>4. ASSUME Moving # {} PROVE p \notin Ends(Moving)
  <2>1. Replaceable /\ moves.list = Moving
    <3>1. moves.state \in {"prepared", "applied"} /\ moves.names = plan.new /\ moves.list = Moving
      BY <1>1, <1>4 DEF MovesInv, Transit
    <3> QED
      BY <1>3, <1>4, <3>1, MovesRename DEF Replaceable
  <2> QED
    BY <1>2, <2>1
<1>5. CASE p # job.path
  BY <1>1, <1>2, <1>5
<1>6. CASE p = job.path /\ Stage = "place"
  <2>1. PICK m \in Moving : p = m.to
    BY <1>1, <1>6 DEF OwnersInv, BroughtInv
  <2> QED
    BY <1>4, <2>1 DEF Ends
<1>7. CASE p = job.path /\ Stage = "refresh"
  <2>1. PICK u \in Current(plan.new) :
           /\ p = plan.new[u] /\ job.new.owner = u
           /\ plan.old[u] = plan.new[u] \/ job.old = Absent \/ p \in Ends(Moving)
    BY <1>1, <1>7 DEF OwnersInv, BroughtInv
  <2>2. p \notin Ends(Moving)
    BY <1>4 DEF Ends
  <2>3. job.old # Absent
    <3>1. disk[p] \in Pages \cup {Absent} /\ job.old \in Pages \cup {Absent} /\ disk[p] # Absent
      BY <1>2 DEF TypeInv, TypeOK, Trees, Belongs
    <3> QED
      BY <1>1, <1>7, <3>1, SameHold
  <2>4. u = o
    BY <1>3, <2>1, <2>2, <2>3 DEF Separate
  <2> QED
    BY <1>1, <1>2, <1>7, <2>1, <2>4, DistinctAssumption DEF Belongs
<1> QED
  BY <1>1, <1>5, <1>6, <1>7

LEMMA AuthorityStep ==
    ASSUME TypeInv, Recovering, PlanInv, MovesInv, OwnersInv, [Next]_vars, ~Remove
    PROVE  AuthorityInv'
<1> SUFFICES ASSUME NEW o \in Current(manifest'), NEW p, p = manifest'[o]
             PROVE  /\ Belongs(IF Replaceable' /\ p \in Sources(moves'.list)
                               THEN moves'.originals[p] ELSE disk'[p], o)
                    /\ Replaceable' /\ p \in Ends(moves'.list) => p \in Sources(moves'.list)
  BY DEF AuthorityInv, Keeper, Sources, Ends
<1> USE DEF env, store, bounds, run
<1>0. o \in Owners /\ p \in Paths /\ p # NoPath
  BY TypeStep, NoPathAssumption DEF TypeInv, TypeOK, Maps, Current
<1>1. ASSUME manifest' = manifest
      PROVE  /\ o \in Current(manifest)
             /\ ~(Replaceable /\ p \in Sources(moves.list)) => Belongs(disk[p], o)
             /\ Replaceable /\ p \in Sources(moves.list) => Belongs(moves.originals[p], o)
             /\ Replaceable /\ p \in Ends(moves.list) => p \in Sources(moves.list)
  BY <1>1 DEF OwnersInv, AuthorityInv, Keeper
<1>2. CASE Commit
  <2>1. /\ Stage = "refresh" /\ pc = "refresh" /\ todo = {} /\ manifest' = plan.new
        /\ UNCHANGED <<disk, moves>>
    BY <1>2 DEF Commit, Stage
  <2>2. Belongs(disk[p], o)
    BY <2>1 DEF OwnersInv, SettledInv
  <2>3. ~Replaceable'
    BY <2>1 DEF Replaceable, MovesInv, Transit
  <2> QED
    BY <2>1, <2>2, <2>3
<1>3. CASE Prepare
  <2>1. /\ Stage = "save" /\ rest = {} /\ UNCHANGED <<disk, manifest>> /\ moves.list = Moving
        /\ moves'.list = moves.list /\ moves'.originals = moves.originals
    BY <1>3 DEF Prepare, Stage, TypeInv, TypeOK, Shape
  <2>2. manifest = plan.old /\ Separate(plan.old, plan.new) /\ o \in Current(plan.new) /\ ~Replaceable
    BY <2>1 DEF PlanInv, Planning, Transit, Separate, Replaceable, MovesInv
  <2>3. CASE p \in Sources(moves.list)
    <3>1. PICK m \in Moving : m.from = p
      BY <2>1, <2>3 DEF Sources
    <3>2. m.owner \in Current(plan.new) /\ p = plan.old[m.owner]
      BY <3>1, MovesAre
    <3>3. m.owner = o
      BY <1>0, <2>1, <2>2, <3>2 DEF Separate
    <3>4. Belongs(taken[p], o) /\ moves.originals[p] = taken[p]
      BY <2>1, <3>1, <3>3 DEF OwnersInv, CapturedInv, MovesInv, Transit
    <3> QED
      BY <1>1, <2>1, <2>2, <2>3, <3>4
  <2>4. CASE p \notin Sources(moves.list)
    <3>1. p \in OwnedPages(plan.old)
      BY <1>0, <2>1, <2>2 DEF OwnedPages
    <3>2. p \notin Ends(moves.list)
      BY <2>1, <2>4, <3>1 DEF OwnersInv, CapturedInv, Transit
    <3> QED
      BY <1>1, <2>1, <2>2, <2>4, <3>2
  <2> QED
    BY <2>3, <2>4
<1>4. CASE Resolve
  <2>1. moves' = NoMoves /\ ~Replaceable' /\ manifest' = manifest
    BY <1>4 DEF Resolve, NoMoves, Replaceable
  <2>2. CASE manifest = moves.names \/ moves.state = "capturing"
    <3>1. disk' = disk /\ ~Replaceable
      BY <1>4, <2>2, ResolveDoes DEF Replaceable
    <3> QED
      BY <1>1, <2>1, <3>1
  <2>3. CASE ~(manifest = moves.names \/ moves.state = "capturing")
    <3>1. /\ Replaceable
          /\ \/ /\ \A m \in moves.list : p \notin {m.from, m.to}
                /\ disk'[p] = disk[p]
             \/ /\ \A m \in moves.list : m.from # p
                /\ \E m \in moves.list : m.to = p
             \/ /\ \E m \in moves.list : m.from = p
                /\ disk'[p] \in Pages
                /\ disk'[p].owner = moves.originals[p].owner
      BY <1>0, <1>4, <2>3, ResolveDoes DEF Replaceable
    <3>2. /\ p \in Sources(moves.list) <=> \E m \in moves.list : m.from = p
          /\ p \in Ends(moves.list) <=> \E m \in moves.list : m.to = p
      BY DEF Sources, Ends
    <3>3. CASE p \in Sources(moves.list)
      BY <1>1, <2>1, <3>1, <3>2, <3>3, DistinctAssumption DEF Belongs
    <3>4. CASE p \notin Sources(moves.list)
      BY <1>1, <2>1, <3>1, <3>2, <3>4
    <3> QED
      BY <3>3, <3>4
  <2> QED
    BY <2>2, <2>3
<1>5. CASE Capture \/ SaveOriginal \/ MarkCommitted \/ Cleanup
  <2>1. UNCHANGED <<disk, manifest>> /\ ~Replaceable
    BY <1>5 DEF Capture, SaveOriginal, MarkCommitted, Cleanup, Replaceable, MovesInv, PlanInv, Stage
  <2>2. ~Replaceable'
    <3>1. ~Prepare /\ ~Placed
      BY <1>5 DEF Capture, SaveOriginal, MarkCommitted, Cleanup, Prepare, Placed, MovesInv, Stage,
                  NoMoves
    <3> QED
      BY <2>1, <3>1, BecomesReplaceable
  <2> QED
    BY <1>1, <2>1, <2>2
<1>6. CASE Placed
  <2>1. UNCHANGED <<disk, manifest>> /\ moves'.names = moves.names
        /\ Stage = "place" /\ moves'.list = moves.list /\ moves'.originals = moves.originals
        /\ moves'.state = "applied"
    BY <1>6 DEF Placed, Stage, TypeInv, TypeOK
  <2>2. Replaceable' = Replaceable
    BY <2>1 DEF Replaceable, MovesInv
  <2> QED
    BY <1>1, <2>1, <2>2
<1>7. CASE ~(Capture \/ SaveOriginal \/ Prepare \/ Placed \/ Commit \/ MarkCommitted \/ Cleanup
             \/ Resolve)
  <2>1. UNCHANGED <<manifest, moves>> /\ Replaceable' = Replaceable
    BY <1>7, StoreStays DEF Replaceable
  <2>2. ASSUME ~(Replaceable /\ p \in Sources(moves.list)) PROVE Belongs(disk'[p], o)
    <3>1. Belongs(disk[p], o) /\ o \in Current(manifest)
      BY <1>1, <2>1, <2>2
    <3>2. CASE Idle \/ Edit
      BY <1>0, <3>1, <3>2, BelongsStays
    <3>3. CASE Unlink
      <4>1. PICK m \in Moving : \A q \in Paths : disk'[q] = IF q = m.from THEN Absent ELSE disk[q]
        BY <3>3, UnlinkDoes
      <4>2. Stage = "unlink"
        BY <3>3 DEF Unlink, Stage
      <4>3. moves.list = Moving /\ moves.state = "prepared" /\ moves.names = plan.new
            /\ manifest = plan.old
        BY <4>1, <4>2 DEF MovesInv, PlanInv, Planning, Transit
      <4>4. p # m.from
        BY <2>2, <4>1, <4>3, MovesRename DEF Replaceable, Sources
      <4> QED
        BY <1>0, <3>1, <4>1, <4>4
    <3>4. CASE RecoverUnlink
      <4>1. p \in OwnedPages(manifest)
        BY <1>0, <2>1 DEF OwnedPages
      <4>2. p # job.path
        BY <3>4, <4>1, RecoverUnlinkDoes DEF Recovering
      <4> QED
        BY <1>0, <3>1, <3>4, <4>2, RecoverUnlinkDoes
    <3>5. CASE Replace
      BY <2>1, <2>2, <3>1, <3>5, ReplaceFits
    <3> QED
      BY <1>7, <3>2, <3>3, <3>4, <3>5
         DEF Next, Sync, Moved, Written, Ended, Recovery, Outside, Idle, Over
  <2> QED
    BY <1>1, <2>1, <2>2
<1> QED
  BY <1>2, <1>3, <1>4, <1>5, <1>6, <1>7

\* A sync that has captured its pages goes on with what it captured.
LEMMA TransitStays ==
    ASSUME TypeInv, PlanInv, [Next]_vars, Stage' \in Transit, ~Capture
    PROVE  Stage \in Transit /\ UNCHANGED <<plan, taken>>
<1> USE DEF env, store, bounds, run
<1>1. CASE Within
  BY <1>1, WithinKeeps DEF Transit
<1>2. ASSUME Over PROVE FALSE
  BY <1>2, OverEnds DEF Transit
<1>3. CASE SaveOriginal \/ Prepare \/ Vacated \/ Placed
  BY <1>3 DEF SaveOriginal, Prepare, Vacated, Placed, Stage, Transit
<1>4. ASSUME \/ Begin \/ Open \/ Commit \/ MarkCommitted \/ Cleanup \/ RecoverBegin
             \/ RecoverCheck \/ RecoverUnlink
      PROVE  FALSE
  BY <1>4 DEF Begin, Open, Commit, MarkCommitted, Cleanup, RecoverBegin, RecoverCheck,
              RecoverUnlink, Stage, Transit
<1>5. CASE SourceChange \/ Edit \/ Remove \/ Resolve \/ UNCHANGED vars
  BY <1>5 DEF SourceChange, Edit, Remove, Resolve, vars, Stage
<1> QED
  BY <1>1, <1>2, <1>3, <1>4, <1>5
     DEF Next, Sync, Moved, Written, Ended, Recovery, Outside, Over, Within

LEMMA CapturedStep ==
    ASSUME TypeInv, PlanInv, MovesInv, OwnersInv, [Next]_vars
    PROVE  CapturedInv'
<1> SUFFICES ASSUME Stage' \in Transit PROVE CapturedInv'
  BY DEF CapturedInv
<1>1. CASE Capture
  <2>1. /\ Stage = "apply" /\ Replanned /\ plan' = plan /\ moves.state = "none"
        /\ taken' = [p \in Paths |-> IF \E m \in Moving : m.from = p THEN disk[p] ELSE Absent]
    BY <1>1 DEF Capture, Stage, MovesInv
  <2>2. manifest = plan.old /\ ~Replaceable /\ Moving' = Moving
    BY <2>1 DEF PlanInv, Planning, Replaceable, Moving
  <2>3. ASSUME NEW o \in Current(plan.old) PROVE Belongs(disk[plan.old[o]], o)
    BY <2>2, <2>3 DEF OwnersInv, AuthorityInv, Keeper
  <2>4. ASSUME NEW m \in Moving PROVE Belongs(taken'[m.from], m.owner)
    <3>1. m.owner \in Owners /\ m.from \in Paths /\ m.from = plan.old[m.owner] /\ m.from # NoPath
      BY MovesAre, NoPathAssumption
    <3>2. taken'[m.from] = disk[m.from]
      BY <2>1, <3>1
    <3> QED
      BY <2>3, <3>1, <3>2 DEF Current
  <2>5. ASSUME NEW m \in Moving, m.to \in OwnedPages(plan.old) PROVE m.to \in Sources(Moving)
    <3>1. PICK o \in Current(plan.old) : plan.old[o] = m.to
      BY <2>5 DEF OwnedPages, Current
    <3>2. m.to \in Existing
      BY <2>3, <3>1, MovesAre DEF Belongs, Existing
    <3>3. \E n \in Moving : n.from = m.to
      BY <2>1, <3>2, OccupantsMove
    <3> QED
      BY <3>3 DEF Sources
  <2>6. Ends(Moving)' = Ends(Moving) /\ Sources(Moving)' = Sources(Moving)
    BY <2>2 DEF Ends, Sources
  <2>7. Ends(Moving) \cap OwnedPages(plan.old) \subseteq Sources(Moving)
    BY <2>5 DEF Ends
  <2>8. \A m \in Moving' : Belongs(taken'[m.from], m.owner)
    BY <2>2, <2>4
  <2> QED
    BY <2>1, <2>6, <2>7, <2>8 DEF CapturedInv
<1>2. CASE ~Capture
  <2>1. Stage \in Transit /\ UNCHANGED <<plan, taken>>
    BY <1>2, TransitStays
  <2>2. Moving' = Moving
    BY <2>1 DEF Moving
  <2>3. Ends(Moving)' = Ends(Moving) /\ Sources(Moving)' = Sources(Moving)
    BY <2>2 DEF Ends, Sources
  <2> QED
    BY <2>1, <2>2, <2>3 DEF OwnersInv, CapturedInv
<1> QED
  BY <1>1, <1>2

LEMMA BroughtStep ==
    ASSUME TypeInv, PlanInv, OwnersInv, [Next]_vars
    PROVE  BroughtInv'
<1> SUFFICES ASSUME pc' = "replace" PROVE BroughtInv'
  BY DEF BroughtInv
<1> USE DEF env, store, bounds, run
<1>1. CASE Place
  <2>1. PICK m \in rest : Write(m.to, Absent, [taken[m.from] EXCEPT !.by = op], "place")
    BY <1>1 DEF Place
  <2>2. m \in Moving /\ plan' = plan
    BY <1>1, <2>1 DEF Place, TypeInv, Shape, Captured, Working
  <2>3. Moving' = Moving /\ job'.path = m.to /\ job'.then = "place"
    BY <2>1, <2>2, WriteDoes DEF Moving
  <2> QED
    BY <2>2, <2>3 DEF BroughtInv
<1>2. CASE Refresh
  <2> DEFINE path(o) == plan.new[o]
  <2>1. PICK o \in todo :
           Readable(o) /\ Write(path(o), Expected(o), Merged(o, disk[path(o)]), "refresh")
    BY <1>2 DEF Refresh
  <2>2. /\ job'.path = path(o) /\ job'.old = Expected(o) /\ job'.then = "refresh"
        /\ job'.new = Merged(o, disk[path(o)])
        /\ pc = "refresh" /\ plan' = plan
    BY <1>2, <2>1, WriteDoes DEF Refresh
  <2>3. Moving' = Moving /\ job'.new.owner = o /\ o \in Current(plan.new)
    BY <2>1, <2>2, ReadableSays DEF Moving, Merged
  <2>4. plan.old[o] = path(o) \/ Expected(o) = Absent \/ path(o) \in Ends(Moving)
    BY <2>1, <2>2, ReadableSays DEF Ends
  <2>5. Ends(Moving)' = Ends(Moving)
    BY <2>3 DEF Ends
  <2> QED
    BY <2>2, <2>3, <2>4, <2>5 DEF BroughtInv
<1>3. CASE UNCHANGED <<pc, job, plan>>
  <2>1. Moving' = Moving
    BY <1>3 DEF Moving
  <2>2. Ends(Moving)' = Ends(Moving)
    BY <2>1 DEF Ends
  <2> QED
    BY <1>3, <2>1, <2>2 DEF OwnersInv, BroughtInv
<1> QED
  BY <1>1, <1>2, <1>3, ReplaceComes

LEMMA SettledStep ==
    ASSUME TypeInv, PlanInv, MovesInv, OwnersInv, [Next]_vars, ~Remove
    PROVE  SettledInv'
<1> SUFFICES ASSUME Stage' \in Planning PROVE SettledInv'
  BY DEF SettledInv, Planning, Transit
<1> USE DEF env, store, bounds, run
<1>0. \A o \in Current(plan.new) : plan.new[o] \in Paths /\ o \in Owners
  BY DEF TypeInv, TypeOK, Maps, Current
<1>1. CASE Begin
  <2>1. /\ Stage' = "planned" /\ plan'.old = manifest /\ plan'.new = source
        /\ Refreshed(manifest, source, Existing) \subseteq todo'
    BY <1>1 DEF Begin, Stage
  <2>2. \A o \in Current(source) \ todo' : manifest[o] = source[o]
    BY <2>1 DEF Refreshed
  <2> QED
    BY <2>1, <2>2 DEF SettledInv
<1>2. CASE Open \/ SaveOriginal \/ Prepare \/ Vacated \/ Unlink
  <2>1. Stage \in Planning \ {"refresh"} /\ Stage' # "refresh" /\ UNCHANGED <<plan, todo>>
    BY <1>2 DEF Open, SaveOriginal, Prepare, Vacated, Unlink, Stage, Planning, Transit
  <2> QED
    BY <2>1 DEF OwnersInv, SettledInv
<1>3. CASE Capture \/ Placed
  <2>1. Stage \in Planning \ {"refresh"} /\ pc' # "replace" /\ UNCHANGED <<disk, plan, todo>>
    BY <1>3 DEF Capture, Placed, Stage, Planning, Transit
  <2>2. ASSUME NEW o \in Current(plan.new) \ todo
        PROVE  plan.old[o] = plan.new[o] /\ Belongs(disk[plan.new[o]], o)
    BY <2>1, <2>2, StayersStand DEF OwnersInv, SettledInv
  <2> QED
    BY <2>1, <2>2 DEF SettledInv
<1>4. CASE Place
  <2>1. Stage = "place" /\ Stage' = "place" /\ UNCHANGED <<plan, todo>>
    BY <1>4, WithinKeeps DEF Place, Within, Stage
  <2> QED
    BY <2>1 DEF OwnersInv, SettledInv, Planning, Transit
<1>5. CASE Refresh
  <2>1. PICK o \in todo :
           /\ Write(plan.new[o], Expected(o), Merged(o, disk[plan.new[o]]), "refresh")
           /\ todo' = todo \ {o}
    BY <1>5 DEF Refresh
  <2>2. /\ pc = "refresh" /\ Stage = "refresh" /\ UNCHANGED <<disk, plan>>
        /\ pc' = "replace" /\ Stage' = "refresh" /\ job'.path = plan.new[o]
    BY <1>5, <2>1, WriteDoes DEF Refresh, Stage
  <2> QED
    BY <2>1, <2>2 DEF OwnersInv, SettledInv
<1>6. CASE Skip
  <2>1. PICK o \in todo : Readable(o) /\ Expected(o) # Absent /\ todo' = todo \ {o}
    BY <1>6 DEF Skip
  <2>2. pc = "refresh" /\ Stage = "refresh" /\ Stage' = "refresh" /\ UNCHANGED <<disk, plan>>
    BY <1>6 DEF Skip, Stage
  <2>3. Belongs(disk[plan.new[o]], o)
    BY <2>1, <2>2, ReadableFits, ReadableSays DEF OwnersInv
  <2> QED
    BY <2>1, <2>2, <2>3 DEF OwnersInv, SettledInv
<1>7. CASE Replace \/ Bind
  <2>1. Stage' = Stage /\ UNCHANGED <<plan, todo>> /\ Stage \in {"place", "refresh"}
    BY <1>7, WithinKeeps DEF Replace, Bind, Within, PlanInv, Stage
  <2>2. ASSUME Stage = "refresh", NEW o \in Current(plan.new) \ todo
        PROVE  Belongs(disk'[plan.new[o]], o)
    <3>1. CASE Bind
      BY <2>2, <3>1 DEF Bind, OwnersInv, SettledInv
    <3>2. CASE Replace
      <4>1. /\ pc = "replace" /\ job.then = "refresh" /\ job.new \in Pages
            /\ \A q \in Paths : disk'[q] = IF q = job.path THEN job.new ELSE disk[q]
        BY <2>2, <3>2, ReplaceDoes DEF Stage
      <4>2. PICK u \in Current(plan.new) : job.path = plan.new[u] /\ job.new.owner = u
        BY <4>1 DEF OwnersInv, BroughtInv
      <4>3. CASE plan.new[o] = job.path
        <5>1. o = u
          BY <1>0, <2>1, <2>2, <4>2, <4>3, NoPathAssumption
             DEF PlanInv, Separate, Injective, Planning, Transit
        <5> QED
          BY <1>0, <4>1, <4>2, <4>3, <5>1, DistinctAssumption DEF Belongs
      <4>4. CASE plan.new[o] # job.path
        BY <1>0, <2>2, <4>1, <4>4 DEF OwnersInv, SettledInv
      <4> QED
        BY <4>3, <4>4
    <3> QED
      BY <1>7, <3>1, <3>2
  <2> QED
    BY <2>1, <2>2 DEF OwnersInv, SettledInv, Planning, Transit
<1>8. CASE SourceChange \/ Edit \/ Resolve \/ UNCHANGED vars
  <2>1. UNCHANGED <<pc, job, plan, todo>>
    BY <1>8 DEF SourceChange, Edit, Resolve, vars
  <2>2. Stage' = Stage
    BY <2>1 DEF Stage
  <2>3. ASSUME Stage = "refresh", NEW o \in Current(plan.new) \ todo,
               Belongs(disk[plan.new[o]], o)
        PROVE  Belongs(disk'[plan.new[o]], o)
    <3>1. Idle \/ Edit
      BY <1>8, <2>3 DEF Idle, Resolve, Stage
    <3> QED
      BY <1>0, <2>3, <3>1, BelongsStays
  <2> QED
    BY <2>1, <2>2, <2>3 DEF OwnersInv, SettledInv
<1>9. ASSUME Over PROVE FALSE
  BY <1>9, OverEnds DEF Planning, Transit
<1>10. ASSUME Commit \/ MarkCommitted \/ Cleanup \/ RecoverBegin \/ RecoverCheck \/ RecoverUnlink
       PROVE  FALSE
  BY <1>10 DEF Commit, MarkCommitted, Cleanup, RecoverBegin, RecoverCheck, RecoverUnlink, Stage,
               Planning, Transit
<1> QED
  BY <1>1, <1>2, <1>3, <1>4, <1>5, <1>6, <1>7, <1>8, <1>9, <1>10
     DEF Next, Sync, Moved, Written, Ended, Recovery, Outside, Over

\* The names, the journal and the directory of originals, whoever removes what.
FollowInv ==
    /\ TypeInv /\ Recovering /\ PlanInv /\ MovesInv
    /\ removals = 0 => OwnersInv

LEMMA FollowInit == Init => FollowInv
<1> SUFFICES ASSUME Init PROVE FollowInv
  OBVIOUS
<1>1. TypeInv /\ Recovering /\ PlanInv /\ MovesInv
  BY KeptInit DEF KeptInv
<1>2. /\ pc = "idle" /\ Stage = "idle" /\ manifest = FirstMap /\ ~Replaceable
      /\ moves.originals = Nothing /\ taken = Nothing
  BY NoMovesFresh DEF Init, Stage, Replaceable
<1>3. ASSUME NEW p \in Paths, p \in OwnedPages(FirstMap)
      PROVE  \E o \in Owners :
                /\ FirstMap[o] = p
                /\ disk[p] = [owner |-> o, note |-> [n |-> 0, home |-> o], gen |-> 0, by |-> 0]
  <2> DEFINE o == CHOOSE u \in Owners : FirstMap[u] = p
  <2>1. o \in Owners /\ FirstMap[o] = p
    BY <1>3 DEF OwnedPages
  <2>2. disk[p] = [owner |-> o, note |-> [n |-> 0, home |-> o], gen |-> 0, by |-> 0]
    BY <1>3 DEF Init
  <2> HIDE DEF o
  <2> QED
    BY <2>1, <2>2
<1>4. \A p \in Paths : p \notin OwnedPages(FirstMap) => disk[p] = Absent
  BY DEF Init
<1>5. FollowsInv
  <2>1. ASSUME NEW p \in Paths, disk[p] # Absent PROVE Follows(disk[p])
    <3>1. PICK o \in Owners :
             disk[p] = [owner |-> o, note |-> [n |-> 0, home |-> o], gen |-> 0, by |-> 0]
      BY <1>3, <1>4, <2>1
    <3>2. disk[p].note = [n |-> 0, home |-> o] /\ disk[p].owner = o
      BY <3>1
    <3>3. disk[p].note.home = o
      BY <3>2
    <3> QED
      BY <3>2, <3>3 DEF Follows
  <2> QED
    BY <1>2, <2>1 DEF FollowsInv, Nothing
<1>6. AuthorityInv
  <2>1. ASSUME NEW o \in Current(FirstMap) PROVE Belongs(disk[FirstMap[o]], o)
    <3> DEFINE p == FirstMap[o]
    <3>1. o \in Owners /\ p \in Paths /\ p # NoPath /\ p \in OwnedPages(FirstMap)
      BY <2>1, SyncAssumption DEF Current, Maps, OwnedPages
    <3>2. PICK u \in Owners :
             /\ FirstMap[u] = p
             /\ disk[p] = [owner |-> u, note |-> [n |-> 0, home |-> u], gen |-> 0, by |-> 0]
      BY <1>3, <3>1
    <3>3. u = o
      BY <3>1, <3>2, SyncAssumption DEF Injective
    <3>4. disk[p].owner = o
      BY <3>2, <3>3
    <3>5. disk[p] # Absent
      <4>1. NoNote \notin Notes /\ [n |-> 0, home |-> o] \in Notes
        BY <3>1, ConstantTypes, DistinctAssumption DEF Notes
      <4>2. 0 \in Savers /\ 0 \in 0 .. MaxSyncs
        BY ConstantTypes DEF Savers
      <4>3. disk[p] \in Pages
        BY <3>1, <3>2, <3>3, <4>1, <4>2 DEF Pages
      <4> QED
        BY <4>3, DistinctAssumption
    <3> QED
      BY <3>4, <3>5 DEF Belongs
  <2> QED
    BY <1>2, <2>1 DEF AuthorityInv, Keeper
<1>7. CapturedInv /\ SettledInv /\ BroughtInv
  BY <1>2 DEF CapturedInv, SettledInv, BroughtInv, Planning, Transit
<1> QED
  BY <1>1, <1>5, <1>6, <1>7 DEF FollowInv, OwnersInv

LEMMA FollowStep == FollowInv /\ [Next]_vars => FollowInv'
<1> SUFFICES ASSUME FollowInv, [Next]_vars PROVE FollowInv'
  OBVIOUS
<1>1. (TypeInv /\ Recovering /\ PlanInv /\ MovesInv)'
  BY TypeStep, RecoveringStep, PlanStep, MovesStep DEF FollowInv
<1>2. ASSUME removals' = 0 PROVE OwnersInv'
  <2>1. removals = 0 /\ ~Remove
    BY <1>2, RemovalsGrow DEF FollowInv
  <2>2. TypeInv /\ Recovering /\ PlanInv /\ MovesInv /\ OwnersInv
    BY <2>1 DEF FollowInv
  <2> QED
    BY <2>1, <2>2, FollowsStep, AuthorityStep, CapturedStep, SettledStep, BroughtStep
       DEF OwnersInv
<1> QED
  BY <1>1, <1>2 DEF FollowInv

\* Whatever names the members swap, and wherever a sync breaks off: a page, and
\* what is written on it, never passes from one member to another.
THEOREM OwnersKeepTheirPages == Spec => []PagesFollowOwners
<1>1. FollowInv => PagesFollowOwners
  <2> SUFFICES ASSUME FollowInv PROVE PagesFollowOwners
    OBVIOUS
  <2>1. ProseFollowsOwner
    BY DEF ProseFollowsOwner, FollowInv, OwnersInv, FollowsInv, Follows, Existing
  <2>2. ASSUME removals = 0, moves.state = "none", NEW o \in Current(manifest)
        PROVE  disk[manifest[o]].owner \in {NoOwner, o}
    BY <2>2 DEF FollowInv, OwnersInv, AuthorityInv, Keeper, Replaceable, Belongs
  <2> QED
    BY <2>1, <2>2 DEF PagesFollowOwners, AuthorityTrue
<1> QED
  BY <1>1, FollowInit, FollowStep, PTL DEF Spec
=============================================================================

------------------------- MODULE MaintenanceProofs -------------------------
(***************************************************************************)
(* Proofs about the two halves of maintenance recovery.  The store keeps   *)
(* what somebody may need, for any number of wikis, states and operations, *)
(* any clock and any kills.  A write operation on a wiki can be undone by  *)
(* what is saved, for every wiki, every plan of writes and every edit that *)
(* authors may make.                                                       *)
(***************************************************************************)
EXTENDS RecoveryStore, MaintenanceWrite, TLAPS

(***************************************************************************)
(* The store                                                               *)
(***************************************************************************)


\* The phases in which an operation holds the store lock.
Holding == {"save", "reopen", "marking", "retire", "collect"}

LockHeld == \A o \in Owners : stage[o] \in Holding => lock = o

\* An unfinished preimage is not marked complete, and no call that is under
\* way is about to retire it.
UnfinishedSafe ==
    \A d \in unfinished :
       /\ d \in catalogs /\ d.kind = "captured-preimage"
       /\ completed[d] = NoTime
       /\ \A o \in Owners : stage[o] = "retire" => d \notin op[o].retire

\* Nor the newest committed catalog of anybody.
NewestSafe ==
    \A o \in Owners : \A d \in newest[o] :
       /\ d \in catalogs /\ d.owner = o /\ d.kind = "committed"
       /\ \A q \in Owners : stage[q] = "retire" => d \notin op[q].retire

\* The directory at hand is the one the phase is about.
DirAtHand ==
    \A o \in Owners :
       /\ stage[o] = "reopen" =>
             op[o].dir \in catalogs /\ op[o].dir.kind = "captured-preimage"
       /\ stage[o] \in {"mark", "marking", "retain"} =>
             newest[o] = {op[o].dir} /\ op[o].dir.kind = "committed"
       /\ stage[o] = "marking" => completed[Preimage(o, op[o].base)] # NoTime

\* An operation deals with the directories of its own wiki.
OwnDirs ==
    \A o \in Owners : op[o].dir.owner = o /\ \A d \in op[o].retire : d.owner = o

\* What is about to be collected is not referred to.
CandidatesFree ==
    \A o \in Owners :
       stage[o] = "collect" => op[o].cands \cap References(catalogs) = {}

IInv ==
    /\ StoreTypeOK /\ LockHeld /\ CatalogsWhole
    /\ UnfinishedSafe /\ NewestSafe /\ DirAtHand /\ OwnDirs /\ CandidatesFree

\* Assigning a field keeps the records of operations well typed.
LEMMA OpTyped ==
    ASSUME StoreTypeOK, NEW o \in Owners
    PROVE  /\ NoOp(o) \in Op
           /\ \A s \in States : Preimage(o, s) \in Dirs /\ Committed(o, s) \in Dirs
           /\ op[o] \in Op /\ op[o].base \in States /\ op[o].dir \in Dirs
           /\ op[o].retire \in SUBSET Dirs /\ op[o].cands \in SUBSET Blobs
           /\ \A s \in States, x \in BOOLEAN :
                 [NoOp(o) EXCEPT !.base = s, !.explicit = x] \in Op
           /\ \A d \in Dirs : [op[o] EXCEPT !.dir = d] \in Op
           /\ \A r \in SUBSET Dirs : [op[o] EXCEPT !.retire = r] \in Op
           /\ \A r \in SUBSET Dirs, d \in Dirs :
                 [op[o] EXCEPT !.retire = r, !.dir = d] \in Op
           /\ \A c \in SUBSET Blobs : [op[o] EXCEPT !.cands = c] \in Op
  <1>1. \A s \in States : Preimage(o, s) \in Dirs /\ Committed(o, s) \in Dirs
    BY DEF Preimage, Committed, Dirs, CatalogKinds
  <1>2. NoOp(o) \in Op
    BY <1>1, StoreAssumption DEF NoOp, Op
  <1>3. op[o] \in Op
    BY DEF StoreTypeOK
  <1> QED
    BY <1>1, <1>2, <1>3 DEF Op

\* Adding a catalog whose blobs are there, or removing one, keeps references.
LEMMA ReferencesOf ==
    ASSUME NEW C \in SUBSET Dirs, NEW d \in Dirs
    PROVE  /\ References(C \cup {d}) = References(C) \cup BlobsOf[d.state]
           /\ References(C \ {d}) \subseteq References(C)
  BY DEF References

LEMMA InitIInv == StoreInit => IInv
  <1> SUFFICES ASSUME StoreInit PROVE IInv
    OBVIOUS
  <1>1. \A o \in Owners : NoOp(o) \in Op
    <2> TAKE o \in Owners
    <2>1. Preimage(o, InitialState) \in Dirs
      BY StoreAssumption DEF Preimage, Dirs, CatalogKinds
    <2> QED
      BY <2>1, StoreAssumption DEF NoOp, Op
  <1>2. StoreTypeOK
    BY <1>1, StoreAssumption DEF StoreInit, StoreTypeOK, Labels
  <1>3. CatalogsWhole
    BY DEF StoreInit, CatalogsWhole, References
  <1> QED
    BY <1>2, <1>3 DEF StoreInit, IInv, LockHeld, UnfinishedSafe, NewestSafe, DirAtHand,
       OwnDirs, CandidatesFree, Holding, NoOp, Preimage

\* Every step keeps the types.
LEMMA StepTypeOK ==
    ASSUME StoreTypeOK, StoreNext PROVE StoreTypeOK'
  <1>1. PICK o \in Owners : 
          \/ \E s \in States, explicit \in BOOLEAN : BeginOperation(o, s, explicit)
          \/ EndUnchanged(o)
          \/ FirstWrite(o) \/ FirstWriteExplicit(o)
          \/ SaveBlob(o) \/ SavePreimageCatalog(o) \/ Reopen(o)
          \/ \E s \in States : EndBody(o, s)
          \/ SaveCommittedCatalog(o)
          \/ MarkPreimage(o) \/ MarkCommitted(o)
          \/ Scan(o) \/ UnlinkCompletion(o) \/ UnlinkCatalog(o)
          \/ Collect(o) \/ UnlinkBlob(o) \/ Finish(o)
          \/ FailOperation(o) \/ KillCall(o)
    BY DEF StoreNext
  <1> USE DEF StoreTypeOK, store
  <1>o. /\ NoOp(o) \in Op /\ op[o] \in Op
        /\ op[o].base \in States /\ op[o].dir \in Dirs
        /\ op[o].retire \in SUBSET Dirs /\ op[o].cands \in SUBSET Blobs
        /\ Preimage(o, op[o].base) \in Dirs
        /\ \A s \in States : Committed(o, s) \in Dirs
    BY OpTyped
  <1>2. CASE \E s \in States, explicit \in BOOLEAN : BeginOperation(o, s, explicit)
    <2>1. PICK s \in States, x \in BOOLEAN : BeginOperation(o, s, x)
      BY <1>2
    <2>2. [NoOp(o) EXCEPT !.base = s, !.explicit = x] \in Op
      BY OpTyped
    <2>3. count' \in 0..MaxOperations
      BY <2>1, StoreAssumption DEF BeginOperation
    <2> QED
      BY <2>1, <2>2, <2>3 DEF BeginOperation, Goto, Labels
  <1>3. CASE EndUnchanged(o)
    BY <1>3, <1>o DEF EndUnchanged, End, Labels
  <1>4. CASE FirstWrite(o)
    <2>1. [op[o] EXCEPT !.dir = Preimage(o, op[o].base)] \in Op
      BY <1>o, OpTyped
    <2> QED
      BY <1>4, <2>1 DEF FirstWrite, Goto, Acquire, Labels
  <1>5. CASE FirstWriteExplicit(o)
    BY <1>5 DEF FirstWriteExplicit, Goto, Labels
  <1>6. CASE SaveBlob(o)
    <2>1. BlobsOf[op[o].dir.state] \subseteq Blobs
      BY <1>o, StoreAssumption DEF Dirs
    <2> QED
      BY <1>6, <2>1 DEF SaveBlob
  <1>7. CASE SavePreimageCatalog(o)
    BY <1>7, <1>o DEF SavePreimageCatalog, Goto, Labels
  <1>8. CASE Reopen(o)
    BY <1>8, <1>o DEF Reopen, Goto, Release, Labels
  <1>9. CASE \E s \in States : EndBody(o, s)
    <2>1. PICK s \in States : EndBody(o, s)
      BY <1>9
    <2>2. [op[o] EXCEPT !.dir = Committed(o, s)] \in Op
      BY <1>o, OpTyped
    <2> QED
      BY <2>1, <2>2 DEF EndBody, Goto, Acquire, Labels
  <1>10. CASE SaveCommittedCatalog(o)
    <2>1. newest' \in [Owners -> SUBSET Dirs]
      BY <1>10, <1>o DEF SaveCommittedCatalog
    <2> QED
      BY <1>10, <2>1, <1>o DEF SaveCommittedCatalog, Goto, Release, Labels
  <1>11. CASE MarkPreimage(o)
    <2>1. completed' \in [Dirs -> Times \cup {NoTime}]
      BY <1>11, <1>o DEF MarkPreimage
    <2> QED
      BY <1>11, <2>1 DEF MarkPreimage, Goto, Acquire, Labels
  <1>12. CASE MarkCommitted(o)
    <2>1. completed' \in [Dirs -> Times \cup {NoTime}]
      BY <1>12, <1>o DEF MarkCommitted
    <2> QED
      BY <1>12, <2>1 DEF MarkCommitted, Goto, Release, Labels
  <1>13. CASE Scan(o)
    <2>1. PICK r \in SUBSET Dirs : op' = [op EXCEPT ![o].retire = r]
      BY <1>13 DEF Scan, Retirable
    <2>2. [op[o] EXCEPT !.retire = r] \in Op
      BY OpTyped
    <2> QED
      BY <1>13, <2>1, <2>2 DEF Scan, Goto, Acquire, Labels
  <1>14. CASE UnlinkCompletion(o)
    BY <1>14, <1>o DEF UnlinkCompletion
  <1>15. CASE UnlinkCatalog(o)
    <2>1. PICK d \in op[o].retire :
             /\ catalogs' = catalogs \ {d}
             /\ op' = [op EXCEPT ![o].retire = @ \ {d}, ![o].dir = d]
      BY <1>15 DEF UnlinkCatalog
    <2>2. [op[o] EXCEPT !.retire = @ \ {d}, !.dir = d] \in Op
      BY <1>o DEF Op
    <2>3. op' \in [Owners -> Op]
      BY <2>1, <2>2
    <2> QED
      BY <1>15, <2>1, <2>3 DEF UnlinkCatalog
  <1>16. CASE Collect(o)
    <2>1. PICK c \in SUBSET Blobs : op' = [op EXCEPT ![o].cands = c]
      BY <1>16 DEF Collect
    <2>2. [op[o] EXCEPT !.cands = c] \in Op
      BY OpTyped
    <2> QED
      BY <1>16, <2>1, <2>2 DEF Collect, Goto, Labels
  <1>17. CASE UnlinkBlob(o)
    <2>1. PICK b \in op[o].cands :
             /\ blobs' = blobs \ {b}
             /\ op' = [op EXCEPT ![o].cands = @ \ {b}]
      BY <1>17 DEF UnlinkBlob
    <2>2. [op[o] EXCEPT !.cands = @ \ {b}] \in Op
      BY <1>o DEF Op
    <2>3. op' \in [Owners -> Op]
      BY <2>1, <2>2
    <2> QED
      BY <1>17, <2>1, <2>3 DEF UnlinkBlob
  <1>18. CASE Finish(o)
    BY <1>18, <1>o DEF Finish, End, Release, Labels
  <1>19. CASE FailOperation(o)
    BY <1>19, <1>o DEF FailOperation, End, Labels
  <1>20. CASE KillCall(o)
    <2>1. Touched(o) \subseteq Dirs \cup {ObjectsDir}
      BY <1>o DEF Touched
    <2> QED
      BY <1>20, <2>1, <1>o DEF KillCall, End, Labels
  <1> QED
    BY <1>1, <1>2, <1>3, <1>4, <1>5, <1>6, <1>7, <1>8, <1>9, <1>10, <1>11, <1>12,
       <1>13, <1>14, <1>15, <1>16, <1>17, <1>18, <1>19, <1>20

\* The steps of one operation, as a single alternative for each.
Step(o) ==
    \/ \E s \in States, explicit \in BOOLEAN : BeginOperation(o, s, explicit)
    \/ EndUnchanged(o)
    \/ FirstWrite(o) \/ FirstWriteExplicit(o)
    \/ SaveBlob(o) \/ SavePreimageCatalog(o) \/ Reopen(o)
    \/ \E s \in States : EndBody(o, s)
    \/ SaveCommittedCatalog(o)
    \/ MarkPreimage(o) \/ MarkCommitted(o)
    \/ Scan(o) \/ UnlinkCompletion(o) \/ UnlinkCatalog(o)
    \/ Collect(o) \/ UnlinkBlob(o) \/ Finish(o)
    \/ FailOperation(o) \/ KillCall(o)

\* A step that leaves the store alone and ends in a phase about nothing.
LEMMA QuietStep ==
    ASSUME IInv, StoreTypeOK', NEW o \in Owners,
           UNCHANGED <<blobs, catalogs, completed, unfinished, newest>>,
           \A q \in Owners \ {o} : stage'[q] = stage[q] /\ op'[q] = op[q],
           op'[o].dir.owner = o /\ op'[o].retire \subseteq op[o].retire,
           stage'[o] \in {"idle", "body", "writing", "save"},
           stage'[o] = "save" => lock' = o,
           \A q \in Owners \ {o} : stage[q] \in Holding => lock' = q
    PROVE  IInv'
  <1> USE DEF Holding
  <1>1. LockHeld'
    BY DEF IInv, LockHeld
  <1>2. CatalogsWhole'
    BY DEF IInv, CatalogsWhole, References
  <1>3. UnfinishedSafe'
    BY DEF IInv, UnfinishedSafe
  <1>4. NewestSafe'
    BY DEF IInv, NewestSafe
  <1>5. DirAtHand'
    BY DEF IInv, DirAtHand, Preimage
  <1>6. CandidatesFree'
    BY DEF IInv, CandidatesFree, References
  <1>7. OwnDirs'
    BY DEF IInv, OwnDirs
  <1> QED
    BY <1>1, <1>2, <1>3, <1>4, <1>5, <1>6, <1>7 DEF IInv

\* A step under the lock: everybody else is in a phase without it.
LEMMA Alone ==
    ASSUME IInv, NEW o \in Owners, lock \in {o, NoOwner}
    PROVE  \A q \in Owners \ {o} : stage[q] \notin Holding
  BY StoreAssumption DEF IInv, LockHeld

LEMMA StepIInv ==
    ASSUME IInv, StoreTypeOK', NEW o \in Owners, Step(o)
    PROVE  IInv'
  <1> USE DEF store
  <1>t. StoreTypeOK /\ stage \in [Owners -> Labels] /\ op \in [Owners -> Op]
    BY DEF IInv, StoreTypeOK
  <1>o. /\ op[o] \in Op
        /\ op[o].base \in States /\ op[o].dir \in Dirs
        /\ op[o].retire \in SUBSET Dirs /\ op[o].cands \in SUBSET Blobs
        /\ Preimage(o, op[o].base) \in Dirs
        /\ \A s \in States : Committed(o, s) \in Dirs
    BY <1>t, OpTyped
  <1>h. /\ \A q \in Owners : stage[q] \in Holding => lock = q
        /\ lock = NoOwner => \A q \in Owners : stage[q] \notin Holding
    BY StoreAssumption DEF IInv, LockHeld
  <1>d. op[o].dir.owner = o /\ \A d \in op[o].retire : d.owner = o
    BY DEF IInv, OwnDirs
  <1>1. CASE \E s \in States, explicit \in BOOLEAN : BeginOperation(o, s, explicit)
    <2>1. op'[o].dir.owner = o /\ op'[o].retire \subseteq op[o].retire
      BY <1>1, <1>t, <1>d DEF BeginOperation, Goto, NoOp, Preimage, Committed, Op
    <2> QED
      BY <1>1, <1>t, <1>h, <2>1, QuietStep DEF BeginOperation, Goto
  <1>2. CASE EndUnchanged(o)
    <2>1. op'[o].dir.owner = o /\ op'[o].retire \subseteq op[o].retire
      BY <1>2, <1>t, <1>d DEF EndUnchanged, End, NoOp, Preimage, Committed, Op
    <2> QED
      BY <1>2, <1>t, <1>h, <2>1, QuietStep DEF EndUnchanged, End
  <1>3. CASE FirstWrite(o)
    <2>1. op'[o].dir.owner = o /\ op'[o].retire \subseteq op[o].retire
      BY <1>3, <1>t, <1>d DEF FirstWrite, Goto, Acquire, NoOp, Preimage, Committed, Op
    <2> QED
      BY <1>3, <1>t, <1>h, <2>1, QuietStep DEF FirstWrite, Goto, Acquire
  <1>4. CASE FirstWriteExplicit(o)
    <2>1. op'[o].dir.owner = o /\ op'[o].retire \subseteq op[o].retire
      BY <1>4, <1>t, <1>d DEF FirstWriteExplicit, Goto, NoOp, Preimage, Committed, Op
    <2> QED
      BY <1>4, <1>t, <1>h, <2>1, QuietStep DEF FirstWriteExplicit, Goto
  <1>8. CASE \E s \in States : EndBody(o, s)
    <2>1. op'[o].dir.owner = o /\ op'[o].retire \subseteq op[o].retire
      BY <1>8, <1>t, <1>d DEF EndBody, Goto, Acquire, NoOp, Preimage, Committed, Op
    <2> QED
      BY <1>8, <1>t, <1>h, <2>1, QuietStep DEF EndBody, Goto, Acquire
  <1>5. CASE SaveBlob(o)
    <2>1. CatalogsWhole'
      BY <1>5 DEF SaveBlob, IInv, CatalogsWhole, References
    <2>2. LockHeld' /\ UnfinishedSafe' /\ NewestSafe' /\ DirAtHand' /\ OwnDirs' /\ CandidatesFree'
      BY <1>5 DEF SaveBlob, IInv, LockHeld, UnfinishedSafe, NewestSafe, DirAtHand,
         OwnDirs, CandidatesFree, References, Preimage
    <2> QED
      BY <2>1, <2>2 DEF IInv
  <1>6. CASE SavePreimageCatalog(o)
    <2>a. /\ lock = o /\ stage' = [stage EXCEPT ![o] = "reopen"]
          /\ \A q \in Owners \ {o} : stage[q] \notin Holding /\ stage'[q] = stage[q]
      BY <1>6, <1>t, <1>h, Alone DEF SavePreimageCatalog, Goto, Holding
    <2>1. CatalogsWhole'
      <3>1. BlobsOf[op[o].dir.state] \subseteq blobs
        BY <1>6 DEF SavePreimageCatalog, BlobsSaved
      <3>2. References(catalogs') = References(catalogs) \cup BlobsOf[op[o].dir.state]
        BY <1>6, <1>t, <1>o, ReferencesOf DEF SavePreimageCatalog, StoreTypeOK
      <3> QED
        BY <1>6, <3>1, <3>2 DEF SavePreimageCatalog, IInv, CatalogsWhole
    <2>2. LockHeld' /\ DirAtHand' /\ OwnDirs'
      BY <1>6, <1>t, <2>a DEF SavePreimageCatalog, IInv, LockHeld, DirAtHand, OwnDirs, Preimage, Holding
    <2>3. UnfinishedSafe' /\ NewestSafe'
      BY <1>6, <1>t, <2>a DEF SavePreimageCatalog, IInv, UnfinishedSafe, NewestSafe
    <2>4. CandidatesFree'
      BY <1>6, <1>t, <2>a DEF SavePreimageCatalog, CandidatesFree, Holding
    <2> QED
      BY <2>1, <2>2, <2>3, <2>4 DEF IInv
  <1>7. CASE Reopen(o)
    <2>a. /\ lock = o /\ stage' = [stage EXCEPT ![o] = "writing"]
          /\ \A q \in Owners \ {o} : stage[q] \notin Holding /\ stage'[q] = stage[q]
      BY <1>7, <1>t, <1>h, Alone DEF Reopen, Goto, Release
    <2>1. CatalogsWhole' /\ LockHeld' /\ OwnDirs'
      BY <1>7, <1>t, <2>a DEF Reopen, IInv, CatalogsWhole, LockHeld, OwnDirs, References, Holding
    <2>2. UnfinishedSafe'
      BY <1>7, <1>t, <1>o, <2>a DEF Reopen, IInv, UnfinishedSafe, DirAtHand, StoreTypeOK, Holding
    <2>3. NewestSafe'
      BY <1>7, <1>t, <2>a DEF Reopen, IInv, NewestSafe
    <2>4. DirAtHand'
      BY <1>7, <1>t, <2>a DEF Reopen, IInv, DirAtHand, Holding
    <2>5. CandidatesFree'
      BY <1>7, <1>t, <2>a DEF Reopen, CandidatesFree, Holding
    <2> QED
      BY <2>1, <2>2, <2>3, <2>4, <2>5 DEF IInv
  <1>9. CASE SaveCommittedCatalog(o)
    <2>a. /\ lock = o /\ stage'[o] \in {"retain", "mark"}
          /\ \A q \in Owners \ {o} : stage[q] \notin Holding /\ stage'[q] = stage[q]
      BY <1>9, <1>t, <1>h, Alone DEF SaveCommittedCatalog, Goto, Release
    <2>b. /\ newest' = [newest EXCEPT ![o] = {op[o].dir}]
          /\ catalogs' = catalogs \cup {op[o].dir}
          /\ op[o].dir.kind = "committed" /\ UNCHANGED <<blobs, completed, op, unfinished>>
      BY <1>9 DEF SaveCommittedCatalog
    <2>1. CatalogsWhole'
      <3>1. BlobsOf[op[o].dir.state] \subseteq blobs
        BY <1>9 DEF SaveCommittedCatalog, BlobsSaved
      <3>2. References(catalogs') = References(catalogs) \cup BlobsOf[op[o].dir.state]
        BY <2>b, <1>t, <1>o, ReferencesOf DEF StoreTypeOK
      <3> QED
        BY <2>b, <3>1, <3>2 DEF IInv, CatalogsWhole
    <2>2. LockHeld' /\ CandidatesFree' /\ OwnDirs'
      BY <2>a, <2>b DEF IInv, LockHeld, CandidatesFree, OwnDirs, Holding
    <2>3. UnfinishedSafe'
      BY <2>a, <2>b DEF IInv, UnfinishedSafe, Holding
    <2>4. NewestSafe'
      BY <2>a, <2>b, <1>t DEF IInv, NewestSafe, OwnDirs, StoreTypeOK, Holding
    <2>5. DirAtHand'
      BY <2>a, <2>b, <1>t DEF IInv, DirAtHand, StoreTypeOK, Holding
    <2> QED
      BY <2>1, <2>2, <2>3, <2>4, <2>5 DEF IInv
  <1>10. CASE MarkPreimage(o)
    <2> DEFINE p == Preimage(o, op[o].base)
    <2>a. /\ \A q \in Owners : stage[q] \notin Holding
          /\ lock' = o /\ stage[o] = "mark" /\ stage' = [stage EXCEPT ![o] = "marking"]
      BY <1>10, <1>h DEF MarkPreimage, Goto, Acquire
    <2>b. /\ unfinished' = unfinished \ {p}
          /\ \E t \in Times : completed' = [completed EXCEPT ![p] = t]
          /\ UNCHANGED <<blobs, catalogs, op, newest>>
      BY <1>10 DEF MarkPreimage
    <2>c. completed'[p] \in Times /\ \A d \in Dirs \ {p} : completed'[d] = completed[d]
      BY <2>b, <1>o, <1>t DEF StoreTypeOK
    <2>1. CatalogsWhole' /\ LockHeld' /\ OwnDirs' /\ CandidatesFree'
      BY <2>a, <2>b, <1>t DEF IInv, CatalogsWhole, References, LockHeld, OwnDirs,
         CandidatesFree, Holding
    <2>2. UnfinishedSafe' /\ NewestSafe'
      BY <2>a, <2>b, <2>c, <1>t DEF IInv, UnfinishedSafe, NewestSafe, StoreTypeOK, Holding
    <2>3. DirAtHand'
      <3>1. completed'[p] # NoTime
        BY <2>c, StoreAssumption
      <3> QED
        BY <2>a, <2>b, <3>1, <1>t DEF IInv, DirAtHand, Holding
    <2> QED
      BY <2>1, <2>2, <2>3 DEF IInv
  <1>11. CASE MarkCommitted(o)
    <2>a. /\ lock = o /\ stage[o] = "marking" /\ stage' = [stage EXCEPT ![o] = "retain"]
          /\ \A q \in Owners \ {o} : stage[q] \notin Holding
      BY <1>11, <1>t, <1>h, Alone DEF MarkCommitted, Goto, Release
    <2>b. /\ \A d \in Dirs \ {op[o].dir} : completed'[d] = completed[d]
          /\ op[o].dir.kind = "committed"
          /\ UNCHANGED <<blobs, catalogs, op, newest, unfinished>>
      BY <1>11, <2>a, <1>o, <1>t DEF MarkCommitted, StoreTypeOK, IInv, DirAtHand
    <2>1. CatalogsWhole' /\ LockHeld' /\ OwnDirs' /\ CandidatesFree'
      BY <2>a, <2>b, <1>t DEF IInv, CatalogsWhole, References, LockHeld, OwnDirs,
         CandidatesFree, Holding
    <2>2. UnfinishedSafe' /\ NewestSafe'
      BY <2>a, <2>b, <1>t DEF IInv, UnfinishedSafe, NewestSafe, StoreTypeOK, Holding
    <2>3. DirAtHand'
      BY <2>a, <2>b, <1>t DEF IInv, DirAtHand, Holding
    <2> QED
      BY <2>1, <2>2, <2>3 DEF IInv
  <1>12. CASE Scan(o)
    <2>a. /\ \A q \in Owners : stage[q] \notin Holding
          /\ lock' = o /\ stage[o] = "retain" /\ stage' = [stage EXCEPT ![o] = "retire"]
          /\ UNCHANGED <<blobs, catalogs, completed, newest, unfinished>>
      BY <1>12, <1>h DEF Scan, Goto, Acquire
    <2>b. PICK r \in SUBSET Dirs :
             /\ op' = [op EXCEPT ![o].retire = r]
             /\ \A d \in r : d.owner = o /\ completed[d] # NoTime /\ d # op[o].dir
      <3>1. PICK K \in Latest(Retirable(o, "captured-preimage")),
                 L \in Latest(Retirable(o, "committed")) :
               op' = [op EXCEPT ![o].retire =
                         (Retirable(o, "captured-preimage") \ (K \cup Spared(o)))
                         \cup (Retirable(o, "committed") \ (L \cup Spared(o)))]
        BY <1>12 DEF Scan
      <3> DEFINE r == (Retirable(o, "captured-preimage") \ (K \cup Spared(o)))
                      \cup (Retirable(o, "committed") \ (L \cup Spared(o)))
      <3>2. r \in SUBSET Dirs
        BY <1>t DEF Retirable, StoreTypeOK
      <3>3. \A d \in r : d.owner = o /\ completed[d] # NoTime /\ d # op[o].dir
        BY DEF Retirable, Spared
      <3> QED
        BY <3>1, <3>2, <3>3
    <2>c. /\ op'[o].retire = r /\ op'[o].dir = op[o].dir
          /\ \A q \in Owners \ {o} : op'[q] = op[q]
      BY <2>b, <1>t, <1>o DEF Op
    <2>1. CatalogsWhole' /\ LockHeld' /\ CandidatesFree' /\ DirAtHand'
      BY <2>a, <2>c, <1>t DEF IInv, CatalogsWhole, References, LockHeld, CandidatesFree,
         DirAtHand, Holding
    <2>2. OwnDirs'
      BY <2>b, <2>c DEF IInv, OwnDirs
    <2>3. UnfinishedSafe'
      BY <2>a, <2>b, <2>c, <1>t DEF IInv, UnfinishedSafe, Holding
    <2>4. NewestSafe'
      <3>1. newest[o] = {op[o].dir}
        BY <2>a DEF IInv, DirAtHand
      <3> QED
        BY <2>a, <2>b, <2>c, <3>1, <1>t DEF IInv, NewestSafe, Holding
    <2> QED
      BY <2>1, <2>2, <2>3, <2>4 DEF IInv
  <1>13. CASE UnlinkCompletion(o)
    <2>a. /\ stage[o] = "retire" /\ lock = o
          /\ \A q \in Owners \ {o} : stage[q] \notin Holding
          /\ UNCHANGED <<blobs, catalogs, lock, stage, op, newest, unfinished>>
      BY <1>13, <1>h, Alone DEF UnlinkCompletion, Holding
    <2>b. PICK d \in op[o].retire : completed' = [completed EXCEPT ![d] = NoTime]
      BY <1>13 DEF UnlinkCompletion
    <2>1. CatalogsWhole' /\ LockHeld' /\ CandidatesFree' /\ OwnDirs' /\ NewestSafe'
      BY <2>a DEF IInv, CatalogsWhole, References, LockHeld, CandidatesFree,
         OwnDirs, NewestSafe
    <2>2. DirAtHand'
      BY <2>a DEF IInv, DirAtHand, Holding, Preimage
    <2>3. UnfinishedSafe'
      BY <2>a, <2>b, <1>t DEF IInv, UnfinishedSafe, StoreTypeOK
    <2> QED
      BY <2>1, <2>2, <2>3 DEF IInv
  <1>14. CASE UnlinkCatalog(o)
    <2>a. /\ stage[o] = "retire" /\ lock = o
          /\ \A q \in Owners \ {o} : stage[q] \notin Holding
          /\ UNCHANGED <<blobs, completed, lock, stage, newest, unfinished>>
      BY <1>14, <1>h, Alone DEF UnlinkCatalog, Holding
    <2>b. PICK d \in op[o].retire :
             /\ catalogs' = catalogs \ {d}
             /\ op' = [op EXCEPT ![o].retire = @ \ {d}, ![o].dir = d]
      BY <1>14 DEF UnlinkCatalog
    <2>c. /\ op'[o].retire \subseteq op[o].retire /\ op'[o].dir = d /\ d.owner = o
          /\ \A q \in Owners \ {o} : op'[q] = op[q]
      BY <2>b, <1>t, <1>o, <1>d DEF Op
    <2>1. CatalogsWhole'
      BY <2>a, <2>b, <1>t, <1>o, ReferencesOf DEF IInv, CatalogsWhole, StoreTypeOK
    <2>2. LockHeld' /\ CandidatesFree' /\ OwnDirs'
      BY <2>a, <2>c, <1>d DEF IInv, LockHeld, CandidatesFree, OwnDirs, Holding
    <2>3. UnfinishedSafe'
      <3>1. d \notin unfinished
        BY <2>a, <2>b DEF IInv, UnfinishedSafe
      <3> QED
        BY <2>a, <2>b, <2>c, <3>1 DEF IInv, UnfinishedSafe, Holding
    <2>5. NewestSafe'
      <3>1. \A q \in Owners : d \notin newest[q]
        BY <2>a, <2>b DEF IInv, NewestSafe
      <3> QED
        <4> SUFFICES ASSUME NEW q \in Owners, NEW x \in newest[q]
                     PROVE  /\ x \in catalogs' /\ x.owner = q /\ x.kind = "committed"
                            /\ \A u \in Owners : stage'[u] = "retire" => x \notin op'[u].retire
          BY <2>a DEF NewestSafe
        <4>1. /\ x \in catalogs /\ x.owner = q /\ x.kind = "committed"
              /\ \A u \in Owners : stage[u] = "retire" => x \notin op[u].retire
          BY DEF IInv, NewestSafe
        <4> QED
          BY <2>a, <2>b, <2>c, <3>1, <4>1
    <2>4. DirAtHand'
      <3>1. \A q \in Owners \ {o} : stage[q] \notin Holding /\ op'[q] = op[q]
        BY <2>a, <2>c
      <3> QED
        BY <2>a, <2>b, <3>1 DEF IInv, DirAtHand, Holding
    <2> QED
      BY <2>1, <2>2, <2>3, <2>4, <2>5 DEF IInv
  <1>15. CASE Collect(o)
    <2>a. /\ stage[o] = "retire" /\ lock = o /\ stage' = [stage EXCEPT ![o] = "collect"]
          /\ \A q \in Owners \ {o} : stage[q] \notin Holding
          /\ UNCHANGED <<blobs, catalogs, completed, lock, newest, unfinished>>
      BY <1>15, <1>h, Alone DEF Collect, Goto, Holding
    <2>b. PICK c \in SUBSET Blobs : /\ op' = [op EXCEPT ![o].cands = c]
                                    /\ c \cap References(catalogs) = {}
      <3> DEFINE c == IF debris = {} THEN blobs \ Referenced(o) ELSE {}
      <3>1. c \in SUBSET Blobs /\ c \cap References(catalogs) = {}
        BY <1>t DEF Referenced, StoreTypeOK
      <3>2. op' = [op EXCEPT ![o].cands = c]
        BY <1>15 DEF Collect
      <3> QED
        BY <3>1, <3>2
    <2>c. /\ op'[o].cands = c /\ op'[o].dir = op[o].dir
          /\ op'[o].retire = op[o].retire /\ op'[o].base = op[o].base
          /\ \A q \in Owners \ {o} : op'[q] = op[q]
      BY <2>b, <1>t, <1>o DEF Op
    <2>1. CatalogsWhole' /\ LockHeld' /\ OwnDirs'
      BY <2>a, <2>c, <1>t DEF IInv, CatalogsWhole, References, LockHeld, OwnDirs, Holding
    <2>2. CandidatesFree'
      BY <2>a, <2>b, <2>c, <1>t DEF CandidatesFree, References, Holding
    <2>3. UnfinishedSafe' /\ NewestSafe'
      BY <2>a, <2>c, <1>t DEF IInv, UnfinishedSafe, NewestSafe, Holding
    <2>4. DirAtHand'
      BY <2>a, <2>c, <1>t DEF IInv, DirAtHand, Holding
    <2> QED
      BY <2>1, <2>2, <2>3, <2>4 DEF IInv
  <1>16. CASE UnlinkBlob(o)
    <2>a. /\ stage[o] = "collect" /\ lock = o
          /\ \A q \in Owners \ {o} : stage[q] \notin Holding
          /\ UNCHANGED <<catalogs, completed, lock, stage, newest, unfinished>>
      BY <1>16, <1>h, Alone DEF UnlinkBlob, Holding
    <2>b. PICK b \in op[o].cands : /\ blobs' = blobs \ {b}
                                   /\ op' = [op EXCEPT ![o].cands = @ \ {b}]
      BY <1>16 DEF UnlinkBlob
    <2>c. /\ op'[o].cands \subseteq op[o].cands /\ op'[o].dir = op[o].dir
          /\ op'[o].retire = op[o].retire /\ op'[o].base = op[o].base
          /\ \A q \in Owners \ {o} : op'[q] = op[q]
      BY <2>b, <1>t, <1>o DEF Op
    <2>d. b \notin References(catalogs) /\ References(catalogs') = References(catalogs)
      BY <2>a, <2>b DEF IInv, CandidatesFree
    <2>1. CatalogsWhole'
      BY <2>b, <2>d DEF IInv, CatalogsWhole
    <2>2. LockHeld' /\ OwnDirs' /\ CandidatesFree'
      BY <2>a, <2>c, <2>d DEF IInv, LockHeld, OwnDirs, CandidatesFree, Holding
    <2>3. UnfinishedSafe' /\ NewestSafe'
      BY <2>a, <2>c DEF IInv, UnfinishedSafe, NewestSafe
    <2>4. DirAtHand'
      BY <2>a, <2>c DEF IInv, DirAtHand, Holding
    <2> QED
      BY <2>1, <2>2, <2>3, <2>4 DEF IInv
  <1>17. CASE Finish(o)
    <2>1. op'[o].dir.owner = o /\ op'[o].retire \subseteq op[o].retire
      BY <1>17, <1>t, <1>d DEF Finish, End, Release, Holding, NoOp, Preimage, Committed, Op
    <2> QED
      BY <1>17, <1>t, <1>h, <2>1, QuietStep DEF Finish, End, Release, Holding
  <1>18. CASE FailOperation(o)
    <2>1. op'[o].dir.owner = o /\ op'[o].retire \subseteq op[o].retire
      BY <1>18, <1>t, <1>d DEF FailOperation, End, NoOp, Preimage, Committed, Op
    <2> QED
      BY <1>18, <1>t, <1>h, <2>1, QuietStep DEF FailOperation, End
  <1>19. CASE KillCall(o)
    <2>1. op'[o].dir.owner = o /\ op'[o].retire \subseteq op[o].retire
      BY <1>19, <1>t, <1>d DEF KillCall, End, NoOp, Preimage, Committed, Op
    <2> QED
      BY <1>19, <1>t, <1>h, <2>1, QuietStep DEF KillCall, End
  <1> QED
    BY <1>1, <1>2, <1>3, <1>4, <1>5, <1>6, <1>7, <1>8, <1>9, <1>10,
       <1>11, <1>12, <1>13, <1>14, <1>15, <1>16, <1>17, <1>18, <1>19 DEF Step

LEMMA Inductive == IInv /\ [StoreNext]_storeVars => IInv'
  <1> SUFFICES ASSUME IInv, [StoreNext]_storeVars PROVE IInv'
    OBVIOUS
  <1>1. CASE StoreNext
    <2>1. StoreTypeOK'
      BY <1>1, StepTypeOK DEF IInv
    <2>2. \E o \in Owners : Step(o)
      BY <1>1 DEF StoreNext, Step
    <2> QED
      BY <2>1, <2>2, StepIInv
  <1>2. CASE UNCHANGED storeVars
    BY <1>2 DEF storeVars, IInv, StoreTypeOK, LockHeld, CatalogsWhole, UnfinishedSafe, NewestSafe,
       DirAtHand, OwnDirs, CandidatesFree, References, Preimage
  <1> QED
    BY <1>1, <1>2

LEMMA Invariance == StoreSpec => []IInv
  BY InitIInv, Inductive, PTL DEF StoreSpec

\* The store and the operations on it stay well typed.
THEOREM StoreTypeCorrect == StoreSpec => []StoreTypeOK
  <1>1. IInv => StoreTypeOK
    BY DEF IInv
  <1> QED
    BY <1>1, Invariance, PTL

\* Every catalog in the store can be loaded completely: neither a collection
\* by another wiki nor a killed save leaves one that lacks a blob.
THEOREM CatalogsStayWhole == StoreSpec => []CatalogsWhole
  <1>1. IInv => CatalogsWhole
    BY DEF IInv
  <1> QED
    BY <1>1, Invariance, PTL

\* What an interrupted operation would be undone from is there for good, and
\* so is the last state every wiki saved.
THEOREM NothingNeededRetired == StoreSpec => []NeededKept
  <1>1. IInv => NeededKept
    BY DEF IInv, UnfinishedSafe, NewestSafe, NeededKept
  <1> QED
    BY <1>1, Invariance, PTL

(***************************************************************************)
(* Write operations and recovery                                           *)
(***************************************************************************)


CurType == [mode : {"none", "write", "recover"}, base : Wikis, target : Wikis,
            started : BOOLEAN, changed : BOOLEAN, images : [Files -> SUBSET Images],
            plan : Seq(Writes), pend : Writes]

(***************************************************************************)
(* The invariant: how the running operation, the journals and the wiki fit *)
(***************************************************************************)

Modes ==
    /\ pc = "idle" <=> cur.mode = "none"
    /\ pc = "close" => cur.mode = "recover"
    /\ pc \in {"save", "journal"} => cur.mode = "write"
    /\ pc # "idle" => ops > 0

\* An operation makes planned writes only.
Planned ==
    cur.mode = "write" =>
        /\ \A i \in 1..Len(cur.plan) : cur.plan[i] \in PlannedWrites
        /\ pc # "next" => cur.pend \in PlannedWrites

\* A journal knows the captured image of a file and images planned for it.
Known(files, images) ==
    \A f \in Files : \A x \in images[f] :
        x = files[f] \/ \E w \in PlannedWrites : w.file = f /\ w.content = x

Journals ==
    /\ \A s \in saved : Owned(s.files) /\ Known(s.files, s.images)
    /\ \A c \in committed : Owned(c)
    /\ \A o \in open : o.files[Marker] # Absent

\* The journal of an operation knows what it captured and expects, what it is
\* about to write, and every file that no author changed.
Basis ==
    cur.mode = "write" =>
        /\ Owned(cur.base) /\ Owned(expected) /\ Known(cur.base, cur.images)
        /\ \A f \in Files : cur.base[f] \in cur.images[f] /\ expected[f] \in cur.images[f]
        /\ \A f \in Files \ touched : disk[f] \in cur.images[f]
        /\ pc \in {"replace", "readBack"} => cur.pend.content \in cur.images[cur.pend.file]

\* Once there is something to recover, the saved journal is the operation's.
Opened ==
    cur.mode = "write" =>
        /\ pc = "save" => ~cur.started
        /\ pc = "journal" => cur.started
        /\ ~cur.started => open = {}
        /\ open \subseteq {[kind |-> "captured-preimage", files |-> cur.base]}
        /\ open # {} => \A s \in saved : s.files = cur.base => s.images = cur.images

\* What an author wrote into a file.
Authored(f) == {e.content : e \in {d \in Edits : d.file = f}} \ {Absent}

\* A recovery writes what its target holds, and only over what no author wrote.
Restoring ==
    cur.mode = "recover" =>
        /\ cur.target[Marker] # Absent /\ cur.target[Manifest] # Absent
        /\ \A o \in open : o.files = cur.target
        /\ \A f \in Files : expected[f] \in Authored(f) => expected[f] = cur.target[f]
        /\ pc \in {"replace", "readBack"} => /\ cur.pend.content = cur.target[cur.pend.file]
                                             /\ ~cur.pend.plain
        /\ pc = "replace" => expected[cur.pend.file] \notin Authored(cur.pend.file)

\* The wiki holds what a recovery of the open snapshot may replace.
Eligibles ==
    ~hurt => \A o \in open : \A s \in SavedAs(o) : \A f \in Files \ touched :
                 disk[f] \in Eligible(o.kind, s, f)

\* A touched file is what an author made of it.
Touches == \A f \in touched \ {Private} : disk[f] \in Authored(f) \cup {Absent}

\* The manifest is the last file that is restored.
Last ==
    cur.mode = "recover" /\ pc = "replace" /\ cur.pend.file = Manifest =>
        \A f \in Files \ {Manifest} : disk[f] = cur.target[f] \/ f \in touched

TypeInv == TypeOK /\ Modes
Inv == /\ TypeInv /\ Planned /\ Journals /\ Basis /\ Opened
       /\ Restoring /\ Eligibles /\ Touches /\ Last


(***************************************************************************)
(* Type correctness                                                        *)
(***************************************************************************)

LEMMA ConstantTypes ==
    /\ MaxOps \in Nat /\ MaxEdits \in Nat
    /\ Absent \in Images /\ FirstWiki \in Wikis
    /\ {Marker, Manifest, Private} \subseteq Files /\ Generated \subseteq Files
    /\ NoWrite \in Writes /\ NoImages \in [Files -> SUBSET Images]
    /\ Idle \in CurType
<1>1. NoWrite \in Writes /\ NoImages \in [Files -> SUBSET Images]
  BY WikiAssumption DEF NoWrite, Writes, Images, NoImages
<1>2. <<>> \in Seq(Writes)
  OBVIOUS
<1> QED
  BY <1>1, <1>2, WikiAssumption DEF Idle, CurType, Images

LEMMA PlannedType == PlannedWrites \subseteq Writes
<1> SUFFICES ASSUME NEW p \in Plans, NEW i \in 1..Len(p) PROVE p[i] \in Writes
  BY DEF PlannedWrites
<1> QED
  BY WikiAssumption

LEMMA TypeInit == Init => TypeInv
<1> SUFFICES ASSUME Init PROVE TypeInv
  OBVIOUS
<1>1. TypeOK
  <2>1. 0 \in 0..MaxOps /\ 0 \in 0..MaxEdits /\ FirstWiki \in Wikis /\ Idle \in CurType
    BY ConstantTypes
  <2> QED
    BY <2>1 DEF Init, TypeOK, CurType
<1>2. Modes
  BY DEF Init, Modes, Idle
<1> QED
  BY <1>1, <1>2 DEF TypeInv

LEMMA BeginType ==
    ASSUME TypeInv, NEW plan \in Plans, Begin(plan) PROVE TypeInv'
<1> USE DEF TypeInv, TypeOK, Modes, Begin
<1>1. cur' \in CurType
  <2>1. plan \in Seq(Writes)
    BY WikiAssumption
  <2>2. [f \in Files |-> {disk[f]}] \in [Files -> SUBSET Images]
    BY DEF Wikis
  <2> QED
    BY <2>1, <2>2, ConstantTypes DEF CurType, Idle
<1>2. cur'.mode = "write" /\ ops' > 0 /\ ops' \in 0..MaxOps
  BY ConstantTypes DEF Idle
<1>3. pc' = "next" /\ expected' \in Wikis /\ open' = {} /\ touched' = {} /\ hurt' = FALSE
  OBVIOUS
<1> HIDE DEF Begin
<1>4. UNCHANGED <<disk, saved, committed, edits>>
  BY DEF Begin
<1>5. TypeOK'
  BY <1>1, <1>2, <1>3, <1>4 DEF CurType
<1>6. Modes'
  BY <1>2, <1>3
<1> QED
  BY <1>5, <1>6

LEMMA RecoverType ==
    ASSUME TypeInv, NEW kind \in {"captured-preimage", "committed"}, NEW s,
           s.files \in Wikis, Recover(kind, s)
    PROVE  TypeInv'
<1> USE DEF TypeInv, TypeOK, Modes, Recover
<1>1. cur' \in CurType
  BY ConstantTypes DEF CurType, Idle
<1>2. cur'.mode = "recover" /\ ops' > 0 /\ ops' \in 0..MaxOps
  BY ConstantTypes DEF Idle
<1>3. pc' = "next" /\ expected' \in Wikis /\ hurt' = FALSE
      /\ UNCHANGED <<disk, saved, committed, touched, edits>>
  OBVIOUS
<1>4. \A o \in open' : o \in [kind : {"captured-preimage", "committed"}, files : Wikis]
  OBVIOUS
<1> HIDE DEF Recover
<1>5. TypeOK'
  BY <1>1, <1>2, <1>3, <1>4 DEF CurType
<1>6. Modes'
  BY <1>2, <1>3
<1> QED
  BY <1>5, <1>6

LEMMA TypeStep == TypeInv /\ [Next]_vars => TypeInv'
<1> SUFFICES ASSUME TypeInv, [Next]_vars PROVE TypeInv'
  OBVIOUS
<1>t. cur \in CurType /\ disk \in [Files -> Images] /\ expected \in [Files -> Images]
  BY DEF TypeInv, TypeOK, CurType, Wikis
<1>p. cur.pend.file \in Files /\ cur.pend.content \in Images
      /\ cur.images \in [Files -> SUBSET Images]
  BY <1>t DEF CurType, Writes
<1> USE DEF TypeInv, TypeOK, Modes
<1>1. CASE \E plan \in Plans : Begin(plan)
  BY <1>1, BeginType
<1>2. CASE BeforeWrite
  <2>1. cur.plan \in Seq(Writes) /\ cur.plan # <<>>
    BY <1>t, <1>2 DEF BeforeWrite, CurType
  <2>2. Head(cur.plan) \in Writes /\ Tail(cur.plan) \in Seq(Writes)
    BY <2>1
  <2>3. cur' \in CurType /\ cur'.mode = cur.mode
    BY <1>t, <1>2, <2>2 DEF BeforeWrite, CurType
  <2>4. pc' \in {"replace", "journal", "save"} /\ cur.mode = "write" /\ pc = "next"
    BY <1>2 DEF BeforeWrite
  <2>5. UNCHANGED <<disk, expected, saved, committed, open, touched, hurt, ops, edits>>
    BY <1>2 DEF BeforeWrite
  <2>6. TypeOK'
    BY <2>3, <2>4, <2>5 DEF CurType
  <2>7. Modes'
    BY <2>3, <2>4, <2>5
  <2> QED
    BY <2>6, <2>7
<1>3. CASE SavePreimage
  <2>1. cur' \in CurType /\ cur'.mode = cur.mode
    BY <1>t, <1>3 DEF SavePreimage, CurType
  <2>2. [files |-> cur.base, images |-> NoImages] \in Snapshots
    BY <1>t, ConstantTypes DEF CurType, Snapshots
  <2> QED
    BY <1>3, <2>1, <2>2 DEF SavePreimage, CurType
<1>4. CASE WriteJournal
  <2> DEFINE images == [cur.images EXCEPT ![cur.pend.file] = @ \cup {cur.pend.content}]
  <2>1. images \in [Files -> SUBSET Images]
    BY <1>p
  <2>2. cur' \in CurType /\ cur'.mode = cur.mode
    BY <1>t, <1>4, <2>1 DEF WriteJournal, CurType
  <2>3. [files |-> cur.base, images |-> images] \in Snapshots
    BY <1>t, <2>1 DEF CurType, Snapshots
  <2> HIDE DEF images
  <2>4. saved' \subseteq Snapshots /\ \A s, t \in saved' : s.files = t.files => s = t
    <3>1. saved' = {s \in saved : s.files # cur.base}
                   \cup {[files |-> cur.base, images |-> images]}
      BY <1>4 DEF WriteJournal, images
    <3> QED
      BY <2>3, <3>1
  <2>5. \A o \in open' : o \in [kind : {"captured-preimage", "committed"}, files : Wikis]
    BY <1>t, <1>4 DEF WriteJournal, CurType
  <2> QED
    BY <1>4, <2>2, <2>4, <2>5 DEF WriteJournal, CurType
<1>5. CASE Replace
  <2>1. disk' \in Wikis
    BY <1>p, <1>t, <1>5 DEF Replace, Wikis
  <2> QED
    BY <1>5, <2>1 DEF Replace
<1>6. CASE AfterWrite
  <2>1. expected' \in Wikis
    BY <1>p, <1>t, <1>6 DEF AfterWrite, Wikis
  <2>2. cur' \in CurType /\ cur'.mode = cur.mode
    BY <1>t, <1>6 DEF AfterWrite, CurType
  <2>3. pc' \in {"next", "close"} /\ (pc' = "close" => cur.mode = "recover") /\ pc # "idle"
    BY <1>6 DEF AfterWrite
  <2> QED
    BY <1>6, <2>1, <2>2, <2>3 DEF AfterWrite, CurType
<1>7. CASE Commit
  BY <1>7, ConstantTypes DEF Commit, CurType, Idle
<1>8. CASE \E s \in saved : Recover("captured-preimage", s)
  BY <1>8, RecoverType DEF Snapshots
<1>9. CASE \E c \in committed : Recover("committed", [files |-> c, images |-> NoImages])
  BY <1>9, RecoverType
<1>10. CASE \E f \in Files : RestoreNext(f)
  <2>1. PICK f \in Files : RestoreNext(f)
    BY <1>10
  <2>2. [file |-> f, content |-> cur.target[f], plain |-> FALSE] \in Writes
    BY <1>t DEF CurType, Wikis, Writes
  <2>3. cur' \in CurType /\ cur'.mode = cur.mode
    BY <1>t, <2>1, <2>2 DEF RestoreNext, CurType
  <2> QED
    BY <2>1, <2>3 DEF RestoreNext, CurType
<1>11. CASE Close
  BY <1>11, ConstantTypes DEF Close, CurType, Idle
<1>12. CASE Fail
  BY <1>12, ConstantTypes DEF Fail, CurType, Idle
<1>13. CASE Kill
  <2>1. ops \in 1..MaxOps
    BY <1>13 DEF Kill
  <2>2. ops \in Images
    BY <2>1 DEF Images
  <2>3. disk' \in Wikis
    BY <1>p, <1>t, <1>13, <2>2, ConstantTypes DEF Kill, Wikis
  <2> QED
    BY <1>13, <2>3, ConstantTypes DEF Kill, CurType, Idle
<1>14. CASE CleanUp
  BY <1>14, ConstantTypes DEF CleanUp, Wikis
<1>15. CASE \E e \in Edits : Edit(e)
  <2>1. PICK e \in Edits : Edit(e)
    BY <1>15
  <2>2. e.file \in Files /\ e.content \in Images
    BY WikiAssumption DEF Images
  <2> QED
    BY <2>1, <2>2, <1>t, ConstantTypes DEF Edit, Wikis
<1>16. CASE UNCHANGED vars
  BY <1>16 DEF vars
<1> QED
  BY <1>1, <1>2, <1>3, <1>4, <1>5, <1>6, <1>7, <1>8, <1>9, <1>10, <1>11, <1>12, <1>13, <1>14,
     <1>15, <1>16 DEF Next

\* Every reachable state has the types, and the modes go with the program counter.
THEOREM TypeCorrect == Spec => []TypeOK
<1> QED
  BY TypeInit, TypeStep, PTL DEF Spec, TypeInv


(***************************************************************************)
(* Each part of the invariant is kept by every step                        *)
(***************************************************************************)

\* What the running operation is after a step.
Outside == CleanUp \/ (\E e \in Edits : Edit(e)) \/ UNCHANGED vars
Ends == Commit \/ Close \/ Fail \/ Kill
Undoes == \/ \E s \in saved : Recover("captured-preimage", s)
          \/ \E c \in committed : Recover("committed", [files |-> c, images |-> NoImages])

LEMMA OutsideKeeps == Outside => UNCHANGED <<pc, cur, expected, saved, committed, open, hurt>>
BY DEF Outside, CleanUp, Edit, vars

LEMMA EndsIdle == Ends => /\ cur'.mode = "none" /\ pc' = "idle"
                          /\ UNCHANGED <<expected, saved>>
                          /\ open' \in {{}, open}
BY DEF Ends, Commit, Close, Fail, Kill, Idle

LEMMA UndoesRecovers ==
    Undoes => /\ cur'.mode = "recover" /\ pc' = "next" /\ expected' = disk
              /\ UNCHANGED <<disk, saved, committed, touched>>
BY DEF Undoes, Recover, Idle

\* The steps, as the lemmas below take them.
LEMMA Steps ==
    [Next]_vars <=>
        \/ \E plan \in Plans : Begin(plan)
        \/ BeforeWrite \/ SavePreimage \/ WriteJournal \/ Replace \/ AfterWrite
        \/ Undoes \/ (\E f \in Files : RestoreNext(f)) \/ Ends \/ Outside
BY DEF Next, Undoes, Ends, Outside

\* What a step of a running operation does to its record.
LEMMA Records ==
    ASSUME TypeInv
    PROVE  /\ BeforeWrite => cur' = [cur EXCEPT !.pend = Head(cur.plan), !.plan = Tail(cur.plan)]
           /\ SavePreimage => /\ cur'.mode = cur.mode /\ cur'.base = cur.base
                              /\ cur'.images = cur.images /\ cur'.plan = cur.plan
                              /\ cur'.pend = cur.pend /\ cur'.started = TRUE
           /\ WriteJournal => /\ cur'.mode = cur.mode /\ cur'.base = cur.base
                              /\ cur'.started = cur.started /\ cur'.plan = cur.plan
                              /\ cur'.pend = cur.pend
                              /\ cur'.images = [cur.images EXCEPT ![cur.pend.file] =
                                                    @ \cup {cur.pend.content}]
           /\ AfterWrite => /\ cur'.mode = cur.mode /\ cur'.base = cur.base
                            /\ cur'.started = cur.started /\ cur'.plan = cur.plan
                            /\ cur'.pend = cur.pend /\ cur'.images = cur.images
                            /\ cur'.target = cur.target
           /\ \A f \in Files : RestoreNext(f) =>
                 /\ cur'.mode = cur.mode /\ cur'.target = cur.target
                 /\ cur'.pend = [file |-> f, content |-> cur.target[f], plain |-> FALSE]
BY DEF TypeInv, TypeOK, BeforeWrite, SavePreimage, WriteJournal, AfterWrite, RestoreNext

LEMMA BeforeRecord ==
    ASSUME TypeInv, BeforeWrite
    PROVE  /\ cur'.mode = "write" /\ cur'.base = cur.base /\ cur'.images = cur.images
           /\ cur'.started = cur.started
           /\ cur'.pend = Head(cur.plan) /\ cur'.plan = Tail(cur.plan)
           /\ cur.plan # <<>> /\ cur.plan \in Seq(Writes) /\ pc' # "idle" /\ pc' # "readBack"
BY DEF TypeInv, TypeOK, BeforeWrite

LEMMA PlannedStep == TypeInv /\ Planned /\ [Next]_vars => Planned'
<1> SUFFICES ASSUME TypeInv, Planned, [Next]_vars PROVE Planned'
  OBVIOUS
<1>1. CASE \E plan \in Plans : Begin(plan)
  <2>1. PICK plan \in Plans : Begin(plan)
    BY <1>1
  <2>2. cur'.plan = plan /\ pc' = "next"
    BY <2>1 DEF Begin, Idle
  <2> QED
    BY <2>2 DEF Planned, PlannedWrites
<1>2. CASE BeforeWrite
  <2>1. cur.mode = "write" /\ \A i \in 1..Len(cur.plan) : cur.plan[i] \in PlannedWrites
    BY <1>2 DEF BeforeWrite, Planned
  <2>2. Head(cur.plan) = cur.plan[1] /\ 1 \in 1..Len(cur.plan)
    BY <1>2, BeforeRecord
  <2>3. \A i \in 1..Len(Tail(cur.plan)) :
            Tail(cur.plan)[i] = cur.plan[i + 1] /\ i + 1 \in 1..Len(cur.plan)
    BY <1>2, BeforeRecord
  <2> QED
    BY <1>2, <2>1, <2>2, <2>3, BeforeRecord DEF Planned
<1>3. CASE SavePreimage \/ WriteJournal
  BY <1>3, Records DEF SavePreimage, WriteJournal, Planned
<1>4. CASE Replace
  BY <1>4 DEF Replace, Planned
<1>5. CASE AfterWrite
  BY <1>5, Records DEF AfterWrite, Planned
<1>6. CASE Undoes \/ Ends
  BY <1>6, UndoesRecovers, EndsIdle DEF Planned
<1>7. CASE \E f \in Files : RestoreNext(f)
  BY <1>7, Records DEF RestoreNext, Planned
<1>8. CASE Outside
  BY <1>8, OutsideKeeps DEF Planned
<1> QED
  BY <1>1, <1>2, <1>3, <1>4, <1>5, <1>6, <1>7, <1>8, Steps

\* A recovery restores a marker and a manifest.
LEMMA Recovered ==
    ASSUME TypeInv, NEW kind \in {"captured-preimage", "committed"}, NEW s,
           s.files \in Wikis, Recover(kind, s)
    PROVE  /\ s.files[Marker] # Absent /\ s.files[Manifest] # Absent
           /\ cur'.target = s.files /\ open' = {[kind |-> kind, files |-> s.files]}
BY OwnerAssumption DEF Recover, Recoverable, Idle

LEMMA UndoesOpen ==
    ASSUME TypeInv, Undoes
    PROVE  \A o \in open' : /\ o.files = cur'.target
                            /\ o.files[Marker] # Absent /\ o.files[Manifest] # Absent
<1>1. CASE \E s \in saved : Recover("captured-preimage", s)
  <2>1. PICK s \in saved : Recover("captured-preimage", s)
    BY <1>1
  <2>2. s.files \in Wikis
    BY DEF TypeInv, TypeOK, Snapshots
  <2> QED
    BY <2>1, <2>2, Recovered
<1>2. CASE \E c \in committed : Recover("committed", [files |-> c, images |-> NoImages])
  <2>1. PICK c \in committed : Recover("committed", [files |-> c, images |-> NoImages])
    BY <1>2
  <2>2. c \in Wikis
    BY DEF TypeInv, TypeOK
  <2> QED
    BY <2>1, <2>2, Recovered
<1> QED
  BY <1>1, <1>2 DEF Undoes

LEMMA JournalsStep ==
    TypeInv /\ Planned /\ Journals /\ Basis /\ [Next]_vars => Journals'
<1> SUFFICES ASSUME TypeInv, Planned, Journals, Basis, [Next]_vars PROVE Journals'
  OBVIOUS
<1>1. CASE \E plan \in Plans : Begin(plan)
  BY <1>1 DEF Begin, Journals, Owned
<1>2. CASE BeforeWrite \/ Replace \/ AfterWrite \/ \E f \in Files : RestoreNext(f)
  BY <1>2 DEF BeforeWrite, Replace, AfterWrite, RestoreNext, Journals, Owned
<1>3. CASE SavePreimage
  <2> DEFINE new == [files |-> cur.base, images |-> NoImages]
  <2>1. Owned(new.files) /\ Known(new.files, new.images)
    BY <1>3 DEF SavePreimage, Basis, TypeInv, Modes, Known, NoImages
  <2>2. \A s \in saved' : s \in saved \/ s = new
    BY <1>3 DEF SavePreimage
  <2>3. UNCHANGED <<committed, open>>
    BY <1>3 DEF SavePreimage
  <2> QED
    BY <2>1, <2>2, <2>3 DEF Journals, Owned
<1>4. CASE WriteJournal
  <2> DEFINE images == [cur.images EXCEPT ![cur.pend.file] = @ \cup {cur.pend.content}]
             new == [files |-> cur.base, images |-> images]
  <2>1. cur.mode = "write" /\ cur.pend \in PlannedWrites
    BY <1>4 DEF WriteJournal, TypeInv, Modes, Planned
  <2>2. cur.images \in [Files -> SUBSET Images]
    BY DEF TypeInv, TypeOK
  <2>3. Owned(new.files) /\ Known(new.files, new.images)
    BY <2>1, <2>2 DEF Basis, Known
  <2>4. \A s \in saved' : s \in saved \/ s = new
    BY <1>4 DEF WriteJournal
  <2>5. committed' = committed /\ \A o \in open' : o.files = cur.base
    BY <1>4 DEF WriteJournal
  <2> QED
    BY <2>1, <2>3, <2>4, <2>5 DEF Journals, Owned, Basis
<1>5. CASE Undoes
  BY <1>5, UndoesOpen, UndoesRecovers DEF Journals, Owned
<1>6. CASE Ends
  <2>1. CASE Commit
    <3>1. Owned(expected)
      BY <2>1 DEF Commit, Basis
    <3> QED
      BY <2>1, <3>1 DEF Commit, Journals, Owned
  <2>2. CASE Close \/ Fail \/ Kill
    BY <2>2 DEF Close, Fail, Kill, Journals, Owned
  <2> QED
    BY <1>6, <2>1, <2>2 DEF Ends
<1>7. CASE Outside
  BY <1>7, OutsideKeeps DEF Journals, Owned
<1> QED
  BY <1>1, <1>2, <1>3, <1>4, <1>5, <1>6, <1>7, Steps


LEMMA StepKinds ==
    ASSUME TypeInv
    PROVE  /\ disk \in [Files -> Images] /\ expected \in [Files -> Images]
           /\ cur.images \in [Files -> SUBSET Images]
           /\ cur.base \in [Files -> Images] /\ cur.target \in [Files -> Images]
           /\ cur.pend.file \in Files /\ touched \subseteq Files
BY DEF TypeInv, TypeOK, Wikis, Writes

\* Outside a replacement only authors change files, and they are noted.
LEMMA OutsideTouches ==
    ASSUME TypeInv, Outside
    PROVE  /\ touched \subseteq touched'
           /\ \A f \in Files \ touched' : disk'[f] = disk[f]
<1>1. CASE CleanUp
  BY <1>1, StepKinds DEF CleanUp
<1>2. CASE \E e \in Edits : Edit(e)
  BY <1>2, StepKinds DEF Edit
<1>3. CASE UNCHANGED vars
  BY <1>3 DEF vars
<1> QED
  BY <1>1, <1>2, <1>3 DEF Outside

LEMMA BasisStep ==
    TypeInv /\ Planned /\ Basis /\ [Next]_vars => Basis'
<1> SUFFICES ASSUME TypeInv, Planned, Basis, [Next]_vars PROVE Basis'
  OBVIOUS
<1>k. /\ disk \in [Files -> Images] /\ expected \in [Files -> Images]
      /\ cur.images \in [Files -> SUBSET Images] /\ cur.pend.file \in Files
  BY StepKinds
<1>1. CASE \E plan \in Plans : Begin(plan)
  <2>1. PICK plan \in Plans : Begin(plan)
    BY <1>1
  <2>2. /\ cur'.base = disk /\ expected' = disk /\ disk' = disk /\ Owned(disk)
        /\ cur'.images = [f \in Files |-> {disk[f]}] /\ pc' = "next"
    BY <2>1 DEF Begin, Idle
  <2> QED
    BY <2>2 DEF Basis, Known, Owned
<1>2. CASE BeforeWrite
  <2> DEFINE w == Head(cur.plan)
  <2>1. w \in Writes
    BY <1>2, BeforeRecord
  <2>2. pc' = "replace" => disk[w.file] = w.content /\ disk[w.file] = expected[w.file]
    BY <1>2 DEF BeforeWrite, AsExpected
  <2>3. UNCHANGED <<disk, expected, touched>> /\ cur.mode = "write"
    BY <1>2 DEF BeforeWrite
  <2>4. pc' = "replace" => w.content \in cur.images[w.file]
    BY <2>1, <2>2, <2>3 DEF Basis, Writes
  <2>5. /\ cur'.mode = "write" /\ cur'.base = cur.base /\ cur'.images = cur.images
        /\ cur'.pend = w /\ pc' # "readBack"
    BY <1>2, BeforeRecord
  <2> HIDE DEF w
  <2> QED
    BY <2>3, <2>4, <2>5 DEF Basis, Known, Owned
<1>3. CASE SavePreimage
  <2>1. UNCHANGED <<disk, expected, touched>> /\ pc' = "journal"
    BY <1>3 DEF SavePreimage
  <2> QED
    BY <1>3, <2>1, Records DEF Basis, Known, Owned
<1>4. CASE WriteJournal
  <2>1. cur.mode = "write" /\ cur.pend \in PlannedWrites
    BY <1>4 DEF WriteJournal, TypeInv, Modes, Planned
  <2>2. UNCHANGED <<disk, expected, touched>>
    BY <1>4 DEF WriteJournal
  <2>3. /\ cur'.mode = cur.mode /\ cur'.base = cur.base /\ cur'.pend = cur.pend
        /\ cur'.images = [cur.images EXCEPT ![cur.pend.file] = @ \cup {cur.pend.content}]
    BY <1>4, Records
  <2>4. \A f \in Files : cur.images[f] \subseteq cur'.images[f]
    BY <1>k, <2>3
  <2>5. cur.pend.content \in cur'.images[cur.pend.file]
    BY <1>k, <2>3
  <2>6. Known(cur.base, cur'.images)
    BY <1>k, <2>1, <2>3 DEF Basis, Known
  <2> QED
    BY <1>k, <2>1, <2>2, <2>3, <2>4, <2>5, <2>6 DEF Basis, Known, Owned
<1>5. CASE Replace
  <2>1. /\ disk' = [disk EXCEPT ![cur.pend.file] = cur.pend.content]
        /\ touched' = touched \ {cur.pend.file} /\ pc = "replace" /\ pc' = "readBack"
        /\ UNCHANGED <<cur, expected>>
    BY <1>5 DEF Replace
  <2>2. cur.mode = "write" => \A f \in Files \ touched' : disk'[f] \in cur.images[f]
    BY <1>k, <2>1 DEF Basis
  <2> QED
    BY <2>1, <2>2 DEF Basis, Known, Owned
<1>6. CASE AfterWrite
  <2>1. /\ expected' = [expected EXCEPT ![cur.pend.file] = cur.pend.content]
        /\ pc = "readBack" /\ UNCHANGED <<disk, touched>>
    BY <1>6 DEF AfterWrite
  <2>2. cur.mode = "write" => Owned(expected')
    BY <1>k, <2>1, OwnerAssumption, WikiAssumption DEF Basis, Owned, Planned
  <2>3. cur.mode = "write" => \A f \in Files : expected'[f] \in cur.images[f]
    BY <1>k, <2>1 DEF Basis
  <2>4. pc' # "replace" /\ pc' # "readBack"
    BY <1>6 DEF AfterWrite
  <2> QED
    BY <1>6, <2>1, <2>2, <2>3, <2>4, Records DEF Basis, Known, Owned
<1>7. CASE Undoes \/ Ends
  BY <1>7, UndoesRecovers, EndsIdle DEF Basis
<1>8. CASE \E f \in Files : RestoreNext(f)
  BY <1>8, Records DEF RestoreNext, Basis
<1>9. CASE Outside
  BY <1>k, <1>9, OutsideKeeps, OutsideTouches DEF Basis, Known, Owned
<1> QED
  BY <1>1, <1>2, <1>3, <1>4, <1>5, <1>6, <1>7, <1>8, <1>9, Steps

LEMMA OpenedStep == TypeInv /\ Opened /\ [Next]_vars => Opened'
<1> SUFFICES ASSUME TypeInv, Opened, [Next]_vars PROVE Opened'
  OBVIOUS
<1>1. CASE \E plan \in Plans : Begin(plan)
  BY <1>1 DEF Begin, Idle, Opened
<1>2. CASE BeforeWrite
  <2>1. (pc' = "save" => ~cur.started) /\ (pc' = "journal" => cur.started)
    BY <1>2 DEF BeforeWrite, TypeInv, TypeOK
  <2>2. cur.mode = "write" /\ UNCHANGED <<saved, open>>
    BY <1>2 DEF BeforeWrite
  <2> QED
    BY <1>2, <2>1, <2>2, BeforeRecord DEF Opened
<1>3. CASE SavePreimage
  <2>1. cur.mode = "write" /\ ~cur.started /\ open = {}
    BY <1>3 DEF SavePreimage, TypeInv, Modes, Opened
  <2>2. pc' = "journal" /\ open' = open
    BY <1>3 DEF SavePreimage
  <2> QED
    BY <1>3, <2>1, <2>2, Records DEF Opened
<1>4. CASE WriteJournal
  <2>1. cur.mode = "write" /\ pc' = "replace"
        /\ open' = {[kind |-> "captured-preimage", files |-> cur.base]}
    BY <1>4 DEF WriteJournal, TypeInv, Modes
  <2>2. \A s \in saved' : s.files = cur.base => s.images = cur'.images
    <3> DEFINE images == [cur.images EXCEPT ![cur.pend.file] = @ \cup {cur.pend.content}]
    <3>1. cur'.images = images
      BY <1>4, Records
    <3>2. \A s \in saved' : s.files # cur.base \/ s = [files |-> cur.base, images |-> images]
      BY <1>4 DEF WriteJournal
    <3> HIDE DEF images
    <3> QED
      BY <3>1, <3>2
  <2>3. cur'.base = cur.base /\ cur'.started = cur.started
    BY <1>4, Records
  <2>4. cur.started
    BY <1>4, <2>1 DEF WriteJournal, Opened
  <2> QED
    BY <2>1, <2>2, <2>3, <2>4 DEF Opened
<1>5. CASE Replace
  BY <1>5 DEF Replace, Opened
<1>6. CASE AfterWrite
  <2>1. pc' # "save" /\ pc' # "journal" /\ UNCHANGED <<saved, open>>
    BY <1>6 DEF AfterWrite
  <2> QED
    BY <1>6, <2>1, Records DEF Opened
<1>7. CASE Undoes \/ Ends
  BY <1>7, UndoesRecovers, EndsIdle DEF Opened
<1>8. CASE \E f \in Files : RestoreNext(f)
  BY <1>8, Records DEF RestoreNext, Opened
<1>9. CASE Outside
  BY <1>9, OutsideKeeps DEF Opened
<1> QED
  BY <1>1, <1>2, <1>3, <1>4, <1>5, <1>6, <1>7, <1>8, <1>9, Steps


(***************************************************************************)
(* What authors wrote, and what a recovery may replace                     *)
(***************************************************************************)

LEMMA AuthoredOnly ==
    ASSUME NEW f \in Files, NEW x \in Authored(f)
    PROVE  /\ x # Absent /\ f \notin {Marker, Manifest}
           /\ \A w \in PlannedWrites : ~(w.file = f /\ w.content = x)
<1>1. PICK e \in Edits : e.file = f /\ e.content = x /\ x # Absent
  BY DEF Authored
<1> QED
  BY <1>1, AuthorAssumption

LEMMA EligibleIs ==
    ASSUME NEW kind, NEW s, NEW f
    PROVE  \A x : x \in Eligible(kind, s, f) <=>
               \/ x = s.files[f] \/ x \in s.images[f]
               \/ x = Absent /\ f \in {Marker, Manifest}
               \/ x = Absent /\ kind = "committed" /\ Anchored /\ f \in Generated
BY DEF Eligible

LEMMA EligibleNext ==
    ASSUME NEW kind, NEW s, NEW f
    PROVE  \A x : x \in Eligible(kind, s, f)' <=>
               \/ x = s.files[f] \/ x \in s.images[f]
               \/ x = Absent /\ f \in {Marker, Manifest}
               \/ x = Absent /\ kind = "committed" /\ Anchored' /\ f \in Generated
BY DEF Eligible

LEMMA TouchesStep == TypeInv /\ Restoring /\ Touches /\ [Next]_vars => Touches'
<1> SUFFICES ASSUME TypeInv, Restoring, Touches, [Next]_vars PROVE Touches'
  OBVIOUS
<1>k. disk \in [Files -> Images] /\ cur.pend.file \in Files /\ touched \subseteq Files
  BY StepKinds
<1>1. CASE UNCHANGED <<disk, touched>> \/ touched' = {}
  BY <1>1 DEF Touches
<1>2. CASE Replace
  BY <1>k, <1>2 DEF Replace, Touches
<1>3. CASE Kill
  <2>1. SUFFICES ASSUME NEW f \in touched' \ {Private}
                 PROVE  disk'[f] \in Authored(f) \cup {Absent}
    BY DEF Touches
  <2>2. f \in touched \ {Private} /\ (disk'[f] = disk[f] \/ disk'[f] = Absent
                                      \/ (f = cur.pend.file /\ disk'[f] = cur.pend.content))
    BY <1>k, <1>3, <2>1 DEF Kill
  <2>3. ~(f = cur.pend.file /\ disk'[f] = cur.pend.content)
    BY <1>3, <2>1 DEF Kill
  <2> QED
    BY <2>2, <2>3 DEF Touches
<1>4. CASE CleanUp
  BY <1>k, <1>4 DEF CleanUp, Touches
<1>5. CASE \E e \in Edits : Edit(e)
  <2>1. PICK e \in Edits : Edit(e)
    BY <1>5
  <2>2. e.content \in Authored(e.file) \cup {Absent}
    BY DEF Authored
  <2>3. SUFFICES ASSUME NEW f \in touched' \ {Private}
                 PROVE  disk'[f] \in Authored(f) \cup {Absent}
    BY DEF Touches
  <2>4. CASE f = e.file
    <3>1. e.file \in Files
      BY WikiAssumption
    <3>2. disk'[e.file] = e.content
      BY <1>k, <2>1, <3>1 DEF Edit
    <3> QED
      BY <2>2, <2>4, <3>2
  <2>5. CASE f # e.file
    <3>1. f \in touched \ {Private} /\ disk'[f] = disk[f]
      BY <1>k, <2>1, <2>3, <2>5 DEF Edit
    <3> QED
      BY <3>1 DEF Touches
  <2> QED
    BY <2>4, <2>5
<1>6. UNCHANGED <<disk, touched>> \/ touched' = {} \/ Replace \/ Kill \/ CleanUp
      \/ \E e \in Edits : Edit(e)
  BY DEF Next, vars, Begin, BeforeWrite, SavePreimage, WriteJournal, AfterWrite, Commit,
         Recover, RestoreNext, Close, Fail
<1> QED
  BY <1>1, <1>2, <1>3, <1>4, <1>5, <1>6

\* What a recovery finds in a file of an author is what it restores.
LEMMA FindsNoEdit ==
    ASSUME TypeInv, Journals, NEW kind \in {"captured-preimage", "committed"},
           NEW s, Known(s.files, s.images), Recover(kind, s), NEW f \in Files,
           disk[f] \in Authored(f)
    PROVE  disk[f] = s.files[f]
<1>1. disk[f] \in Eligible(kind, s, f)
  BY DEF Recover, Recoverable
<1>2. disk[f] # Absent /\ \A w \in PlannedWrites : ~(w.file = f /\ w.content = disk[f])
  BY AuthoredOnly
<1>3. disk[f] = s.files[f] \/ disk[f] \in s.images[f]
  BY <1>1, <1>2, EligibleIs
<1> QED
  BY <1>2, <1>3 DEF Known

LEMMA UndoesNoEdit ==
    ASSUME TypeInv, Journals, Undoes
    PROVE  /\ cur'.target[Marker] # Absent /\ cur'.target[Manifest] # Absent
           /\ \A f \in Files : disk[f] \in Authored(f) => disk[f] = cur'.target[f]
<1>1. CASE \E s \in saved : Recover("captured-preimage", s)
  <2>1. PICK s \in saved : Recover("captured-preimage", s)
    BY <1>1
  <2>2. s.files \in Wikis /\ Known(s.files, s.images)
    BY DEF TypeInv, TypeOK, Snapshots, Journals
  <2> QED
    BY <2>1, <2>2, Recovered, FindsNoEdit
<1>2. CASE \E c \in committed : Recover("committed", [files |-> c, images |-> NoImages])
  <2>1. PICK c \in committed : Recover("committed", [files |-> c, images |-> NoImages])
    BY <1>2
  <2> DEFINE s == [files |-> c, images |-> NoImages]
  <2>2. s.files \in Wikis /\ Known(s.files, s.images) /\ Recover("committed", s)
    BY <2>1 DEF TypeInv, TypeOK, Known, NoImages
  <2> HIDE DEF s
  <2> QED
    BY <2>2, Recovered, FindsNoEdit
<1> QED
  BY <1>1, <1>2 DEF Undoes

LEMMA RestoringStep ==
    TypeInv /\ Journals /\ Restoring /\ [Next]_vars => Restoring'
<1> SUFFICES ASSUME TypeInv, Journals, Restoring, [Next]_vars PROVE Restoring'
  OBVIOUS
<1>k. /\ expected \in [Files -> Images] /\ cur.pend.file \in Files
      /\ {Marker, Manifest} \subseteq Files
  BY StepKinds, ConstantTypes
<1>1. CASE \E plan \in Plans : Begin(plan)
  BY <1>1 DEF Begin, Idle, Restoring
<1>2. CASE BeforeWrite
  BY <1>2, BeforeRecord DEF Restoring
<1>3. CASE SavePreimage \/ WriteJournal
  BY <1>3, Records DEF SavePreimage, WriteJournal, TypeInv, Modes, Restoring
<1>4. CASE Replace
  BY <1>4 DEF Replace, Restoring, Authored
<1>5. CASE AfterWrite
  <2>1. /\ expected' = [expected EXCEPT ![cur.pend.file] = cur.pend.content]
        /\ pc = "readBack" /\ pc' \notin {"replace", "readBack"} /\ open' = open
    BY <1>5 DEF AfterWrite
  <2>2. cur'.mode = cur.mode /\ cur'.target = cur.target /\ cur'.pend = cur.pend
    BY <1>5, Records
  <2>3. cur.mode = "recover" =>
          \A f \in Files : expected'[f] \in Authored(f) => expected'[f] = cur.target[f]
    BY <1>k, <2>1 DEF Restoring
  <2> QED
    BY <2>1, <2>2, <2>3 DEF Restoring, Authored
<1>6. CASE Undoes
  BY <1>6, UndoesOpen, UndoesNoEdit, UndoesRecovers DEF Restoring, Authored
<1>7. CASE Ends
  BY <1>7, EndsIdle DEF Restoring
<1>8. CASE \E f \in Files : RestoreNext(f)
  <2>1. PICK f \in Files : RestoreNext(f)
    BY <1>8
  <2>2. /\ cur.mode = "recover" /\ f \in NextRestored /\ UNCHANGED <<expected, open>>
        /\ pc' = "replace"
    BY <2>1 DEF RestoreNext
  <2>3. /\ cur'.mode = cur.mode /\ cur'.target = cur.target
        /\ cur'.pend = [file |-> f, content |-> cur.target[f], plain |-> FALSE]
    BY <2>1, Records
  <2>4. f = Manifest \/ expected[f] # cur.target[f]
    BY <2>2 DEF NextRestored, Pending
  <2>5. expected[f] \notin Authored(f)
    BY <1>k, <2>2, <2>4, AuthoredOnly DEF Restoring
  <2> QED
    BY <2>2, <2>3, <2>5 DEF Restoring, Authored
<1>9. CASE Outside
  BY <1>9, OutsideKeeps DEF Restoring, Authored
<1> QED
  BY <1>1, <1>2, <1>3, <1>4, <1>5, <1>6, <1>7, <1>8, <1>9, Steps


LEMMA LastStep == TypeInv /\ Last /\ [Next]_vars => Last'
<1> SUFFICES ASSUME TypeInv, Last, [Next]_vars PROVE Last'
  OBVIOUS
<1>1. CASE \E plan \in Plans : Begin(plan)
  BY <1>1 DEF Begin, Idle, Last
<1>2. CASE BeforeWrite
  BY <1>2, BeforeRecord DEF Last
<1>3. CASE SavePreimage \/ WriteJournal
  BY <1>3, Records DEF SavePreimage, WriteJournal, TypeInv, Modes, Last
<1>4. CASE Replace
  BY <1>4 DEF Replace, Last
<1>5. CASE AfterWrite
  BY <1>5 DEF AfterWrite, Last
<1>6. CASE Undoes \/ Ends
  BY <1>6, UndoesRecovers, EndsIdle DEF Last
<1>7. CASE \E f \in Files : RestoreNext(f)
  <2>1. PICK f \in Files : RestoreNext(f)
    BY <1>7
  <2>r. /\ cur'.target = cur.target
        /\ cur'.pend = [file |-> f, content |-> cur.target[f], plain |-> FALSE]
    BY <2>1, Records
  <2>2. cur'.target = cur.target /\ cur'.pend.file = f
    BY <2>r
  <2>3. f = Manifest => disk = expected /\ Pending = {}
    BY <2>1, WikiAssumption DEF RestoreNext, AsExpected, NextRestored, Pending
  <2>4. UNCHANGED <<disk, touched>>
    BY <2>1 DEF RestoreNext
  <2> QED
    BY <2>2, <2>3, <2>4 DEF Pending, Last
<1>8. CASE Outside
  <2>1. SUFFICES ASSUME cur.mode = "recover", pc = "replace", cur.pend.file = Manifest,
                        NEW f \in Files \ {Manifest}
                 PROVE  disk'[f] = cur.target[f] \/ f \in touched'
    BY <1>8, OutsideKeeps DEF Last
  <2>2. disk[f] = cur.target[f] \/ f \in touched
    BY <2>1 DEF Last
  <2> QED
    BY <1>8, <2>2, OutsideTouches
<1> QED
  BY <1>1, <1>2, <1>3, <1>4, <1>5, <1>6, <1>7, <1>8, Steps

\* A wiki that has one of its owner's files keeps one.
LEMMA StaysAnchored ==
    ASSUME TypeInv, Planned, Restoring, [Next]_vars, ~Kill, Anchored
    PROVE  Anchored'
<1>k. disk \in [Files -> Images] /\ cur.pend.file \in Files /\ {Marker, Manifest} \subseteq Files
  BY StepKinds, ConstantTypes
<1>1. CASE Replace
  <2>1. disk' = [disk EXCEPT ![cur.pend.file] = cur.pend.content] /\ pc = "replace"
    BY <1>1 DEF Replace
  <2>2. cur.mode = "write" \/ cur.mode = "recover"
    BY <2>1 DEF TypeInv, TypeOK, Modes
  <2>3. cur.pend.file \in {Marker, Manifest} => cur.pend.content # Absent \/ cur.pend.file = Marker
    BY <2>1, <2>2, OwnerAssumption DEF Planned, Restoring
  <2>4. cur.pend.file = Marker => cur.pend.content # Absent
    BY <2>1, <2>2, OwnerAssumption DEF Planned, Restoring
  <2> QED
    BY <1>k, <2>1, <2>3, <2>4 DEF Anchored
<1>2. CASE CleanUp
  BY <1>k, <1>2, WikiAssumption DEF CleanUp, Anchored
<1>3. CASE \E e \in Edits : Edit(e)
  BY <1>3 DEF Edit, Anchored
<1>4. disk' = disk \/ Replace \/ Kill \/ CleanUp \/ \E e \in Edits : Edit(e)
  BY DEF Next, vars, Begin, BeforeWrite, SavePreimage, WriteJournal, AfterWrite, Commit,
         Recover, RestoreNext, Close, Fail
<1> QED
  BY <1>1, <1>2, <1>3, <1>4 DEF Anchored


\* While the same snapshots stay open, a file keeps what they may replace.
LEMMA EligiblesKept ==
    ASSUME Eligibles, open' \subseteq open, saved' = saved,
           ~hurt' => ~hurt, Anchored => Anchored',
           touched \subseteq touched',
           \A f \in Files \ touched' : disk'[f] = disk[f]
    PROVE  Eligibles'
<1>1. SUFFICES ASSUME ~hurt', NEW o \in open', NEW s \in SavedAs(o)',
                      NEW f \in Files \ touched'
               PROVE  disk'[f] \in Eligible(o.kind, s, f)'
  BY DEF Eligibles
<1>2. ~hurt /\ o \in open /\ s \in SavedAs(o) /\ f \in Files \ touched
  BY <1>1 DEF SavedAs
<1>3. disk[f] \in Eligible(o.kind, s, f)
  BY <1>2 DEF Eligibles
<1>4. disk'[f] \in Eligible(o.kind, s, f)
  BY <1>1, <1>3
<1> QED
  BY <1>4, EligibleIs, EligibleNext

LEMMA EligiblesStep ==
    /\ TypeInv /\ Planned /\ Basis /\ Basis' /\ Opened /\ Opened' /\ Restoring /\ Eligibles
    /\ [Next]_vars
    => Eligibles'
<1> SUFFICES ASSUME TypeInv, Planned, Basis, Basis', Opened, Opened', Restoring, Eligibles,
                    [Next]_vars
             PROVE  Eligibles'
  OBVIOUS
<1>k. /\ disk \in [Files -> Images] /\ cur.pend.file \in Files /\ touched \subseteq Files
      /\ cur.images \in [Files -> SUBSET Images]
  BY StepKinds
<1>1. CASE (\E plan \in Plans : Begin(plan)) \/ Commit \/ Close
  BY <1>1 DEF Begin, Commit, Close, Eligibles
<1>2. CASE BeforeWrite \/ AfterWrite \/ Fail \/ \E f \in Files : RestoreNext(f)
  <2>1. UNCHANGED <<disk, open, saved, hurt, touched>> /\ (Anchored => Anchored')
    BY <1>2 DEF BeforeWrite, AfterWrite, Fail, RestoreNext, Anchored
  <2> QED
    BY <2>1, EligiblesKept
<1>3. CASE SavePreimage
  BY <1>3 DEF SavePreimage, TypeInv, Modes, Opened, Eligibles
<1>4. CASE WriteJournal
  <2>1. SUFFICES ASSUME NEW o \in open', NEW s \in SavedAs(o)', NEW f \in Files \ touched'
                 PROVE  disk'[f] \in Eligible(o.kind, s, f)'
    BY DEF Eligibles
  <2>2. /\ cur'.mode = "write" /\ pc' = "replace" /\ UNCHANGED <<disk, touched>>
        /\ open' = {[kind |-> "captured-preimage", files |-> cur.base]} /\ cur'.base = cur.base
    BY <1>4, Records DEF WriteJournal, TypeInv, Modes
  <2>3. s \in saved' /\ s.files = cur.base
    BY <2>1, <2>2 DEF SavedAs
  <2>4. s.images = cur'.images
    BY <2>2, <2>3 DEF Opened
  <2>5. disk'[f] \in cur'.images[f]
    BY <2>1, <2>2 DEF Basis
  <2> QED
    BY <2>4, <2>5, EligibleNext
<1>5. CASE Replace
  <2> DEFINE g == cur.pend.file
  <2>1. /\ disk' = [disk EXCEPT ![g] = cur.pend.content] /\ pc = "replace"
        /\ touched' = touched \ {g} /\ UNCHANGED <<cur, open, saved, hurt>>
    BY <1>5 DEF Replace
  <2>2. SUFFICES ASSUME ~hurt', NEW o \in open', NEW s \in SavedAs(o)',
                        NEW f \in Files \ touched'
                 PROVE  disk'[f] \in Eligible(o.kind, s, f)'
    BY DEF Eligibles
  <2>3. o \in open /\ s \in SavedAs(o) /\ ~hurt
    BY <2>1, <2>2 DEF SavedAs
  <2>4. CASE f = g
    <3>1. disk'[f] = cur.pend.content
      BY <1>k, <2>1, <2>4
    <3>2. CASE cur.mode = "write"
      <4>1. o.kind = "captured-preimage" /\ s \in saved /\ s.files = cur.base
        BY <2>3, <3>2 DEF Opened, SavedAs
      <4>2. s.images = cur.images /\ cur.pend.content \in cur.images[g]
        BY <2>1, <2>3, <3>2, <4>1 DEF Opened, Basis
      <4> QED
        BY <2>4, <3>1, <4>2, EligibleNext
    <3>3. CASE cur.mode = "recover"
      <4>1. o.files = cur.target /\ cur.pend.content = cur.target[g]
        BY <2>1, <2>3, <3>3 DEF Restoring
      <4>2. s.files = o.files
        BY <2>3 DEF SavedAs
      <4> QED
        BY <2>4, <3>1, <4>1, <4>2, EligibleNext
    <3> QED
      BY <2>1, <3>2, <3>3 DEF TypeInv, TypeOK, Modes
  <2>5. CASE f # g
    <3>1. disk'[f] = disk[f] /\ f \in Files \ touched
      BY <1>k, <2>1, <2>2, <2>5
    <3>2. disk[f] \in Eligible(o.kind, s, f)
      BY <2>3, <3>1 DEF Eligibles
    <3>3. Anchored => Anchored'
      <4>1. ~Kill
        BY <1>5 DEF Replace, Kill
      <4> QED
        BY <4>1, StaysAnchored
    <3> QED
      BY <3>1, <3>2, <3>3, EligibleIs, EligibleNext
  <2> QED
    BY <2>4, <2>5
<1>6. CASE Undoes
  <2>1. SUFFICES ASSUME NEW o \in open', NEW s \in SavedAs(o)', NEW f \in Files \ touched'
                 PROVE  disk'[f] \in Eligible(o.kind, s, f)'
    BY DEF Eligibles
  <2>2. UNCHANGED <<disk, saved>>
    BY <1>6, UndoesRecovers
  <2>3. CASE \E t \in saved : Recover("captured-preimage", t)
    <3>1. PICK t \in saved : Recover("captured-preimage", t)
      BY <2>3
    <3>2. o = [kind |-> "captured-preimage", files |-> t.files]
      BY <3>1 DEF Recover
    <3>3. s \in saved /\ s.files = t.files
      BY <2>1, <2>2, <3>2 DEF SavedAs
    <3>4. s = t
      BY <3>1, <3>3 DEF TypeInv, TypeOK
    <3>5. disk[f] \in Eligible(o.kind, s, f)
      BY <3>1, <3>2, <3>4 DEF Recover, Recoverable
    <3> QED
      BY <2>2, <3>5, EligibleIs, EligibleNext DEF Anchored
  <2>4. CASE \E c \in committed : Recover("committed", [files |-> c, images |-> NoImages])
    <3>1. PICK c \in committed : Recover("committed", [files |-> c, images |-> NoImages])
      BY <2>4
    <3>2. o = [kind |-> "committed", files |-> c]
      BY <3>1 DEF Recover
    <3>3. s = [files |-> c, images |-> NoImages]
      BY <3>2 DEF SavedAs
    <3>4. disk[f] \in Eligible(o.kind, s, f)
      BY <3>1, <3>2, <3>3 DEF Recover, Recoverable
    <3> QED
      BY <2>2, <3>4, EligibleIs, EligibleNext DEF Anchored
  <2> QED
    BY <1>6, <2>3, <2>4 DEF Undoes
<1>7. CASE Kill
  BY <1>7 DEF Kill, Eligibles
<1>8. CASE Outside
  <2>1. ~Kill
    BY <1>8, OutsideKeeps, EndsIdle DEF Ends, Kill
  <2>2. Anchored => Anchored'
    BY <2>1, StaysAnchored
  <2> QED
    BY <1>8, <2>2, OutsideKeeps, OutsideTouches, EligiblesKept
<1> QED
  BY <1>1, <1>2, <1>3, <1>4, <1>5, <1>6, <1>7, <1>8, Steps DEF Ends

(***************************************************************************)
(* The theorems                                                            *)
(***************************************************************************)

LEMMA InvInit == Init => Inv
<1> SUFFICES ASSUME Init PROVE Inv
  OBVIOUS
<1>1. cur.mode = "none" /\ saved = {} /\ committed = {} /\ open = {} /\ touched = {}
  BY DEF Init, Idle
<1> QED
  BY <1>1, TypeInit
     DEF Inv, Planned, Journals, Basis, Opened, Restoring, Eligibles, Touches, Last

LEMMA InvStep == Inv /\ [Next]_vars => Inv'
BY TypeStep, PlannedStep, JournalsStep, BasisStep, OpenedStep, RestoringStep, EligiblesStep,
   TouchesStep, LastStep DEF Inv

LEMMA Invariant == Spec => []Inv
BY InvInit, InvStep, PTL DEF Spec

\* Whatever is written, and wherever it stopped, what an interrupted operation
\* or recovery leaves can be recovered until an author changes it.
THEOREM InterruptedIsRecoverable == Spec => []InterruptedRecoverable
<1>1. Inv => InterruptedRecoverable
  <2> SUFFICES ASSUME Inv, NEW o \in open, NEW s \in SavedAs(o), touched = {}, ~hurt,
                      Coherent(o.kind, s.files),
                      disk[Manifest] # Absent =>
                          StateOf[disk[Manifest]] = StateOf[s.files[Manifest]]
               PROVE  Recoverable(o.kind, s)
    BY DEF InterruptedRecoverable
  <2>1. s.files = o.files
    BY DEF SavedAs
  <2>2. s.files[Marker] # Absent
    BY <2>1 DEF Inv, Journals
  <2>3. \A f \in Files : disk[f] \in Eligible(o.kind, s, f)
    BY DEF Inv, Eligibles
  <2> QED
    BY <2>2, <2>3 DEF Recoverable
<1> QED
  BY <1>1, Invariant, PTL

\* No recovery replaces what an author wrote, before it or while it runs.
THEOREM RecoveriesKeepEdits == Spec => RecoverKeepsEdits
<1> DEFINE Keeps == \A f \in touched \ {Private} :
                        cur.mode = "recover" /\ disk[f] # Absent /\ edits' = edits
                        => disk'[f] = disk[f]
<1>1. Inv /\ [Next]_vars => [Keeps]_vars
  <2> SUFFICES ASSUME Inv, [Next]_vars, cur.mode = "recover", edits' = edits,
                      NEW f \in touched \ {Private}, disk[f] # Absent
               PROVE  disk'[f] = disk[f]
    OBVIOUS
  <2>k. disk \in [Files -> Images] /\ f \in Files /\ edits \in Nat
    BY StepKinds, ConstantTypes DEF Inv, TypeInv, TypeOK
  <2>1. disk[f] \in Authored(f)
    BY DEF Inv, Touches
  <2>2. CASE Replace \/ Kill
    <3>1. pc = "replace" /\ disk[cur.pend.file] = expected[cur.pend.file]
      BY <2>2 DEF Replace, Kill, Inv, Restoring
    <3>2. f # cur.pend.file
      BY <2>1, <3>1 DEF Inv, Restoring
    <3> QED
      BY <2>2, <2>k, <3>2 DEF Replace, Kill
  <2>3. CASE CleanUp
    BY <2>3, <2>k DEF CleanUp
  <2>4. CASE \E e \in Edits : Edit(e)
    BY <2>4, <2>k DEF Edit
  <2>5. disk' = disk \/ Replace \/ Kill \/ CleanUp \/ \E e \in Edits : Edit(e)
    BY DEF Next, vars, Begin, BeforeWrite, SavePreimage, WriteJournal, AfterWrite, Commit,
           Recover, RestoreNext, Close, Fail
  <2> QED
    BY <2>2, <2>3, <2>4, <2>5
<1> QED
  BY <1>1, Invariant, PTL DEF Spec, RecoverKeepsEdits

\* A recovery writes the manifest over the files of its snapshot only.
THEOREM ManifestComesLast == Spec => ManifestRestoredLast
<1>1. Inv /\ [Next]_vars =>
          [cur.mode = "recover" /\ pc = "replace" /\ cur.pend.file = Manifest
               /\ disk' # disk /\ edits' = edits /\ pc' = "readBack"
           => \A f \in Files \ {Manifest} : disk[f] = cur.target[f] \/ f \in touched]_vars
  BY DEF Inv, Last
<1> QED
  BY <1>1, Invariant, PTL DEF Spec, ManifestRestoredLast

\* A committed snapshot is the whole wiki that its operation leaves.
THEOREM CommitsAreWhole == Spec => CommitSavesWhole
<1>1. Inv /\ [Next]_vars =>
          [committed' # committed =>
              \E c \in committed' \ committed : c = disk /\ Owned(c)]_vars
  <2> SUFFICES ASSUME Inv, [Next]_vars, committed' # committed
               PROVE  \E c \in committed' \ committed : c = disk /\ Owned(c)
    OBVIOUS
  <2>1. Commit
    BY DEF Next, vars, Begin, BeforeWrite, SavePreimage, WriteJournal, Replace, AfterWrite,
           Recover, RestoreNext, Close, Fail, Kill, CleanUp, Edit
  <2>2. disk = expected /\ committed' = committed \cup {expected} /\ Owned(expected)
    BY <2>1 DEF Commit, Inv, Basis
  <2> QED
    BY <2>2 DEF Owned
<1> QED
  BY <1>1, Invariant, PTL DEF Spec, CommitSavesWhole
=============================================================================

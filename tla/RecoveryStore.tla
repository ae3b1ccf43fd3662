---------------------------- MODULE RecoveryStore ----------------------------
(***************************************************************************)
(* The store of maintenance recovery catalogs that the adopted wikis of    *)
(* linked worktrees, or sibling wikis outside Git, share.                  *)
(*                                                                         *)
(* A maintenance write operation saves the complete wiki it starts from    *)
(* before its first write (the captured preimage), the complete wiki it    *)
(* ends with once the publication is verified (the committed catalog),     *)
(* then marks both complete, retires old completed catalogs of its own     *)
(* wiki and collects blobs no catalog refers to.  Catalog directories are  *)
(* named by the content of the wiki, blobs by their own content: a state   *)
(* the wiki returns to reuses its directory, and wikis share blobs.        *)
(*                                                                         *)
(* The locks of a wiki admit one operation per wiki, so the owner of the   *)
(* catalogs stands for its operation.  The store has a lock of its own,    *)
(* taken without waiting, once per call; an operation can be killed        *)
(* between any two steps, inside such a call or outside.                   *)
(*                                                                         *)
(* MaintenanceWrite is an operation on one wiki in detail.  The names of   *)
(* the two modules differ, as MaintenanceProofs extends both.              *)
(***************************************************************************)
EXTENDS FiniteSets, Integers

CONSTANTS
    Owners,         \* adopted wikis that share the store
    States,         \* complete contents of a wiki
    Blobs,          \* contents of single files
    BlobsOf,        \* the file contents of a wiki state
    InitialState,   \* one of them, for an operation that is not running
    Times,          \* what the wall clock can read, in any order
    Keep,           \* keep_successful
    MaxOperations,  \* bound on the operations of a behaviour
    NoOwner, NoTime, ObjectsDir

ASSUME StoreAssumption ==
    /\ BlobsOf \in [States -> SUBSET Blobs]
    /\ IsFiniteSet(Blobs)
    /\ InitialState \in States
    /\ Times \subseteq Nat /\ NoTime \notin Times
    /\ Keep \in Nat \ {0}
    /\ MaxOperations \in Nat
    /\ NoOwner \notin Owners

CatalogKinds == {"captured-preimage", "committed"}

\* A catalog directory: recovery_catalog_key(owner, marker, files), and in it
\* "committed" for the committed kind.
Dirs == [owner : Owners, state : States, kind : CatalogKinds]

Preimage(o, s) == [owner |-> o, state |-> s, kind |-> "captured-preimage"]
Committed(o, s) == [owner |-> o, state |-> s, kind |-> "committed"]

ASSUME ObjectsDir \notin Dirs

VARIABLES
    blobs,          \* blobs in the store
    catalogs,       \* directories with a catalog
    completed,      \* completion time of a directory, or NoTime
    debris,         \* directories in which a killed call left a private file
    lock,           \* holder of the store lock
    stage, op,      \* the operation of each owner
    unfinished,     \* preimages of operations that began to write and did
                    \* not get to mark their publication complete
    newest,         \* the last committed state each owner saved, if any
    count           \* operations so far

storeVars == <<blobs, catalogs, completed, debris, lock, stage, op, unfinished,
          newest, count>>

store == <<blobs, catalogs, completed, debris>>

Op == [base : States, explicit : BOOLEAN, dir : Dirs, retire : SUBSET Dirs,
       cands : SUBSET Blobs]

NoOp(o) == [base |-> InitialState, explicit |-> FALSE,
            dir |-> Preimage(o, InitialState), retire |-> {}, cands |-> {}]

End(o) == /\ stage' = [stage EXCEPT ![o] = "idle"]
          /\ op' = [op EXCEPT ![o] = NoOp(o)]
Goto(o, label) == stage' = [stage EXCEPT ![o] = label]
Acquire(o) == lock = NoOwner /\ lock' = o
Release(o) == lock = o /\ lock' = NoOwner

References(cs) == UNION {BlobsOf[d.state] : d \in cs}

(***************************************************************************)
(* The operation                                                           *)
(***************************************************************************)

\* maintenance_write_operation captures the wiki under the wiki's own locks, in
\* whatever state earlier operations and authors have left it.
\* With an explicit recovery directory the preimage does not go to this store.
BeginOperation(o, s, explicit) ==
    /\ stage[o] = "idle" /\ count < MaxOperations
    /\ count' = count + 1
    /\ op' = [op EXCEPT ![o] = [NoOp(o) EXCEPT !.base = s, !.explicit = explicit]]
    /\ Goto(o, "body")
    /\ UNCHANGED <<store, lock, unfinished, newest>>

\* The body ends without a write, basis.changed is false.
EndUnchanged(o) ==
    /\ stage[o] = "body"
    /\ End(o)
    /\ UNCHANGED <<store, lock, unfinished, newest, count>>

\* before_write: the first write saves the preimage first.
FirstWrite(o) ==
    /\ stage[o] = "body" /\ ~op[o].explicit
    /\ Acquire(o)
    /\ op' = [op EXCEPT ![o].dir = Preimage(o, op[o].base)]
    /\ Goto(o, "save")
    /\ UNCHANGED <<store, unfinished, newest, count>>

FirstWriteExplicit(o) ==
    /\ stage[o] = "body" /\ op[o].explicit
    /\ Goto(o, "writing")
    /\ UNCHANGED <<store, lock, op, unfinished, newest, count>>

\* _immutable_write of a blob: one that is there is left alone.
SaveBlob(o) ==
    /\ stage[o] = "save"
    /\ \E b \in BlobsOf[op[o].dir.state] \ blobs : blobs' = blobs \cup {b}
    /\ UNCHANGED <<catalogs, completed, debris, lock, stage, op, unfinished,
                   newest, count>>

BlobsSaved(o) == BlobsOf[op[o].dir.state] \subseteq blobs

SavePreimageCatalog(o) ==
    /\ stage[o] = "save" /\ op[o].dir.kind = "captured-preimage"
    /\ BlobsSaved(o)
    /\ catalogs' = catalogs \cup {op[o].dir}
    /\ Goto(o, "reopen")
    /\ UNCHANGED <<blobs, completed, debris, lock, op, unfinished, newest, count>>

\* Mutant of Reopen: a reused preimage keeps the completion of its last use.
ReopenCompleted(o) ==
    /\ stage[o] = "reopen"
    /\ unfinished' = unfinished \cup {op[o].dir}
    /\ Release(o)
    /\ Goto(o, "writing")
    /\ UNCHANGED <<blobs, catalogs, debris, completed, op, newest, count>>

\* A new attempt on a preimage already there drops the completion of the last.
Reopen(o) ==
    /\ stage[o] = "reopen"
    /\ completed' = [completed EXCEPT ![op[o].dir] = NoTime]
    /\ unfinished' = unfinished \cup {op[o].dir}
    /\ Release(o)
    /\ Goto(o, "writing")
    /\ UNCHANGED <<blobs, catalogs, debris, op, newest, count>>

\* The body has written and assert_current holds: save what the wiki is now.
EndBody(o, s) ==
    /\ stage[o] = "writing"
    /\ Acquire(o)
    /\ op' = [op EXCEPT ![o].dir = Committed(o, s)]
    /\ Goto(o, "save")
    /\ UNCHANGED <<store, unfinished, newest, count>>

\* Only an operation whose preimage is managed here gets to mark completion.
SaveCommittedCatalog(o) ==
    /\ stage[o] = "save" /\ op[o].dir.kind = "committed"
    /\ BlobsSaved(o)
    /\ catalogs' = catalogs \cup {op[o].dir}
    /\ newest' = [newest EXCEPT ![o] = {op[o].dir}]
    /\ Release(o)
    /\ Goto(o, IF op[o].explicit THEN "retain" ELSE "mark")
    /\ UNCHANGED <<blobs, completed, debris, op, unfinished, count>>

\* mark_recovery_complete reads both catalogs, then marks the preimage ...
MarkPreimage(o) ==
    /\ stage[o] = "mark"
    /\ {Preimage(o, op[o].base), op[o].dir} \subseteq catalogs
    /\ Acquire(o)
    /\ \E t \in Times :
          completed' = [completed EXCEPT ![Preimage(o, op[o].base)] = t]
    /\ unfinished' = unfinished \ {Preimage(o, op[o].base)}
    /\ Goto(o, "marking")
    /\ UNCHANGED <<blobs, catalogs, debris, op, newest, count>>

\* ... and the committed catalog, with the same time.
MarkCommitted(o) ==
    /\ stage[o] = "marking"
    /\ completed' = [completed EXCEPT ![op[o].dir] = completed[Preimage(o, op[o].base)]]
    /\ Release(o)
    /\ Goto(o, "retain")
    /\ UNCHANGED <<blobs, catalogs, debris, op, unfinished, newest, count>>

(***************************************************************************)
(* Retention and collection, one call under the store lock                 *)
(***************************************************************************)

\* Completed catalogs of this owner in directories without unknown entries.
Retirable(o, k) ==
    {d \in catalogs : /\ d.owner = o /\ d.kind = k
                      /\ completed[d] # NoTime /\ d \notin debris}

\* The Keep latest; equal times are ordered by directory name, any order here.
Latest(E) ==
    {K \in SUBSET E :
        /\ Cardinality(K) = IF Cardinality(E) < Keep THEN Cardinality(E) ELSE Keep
        /\ \A d \in K, e \in E \ K : completed[e] <= completed[d]}

Spared(o) == {op[o].dir}

Scan(o) ==
    /\ stage[o] = "retain"
    /\ Acquire(o)
    /\ \E kept \in Latest(Retirable(o, "captured-preimage")),
          kept2 \in Latest(Retirable(o, "committed")) :
          op' = [op EXCEPT ![o].retire =
                    (Retirable(o, "captured-preimage") \ (kept \cup Spared(o)))
                    \cup (Retirable(o, "committed") \ (kept2 \cup Spared(o)))]
    /\ Goto(o, "retire")
    /\ UNCHANGED <<store, unfinished, newest, count>>

UnlinkCompletion(o) ==
    /\ stage[o] = "retire"
    /\ \E d \in op[o].retire :
          /\ completed[d] # NoTime
          /\ completed' = [completed EXCEPT ![d] = NoTime]
    /\ UNCHANGED <<blobs, catalogs, debris, lock, stage, op, unfinished,
                   newest, count>>

UnlinkCatalog(o) ==
    /\ stage[o] = "retire"
    /\ \E d \in op[o].retire :
          /\ completed[d] = NoTime
          /\ catalogs' = catalogs \ {d}
          /\ op' = [op EXCEPT ![o].retire = @ \ {d}, ![o].dir = d]
    /\ UNCHANGED <<blobs, completed, debris, lock, stage, unfinished, newest, count>>

\* Mutant of Referenced: only the catalogs of this wiki count.
ReferencedByOwner(o) == References({d \in catalogs : d.owner = o})
\* _shared_references: every catalog in the store, complete or not.
Referenced(o) == References(catalogs)

\* An unknown entry anywhere in the store prevents collection.
Collect(o) ==
    /\ stage[o] = "retire" /\ op[o].retire = {}
    /\ op' = [op EXCEPT ![o].cands = IF debris = {} THEN blobs \ Referenced(o) ELSE {}]
    /\ Goto(o, "collect")
    /\ UNCHANGED <<store, lock, unfinished, newest, count>>

UnlinkBlob(o) ==
    /\ stage[o] = "collect"
    /\ \E b \in op[o].cands :
          /\ blobs' = blobs \ {b}
          /\ op' = [op EXCEPT ![o].cands = @ \ {b}]
    /\ UNCHANGED <<catalogs, completed, debris, lock, stage, unfinished, newest, count>>

Finish(o) ==
    /\ stage[o] = "collect" /\ op[o].cands = {}
    /\ Release(o)
    /\ End(o)
    /\ UNCHANGED <<store, unfinished, newest, count>>

(***************************************************************************)
(* Failure                                                                 *)
(***************************************************************************)

\* Taking the store lock does not wait: a busy store fails the operation,
\* after the publication too.  Any other error ends it the same way.
FailOperation(o) ==
    /\ stage[o] # "idle"
    /\ lock' = IF lock = o THEN NoOwner ELSE lock
    /\ End(o)
    /\ UNCHANGED <<store, unfinished, newest, count>>

\* The files a call holding the lock may be replacing or removing.
Touched(o) == {ObjectsDir, op[o].dir, Preimage(o, op[o].base)} \cup op[o].retire

\* The process is killed in the middle of a guarded file operation, whose
\* private file stays behind.  A completion claimed by an overwrite is then
\* gone too; a directory with a private file is not eligible either way.
KillCall(o) ==
    /\ lock = o /\ lock' = NoOwner
    /\ \E d \in Touched(o) : debris' = debris \cup {d}
    /\ End(o)
    /\ UNCHANGED <<blobs, catalogs, completed, unfinished, newest, count>>

(***************************************************************************)
(* The specification                                                       *)
(***************************************************************************)

StoreInit ==
    /\ blobs = {} /\ catalogs = {} /\ debris = {}
    /\ completed = [d \in Dirs |-> NoTime]
    /\ lock = NoOwner
    /\ stage = [o \in Owners |-> "idle"]
    /\ op = [o \in Owners |-> NoOp(o)]
    /\ unfinished = {}
    /\ newest = [o \in Owners |-> {}]
    /\ count = 0

StoreNext ==
    \E o \in Owners :
       \/ \E s \in States, explicit \in BOOLEAN : BeginOperation(o, s, explicit)
       \/ EndUnchanged(o)
       \/ FirstWrite(o) \/ FirstWriteExplicit(o)
       \/ SaveBlob(o) \/ SavePreimageCatalog(o) \/ Reopen(o)
       \/ \E s \in States : EndBody(o, s)
       \/ SaveCommittedCatalog(o)
       \/ MarkPreimage(o) \/ MarkCommitted(o)
       \/ Scan(o) \/ UnlinkCompletion(o) \/ UnlinkCatalog(o)
       \/ Collect(o) \/ UnlinkBlob(o) \/ Finish(o)
       \/ FailOperation(o) \/ KillCall(o)

StoreSpec == StoreInit /\ [][StoreNext]_storeVars

(***************************************************************************)
(* Properties                                                              *)
(***************************************************************************)

Labels == {"idle", "body", "save", "reopen", "writing", "mark", "marking",
           "retain", "retire", "collect"}

\* Type invariant of the model.
StoreTypeOK ==
    /\ blobs \in SUBSET Blobs
    /\ catalogs \in SUBSET Dirs
    /\ completed \in [Dirs -> Times \cup {NoTime}]
    /\ debris \in SUBSET (Dirs \cup {ObjectsDir})
    /\ lock \in Owners \cup {NoOwner}
    /\ stage \in [Owners -> Labels]
    /\ op \in [Owners -> Op]
    /\ unfinished \in SUBSET Dirs
    /\ newest \in [Owners -> SUBSET Dirs]
    /\ count \in 0..MaxOperations

\* Whatever is collected, by whichever wiki, and wherever a call dies: every
\* blob that a catalog in the store commits to is there.
CatalogsWhole == References(catalogs) \subseteq blobs

\* What an operation that did not complete would be undone from is never
\* retired, an earlier completed use of the same preimage notwithstanding, nor
\* is the last state that a wiki published and saved, however the clock jumps
\* and whatever the other wikis retire.
NeededKept ==
    /\ unfinished \subseteq catalogs
    /\ \A o \in Owners : newest[o] \subseteq catalogs
=============================================================================

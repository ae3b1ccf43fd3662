-------------------------- MODULE MaintenanceWrite --------------------------
(***************************************************************************)
(* Write operations on one adopted wiki, and its recovery.                 *)
(*                                                                         *)
(* An operation captures the whole wiki under the wiki's locks.  Every     *)
(* write of it compares the file with what the operation expects, records  *)
(* the planned image in a journal beside the captured preimage, and then   *)
(* replaces the file: pages by a plain rename, artifacts by a guarded      *)
(* compare and swap.  A recovery restores a saved snapshot, file by file,  *)
(* if every file on disk is one that the snapshot or its journal knows.    *)
(* Both can be killed anywhere; authors edit pages at any time.            *)
(*                                                                         *)
(* The locks admit one of these at a time: "cur" is the running one.       *)
(* Saved snapshots are those of RecoveryStore, whose invariants say that   *)
(* the ones needed are there; explicit directories are never retired.      *)
(* The wiki stays adopted: marker and manifest are never lost together.    *)
(***************************************************************************)
EXTENDS Naturals, Sequences

CONSTANTS
    Files,          \* files of the wiki, and the private file of a killed write
    Marker,         \* the immutable adoption marker
    Manifest,       \* the manifest, which holds the maintenance state
    Generated,      \* generated artifacts named by the manifest
    Private,        \* what a killed write leaves behind
    Contents, Absent,
    FirstWiki,      \* the wiki at the start
    Plans,          \* writes an operation may make, in order: file, content, plain
    Edits,          \* changes an author may make: file, content
    StateOf,        \* the maintenance state in a manifest
    Coherent(_, _), \* a snapshot of a kind validates
    MaxOps, MaxEdits

\* The private file of a killed write holds the number of that operation.
Images == Contents \cup {Absent} \cup 1..MaxOps
Wikis == [Files -> Images]
Writes == [file : Files, content : Images, plain : BOOLEAN]

ASSUME WikiAssumption ==
    /\ {Marker, Manifest, Private} \subseteq Files /\ Generated \subseteq Files
    /\ Absent \notin Contents
    /\ MaxOps \in Nat /\ MaxEdits \in Nat
    /\ FirstWiki \in Wikis
    /\ \A p \in Plans : p \in Seq(Writes)
    /\ Edits \subseteq [file : Files \ {Private}, content : Contents \cup {Absent}]
    /\ Private \notin Generated \cup {Marker, Manifest}

PlannedWrites == UNION {{p[i] : i \in 1..Len(p)} : p \in Plans}

\* Operations leave the marker alone and never remove the manifest, and what
\* validates has one.
ASSUME OwnerAssumption ==
    /\ \A w \in PlannedWrites : /\ w.file \notin {Marker, Private}
                                /\ w.file = Manifest => w.content # Absent
    /\ \A kind \in {"captured-preimage", "committed"}, w \in Wikis :
          Coherent(kind, w) => w[Manifest] # Absent

\* Authors write what no operation generates; of the owner's files they write
\* none, but may remove one.
ASSUME AuthorAssumption ==
    \A e \in Edits :
       /\ e.file \in {Marker, Manifest} => e.content = Absent
       /\ \A w \in PlannedWrites :
             w.file = e.file /\ w.content = e.content => e.content = Absent

VARIABLES
    disk,           \* the wiki
    pc, cur,        \* the operation or recovery that runs
    expected,       \* what it expects the wiki to be
    saved,          \* captured preimages, each with its journal of images
    committed,      \* committed snapshots
    open,           \* the snapshot that an interrupted step is recovered from
    touched,        \* files authors changed since, that nothing replaced
    hurt,           \* a kill left a private file since then
    ops, edits      \* operations and edits so far

vars == <<disk, pc, cur, expected, saved, committed, open, touched, hurt, ops, edits>>

NoWrite == [file |-> Marker, content |-> Absent, plain |-> FALSE]
NoImages == [f \in Files |-> {}]
Idle == [mode |-> "none", base |-> FirstWiki, target |-> FirstWiki,
         started |-> FALSE, changed |-> FALSE, images |-> NoImages,
         plan |-> <<>>, pend |-> NoWrite]

(***************************************************************************)
(* maintenance_write_operation                                             *)
(***************************************************************************)

\* guard_maintenance_owner: an adopted wiki without its owner is not written.
Owned(d) == d[Marker] # Absent /\ d[Manifest] # Absent

Begin(plan) ==
    /\ pc = "idle" /\ ops < MaxOps /\ ops' = ops + 1
    /\ Owned(disk)
    /\ expected' = disk
    /\ cur' = [Idle EXCEPT !.mode = "write", !.base = disk, !.plan = plan,
                           !.images = [f \in Files |-> {disk[f]}]]
    /\ touched' = {} /\ hurt' = FALSE /\ open' = {}
    /\ pc' = "next"
    /\ UNCHANGED <<disk, saved, committed, edits>>

\* before_write compares the file, and for the manifest the whole wiki.
AsExpected(f) ==
    /\ disk[f] = expected[f]
    /\ f = Manifest => disk = expected

\* A write of what is there already is not journaled.
BeforeWrite ==
    LET w == Head(cur.plan)
    IN  /\ pc = "next" /\ cur.mode = "write" /\ cur.plan # <<>>
        /\ AsExpected(w.file)
        /\ cur' = [cur EXCEPT !.pend = w, !.plan = Tail(@)]
        /\ pc' = CASE disk[w.file] = w.content -> "replace"
                   [] disk[w.file] # w.content /\ cur.started -> "journal"
                   [] OTHER -> "save"
        /\ UNCHANGED <<disk, expected, saved, committed, open, touched, hurt, ops, edits>>

\* The first write saves the preimage.  One saved before is kept with its
\* journal, which the next step replaces.
SavePreimage ==
    /\ pc = "save"
    /\ saved' = IF \E s \in saved : s.files = cur.base THEN saved
                ELSE saved \cup {[files |-> cur.base, images |-> NoImages]}
    /\ cur' = [cur EXCEPT !.started = TRUE]
    /\ pc' = "journal"
    /\ UNCHANGED <<disk, expected, committed, open, touched, hurt, ops, edits>>

\* Mutant of WriteJournal: an image is recorded once it is on disk.
WriteJournalLate ==
    LET images == [cur.images EXCEPT ![cur.pend.file] = @ \cup {disk[cur.pend.file]}]
    IN  /\ pc = "journal"
        /\ cur' = [cur EXCEPT !.images = images]
        /\ saved' = {s \in saved : s.files # cur.base}
                    \cup {[files |-> cur.base, images |-> images]}
        /\ open' = {[kind |-> "captured-preimage", files |-> cur.base]}
        /\ pc' = "replace"
        /\ UNCHANGED <<disk, expected, committed, touched, hurt, ops, edits>>

\* The planned image is recorded before the replacement.
WriteJournal ==
    LET images == [cur.images EXCEPT ![cur.pend.file] = @ \cup {cur.pend.content}]
    IN  /\ pc = "journal"
        /\ cur' = [cur EXCEPT !.images = images]
        /\ saved' = {s \in saved : s.files # cur.base}
                    \cup {[files |-> cur.base, images |-> images]}
        /\ open' = {[kind |-> "captured-preimage", files |-> cur.base]}
        /\ pc' = "replace"
        /\ UNCHANGED <<disk, expected, committed, touched, hurt, ops, edits>>

\* A guarded replacement compares and swaps, a plain one renames.
Replace ==
    /\ pc = "replace"
    /\ cur.pend.plain \/ disk[cur.pend.file] = expected[cur.pend.file]
    /\ disk' = [disk EXCEPT ![cur.pend.file] = cur.pend.content]
    /\ touched' = touched \ {cur.pend.file}
    /\ pc' = "readBack"
    /\ UNCHANGED <<cur, expected, saved, committed, open, hurt, ops, edits>>

\* after_write reads the file back and expects it from now on.
AfterWrite ==
    /\ pc = "readBack"
    /\ cur.pend.content # Absent => disk[cur.pend.file] = cur.pend.content
    /\ expected' = [expected EXCEPT ![cur.pend.file] = cur.pend.content]
    /\ cur' = [cur EXCEPT !.changed =
                  @ \/ expected[cur.pend.file] # cur.pend.content]
    /\ pc' = IF cur.mode = "recover" /\ cur.pend.file = Manifest
             THEN "close" ELSE "next"
    /\ UNCHANGED <<disk, saved, committed, open, touched, hurt, ops, edits>>

\* Mutant of Commit: the wiki is not compared again.
CommitUnchecked ==
    /\ pc = "next" /\ cur.mode = "write" /\ cur.plan = <<>>
    /\ committed' = IF cur.changed THEN committed \cup {expected} ELSE committed
    /\ open' = {}
    /\ pc' = "idle" /\ cur' = Idle
    /\ UNCHANGED <<disk, expected, saved, touched, hurt, ops, edits>>

\* The body is over: the wiki is as expected and saved as committed.
Commit ==
    /\ pc = "next" /\ cur.mode = "write" /\ cur.plan = <<>>
    /\ disk = expected
    /\ committed' = IF cur.changed THEN committed \cup {expected} ELSE committed
    /\ open' = {}
    /\ pc' = "idle" /\ cur' = Idle
    /\ UNCHANGED <<disk, expected, saved, touched, hurt, ops, edits>>

(***************************************************************************)
(* recover_maintenance_authority                                           *)
(***************************************************************************)

Anchored == disk[Marker] # Absent \/ disk[Manifest] # Absent

\* The images of a file that a snapshot of this kind may replace.
Eligible(kind, s, f) ==
    {s.files[f]} \cup s.images[f]
    \cup {Absent : x \in {f} \cap {Marker, Manifest}}
    \cup {Absent : x \in {f} \cap IF kind = "committed" /\ Anchored THEN Generated ELSE {}}

\* Mutant of Recoverable: files outside the manifest are not compared.
RecoverableGenerated(kind, s) ==
    /\ Coherent(kind, s.files) /\ s.files[Marker] # Absent
    /\ disk[Manifest] # Absent =>
           StateOf[disk[Manifest]] = StateOf[s.files[Manifest]]
    /\ \A f \in Generated \cup {Marker, Manifest} : disk[f] \in Eligible(kind, s, f)

\* The wiki holds no other maintenance state and no file that is not known.
Recoverable(kind, s) ==
    /\ Coherent(kind, s.files) /\ s.files[Marker] # Absent
    /\ disk[Manifest] # Absent =>
           StateOf[disk[Manifest]] = StateOf[s.files[Manifest]]
    /\ \A f \in Files : disk[f] \in Eligible(kind, s, f)

Recover(kind, s) ==
    /\ pc = "idle" /\ ops < MaxOps /\ ops' = ops + 1
    /\ Recoverable(kind, s)
    /\ cur' = [Idle EXCEPT !.mode = "recover", !.target = s.files]
    /\ expected' = disk
    /\ open' = {[kind |-> kind, files |-> s.files]} /\ hurt' = FALSE
    /\ pc' = "next"
    /\ UNCHANGED <<disk, saved, committed, touched, edits>>

\* Files that the recovery still has to restore before the manifest.
Pending == {f \in Files \ {Manifest} : expected[f] # cur.target[f]}

\* The marker first, the manifest last, which is always written.
NextRestored ==
    IF Marker \in Pending THEN {Marker}
    ELSE IF Pending # {} THEN Pending ELSE {Manifest}

RestoreNext(f) ==
    /\ pc = "next" /\ cur.mode = "recover"
    /\ f \in NextRestored
    /\ AsExpected(f)
    /\ cur' = [cur EXCEPT !.pend = [file |-> f, content |-> cur.target[f],
                                    plain |-> FALSE]]
    /\ pc' = "replace"
    /\ UNCHANGED <<disk, expected, saved, committed, open, touched, hurt, ops, edits>>

\* The recovered wiki has its owner and is as expected.
Close ==
    /\ pc = "close"
    /\ Owned(disk) /\ disk = expected
    /\ open' = {}
    /\ pc' = "idle" /\ cur' = Idle
    /\ UNCHANGED <<disk, expected, saved, committed, touched, hurt, ops, edits>>

(***************************************************************************)
(* Failures, kills and authors                                             *)
(***************************************************************************)

\* A check raises, or a killed process stops between two effects.
Fail ==
    /\ pc # "idle"
    /\ pc' = "idle" /\ cur' = Idle
    /\ UNCHANGED <<disk, expected, saved, committed, open, touched, hurt, ops, edits>>

\* A kill inside a replacement leaves the private file of the write; a
\* guarded one may have moved the previous file away.
Kill ==
    LET f == cur.pend.file
        left == {disk, [disk EXCEPT ![f] = cur.pend.content]}
                \cup IF cur.pend.plain THEN {} ELSE {[disk EXCEPT ![f] = Absent]}
    IN  /\ pc = "replace"
        /\ cur.pend.plain \/ disk[f] = expected[f]
        /\ \E d \in left : disk' = [d EXCEPT ![Private] = ops]
        /\ hurt' = TRUE
        /\ touched' = IF disk'[f] = cur.pend.content THEN touched \ {f} ELSE touched
        /\ pc' = "idle" /\ cur' = Idle
        /\ UNCHANGED <<expected, saved, committed, open, ops, edits>>

Edit(e) ==
    /\ edits < MaxEdits /\ edits' = edits + 1
    /\ disk[e.file] # e.content
    /\ disk' = [disk EXCEPT ![e.file] = e.content]
    /\ Anchored'
    /\ touched' = touched \cup {e.file}
    /\ UNCHANGED <<pc, cur, expected, saved, committed, open, hurt, ops>>

\* Someone removes the private file, which no recovery would accept.
CleanUp ==
    /\ disk[Private] # Absent
    /\ disk' = [disk EXCEPT ![Private] = Absent]
    /\ touched' = touched \cup {Private}
    /\ UNCHANGED <<pc, cur, expected, saved, committed, open, hurt, ops, edits>>

Init ==
    /\ disk = FirstWiki /\ expected = FirstWiki
    /\ pc = "idle" /\ cur = Idle
    /\ saved = {} /\ committed = {} /\ open = {}
    /\ touched = {} /\ hurt = FALSE
    /\ ops = 0 /\ edits = 0

Next ==
    \/ \E plan \in Plans : Begin(plan)
    \/ BeforeWrite \/ SavePreimage \/ WriteJournal \/ Replace \/ AfterWrite \/ Commit
    \/ \E s \in saved : Recover("captured-preimage", s)
    \/ \E c \in committed : Recover("committed", [files |-> c, images |-> NoImages])
    \/ \E f \in Files : RestoreNext(f)
    \/ Close \/ Fail \/ Kill \/ CleanUp
    \/ \E e \in Edits : Edit(e)

Spec == Init /\ [][Next]_vars

(***************************************************************************)
(* Properties                                                              *)
(***************************************************************************)

Snapshots == [files : Wikis, images : [Files -> SUBSET Images]]

\* Type invariant of the model: no two journals share a preimage.
TypeOK ==
    /\ disk \in Wikis /\ expected \in Wikis
    /\ pc \in {"idle", "next", "save", "journal", "replace", "readBack", "close"}
    /\ cur \in [mode : {"none", "write", "recover"}, base : Wikis, target : Wikis,
               started : BOOLEAN, changed : BOOLEAN, images : [Files -> SUBSET Images],
               plan : Seq(Writes), pend : Writes]
    /\ saved \subseteq Snapshots /\ committed \subseteq Wikis
    /\ \A s, t \in saved : s.files = t.files => s = t
    /\ \A o \in open : o \in [kind : {"captured-preimage", "committed"}, files : Wikis]
    /\ touched \subseteq Files /\ hurt \in BOOLEAN
    /\ ops \in 0..MaxOps /\ edits \in 0..MaxEdits

\* The saved snapshot of an entry of "open", with its journal.
SavedAs(o) ==
    IF o.kind = "committed" THEN {[files |-> o.files, images |-> NoImages]}
    ELSE {s \in saved : s.files = o.files}

\* An operation or a recovery that failed, or was killed outside a
\* replacement, leaves a wiki that its snapshot recovers until an author
\* changes it: each file is one the journal knows, wherever it stopped.
\* (The captured wiki must validate, and hold the same maintenance state.)
InterruptedRecoverable ==
    \A o \in open : \A s \in SavedAs(o) :
        /\ pc = "idle" /\ touched = {} /\ ~hurt
        /\ Coherent(o.kind, s.files)
        /\ disk[Manifest] # Absent =>
               StateOf[disk[Manifest]] = StateOf[s.files[Manifest]]
        => Recoverable(o.kind, s)

\* A recovery replaces no file that an author wrote since the operation it
\* undoes began, whether the edit came before the recovery or during it.
RecoverKeepsEdits ==
    [][\A f \in touched \ {Private} :
           cur.mode = "recover" /\ disk[f] # Absent /\ edits' = edits
           => disk'[f] = disk[f]]_vars

\* When a recovery writes the manifest, every other file already is what the
\* snapshot holds, or was changed by an author: a kill never leaves a
\* restored manifest over files of the interrupted generation.
ManifestRestoredLast ==
    [][cur.mode = "recover" /\ pc = "replace" /\ cur.pend.file = Manifest
           /\ disk' # disk /\ edits' = edits /\ pc' = "readBack"
       => \A f \in Files \ {Manifest} :
              disk[f] = cur.target[f] \/ f \in touched]_vars

\* What a committed operation saves is the wiki it leaves, edits included:
\* an edit made during the operation is in the way of the commit or in it.
CommitSavesWhole ==
    [][committed' # committed =>
          \E c \in committed' \ committed : c = disk /\ Owned(c)]_vars
=============================================================================

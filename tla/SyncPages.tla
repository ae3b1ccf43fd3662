----------------------------- MODULE SyncPages -----------------------------
(***************************************************************************)
(* The pages of a wiki under the sync command: page moves that keep their  *)
(* originals until the generation is committed (sync_transition_execution),*)
(* the journal of new pages (sync_recovery.NewPageJournal) and the         *)
(* recovery of a rejected sync.                                            *)
(*                                                                         *)
(* A sync and a recovery hold both writer locks of the wiki, so one runs   *)
(* at a time; authors take no lock.  A sync may fail at any step, when its *)
(* journal is kept as rejected, or be killed, when it is left as it is.    *)
(* Members of the source are renamed and added; none is removed.           *)
(***************************************************************************)
EXTENDS PagePlan, Naturals

CONSTANTS
    FirstMap,       \* names of the source the wiki was built from
    Targets,        \* names the source may have later
    NoOwner, NoNote, Absent,
    MaxSyncs,       \* bound on the syncs that open a journal
    MaxChanges,     \* bound on changes of the source
    MaxEdits,       \* bound on the acts of authors
    MaxFails,       \* bound on I/O errors of the command
    MaxKills        \* bound on kills, and on errors that tear a journal

ASSUME SyncAssumption ==
    /\ FirstMap \in Maps /\ Targets \subseteq Maps
    /\ \A m \in Targets \cup {FirstMap} : Injective(m) /\ Current(FirstMap) \subseteq Current(m)
    /\ NoOwner \notin Owners
    /\ {MaxSyncs, MaxChanges, MaxEdits, MaxFails, MaxKills} \subseteq Nat

Ops == 1 .. MaxSyncs

\* What an author wrote, and the member it was written about.
Notes == [n : 0 .. MaxEdits, home : Owners \cup {NoOwner}]

\* Who saved a file last: a sync, or an author (0 is whoever was first).
Savers == 0 .. MaxSyncs + MaxEdits

\* A page: whose it is, the authored part, the sync its generated part is
\* from, and the identity of the file.
Pages == [owner : Owners \cup {NoOwner}, note : Notes \cup {NoNote},
          gen : 0 .. MaxSyncs, by : Savers]

ASSUME DistinctAssumption == NoNote \notin Notes /\ Absent \notin Pages

Trees == [Paths -> Pages \cup {Absent}]

VARIABLES
    disk,       \* the wiki
    source,     \* where the source wants its pages now
    manifest,   \* the committed authority
    moves,      \* the directory with the originals of a page transition
    journals,   \* the journals of new pages, by sync
    last,       \* the syncs so far
    pc, op,     \* the command at work, and the sync whose journal it uses
    plan,       \* its plan: the names, and the pages there were
    taken,      \* the pages it captured
    rest,       \* the moves still to be saved, unlinked or placed
    todo,       \* the owners whose pages are still to be written
    job,        \* the write under way
    alive,      \* the notes their authors have not taken back
    resolved,   \* did an author resolve a transition?
    changes, edits, removals, fails, kills

run == <<pc, op, plan, taken, rest, todo, job>>
store == <<moves, journals>>
bounds == <<resolved, changes, edits, removals, fails, kills>>
env == <<source, alive, bounds>>
vars == <<disk, source, manifest, store, last, run, alive, bounds>>

Bytes(page) == IF page = Absent THEN Absent ELSE [page EXCEPT !.by = 0]
Existing == {p \in Paths : disk[p] # Absent}
Nothing == [p \in Paths |-> Absent]

NoMoves == [state |-> "none", list |-> {}, names |-> FirstMap, originals |-> Nothing]
NoJournal == [status |-> "none", before |-> {}, anchors |-> FirstMap,
              rows |-> [p \in Paths |-> {}]]
NoPlan == [old |-> FirstMap, new |-> FirstMap, existing |-> {}]
NoJob == [path |-> NoPath, old |-> Absent, new |-> Absent, then |-> "idle"]

Moving == Moves(plan.old, plan.new, plan.existing)
Journal == journals[op]
Empty(journal) == \A p \in Paths : journal.rows[p] = {}

(***************************************************************************)
(* The end of a run                                                        *)
(***************************************************************************)
Forget ==
    /\ pc' = "idle"
    /\ plan' = NoPlan /\ taken' = Nothing /\ rest' = {} /\ todo' = {} /\ job' = NoJob
    /\ op' = 0

\* Mutant of Rejected: the journal is left as it is.
RejectedNowhere == IF Empty(Journal) THEN NoJournal ELSE Journal

\* The journal of a sync that fails, if it names a page.
Rejected ==
    IF Empty(Journal) THEN NoJournal
    ELSE [Journal EXCEPT !.status = "rejected"]

\* An exception: the originals of a transition stay where they are.
Reject ==
    /\ journals' = [journals EXCEPT ![op] = Rejected]
    /\ Forget
    /\ UNCHANGED <<disk, source, manifest, moves, alive, resolved, changes, edits, removals>>

(***************************************************************************)
(* Planning                                                                *)
(***************************************************************************)

\* Mutant of Begin: a transition that is unresolved is passed over.
BeginAnyway ==
    /\ pc = "idle" /\ last < MaxSyncs
    /\ source # manifest \/ ~(OwnedPages(manifest) \subseteq Existing)
    /\ Plannable(manifest, source, Existing)
    /\ pc' = "planned"
    /\ plan' = [old |-> manifest, new |-> source, existing |-> Existing]
    /\ todo' \in {t \in SUBSET Current(source) :
                     Refreshed(manifest, source, Existing) \subseteq t}
    /\ UNCHANGED <<disk, manifest, store, op, taken, rest, job, last, env>>

\* There is something to do, and no earlier transition is unresolved.
Begin ==
    /\ pc = "idle" /\ last < MaxSyncs /\ moves.state = "none"
    /\ source # manifest \/ ~(OwnedPages(manifest) \subseteq Existing)
    /\ Plannable(manifest, source, Existing)
    /\ pc' = "planned"
    /\ plan' = [old |-> manifest, new |-> source, existing |-> Existing]
    /\ todo' \in {t \in SUBSET Current(source) :
                     Refreshed(manifest, source, Existing) \subseteq t}
    /\ UNCHANGED <<disk, manifest, store, op, taken, rest, job, last, env>>

\* The journal opens on the pages there are and those the manifest owns.
Open ==
    /\ pc = "planned"
    /\ last' = last + 1 /\ op' = last'
    /\ journals' = [journals EXCEPT ![last'] =
          [NoJournal EXCEPT !.status = "writing", !.anchors = manifest,
                            !.before = Existing \cup OwnedPages(manifest)]]
    /\ pc' = "apply"
    /\ UNCHANGED <<disk, manifest, moves, plan, taken, rest, todo, job, env>>

\* The transition is planned again, and every page it moves is captured.
Replanned ==
    /\ Plannable(plan.old, plan.new, Existing)
    /\ \A o \in Current(plan.new) :
          SourceOf(plan.old, plan.new, Existing, o)
            = SourceOf(plan.old, plan.new, plan.existing, o)

Capture ==
    /\ pc = "apply" /\ Replanned
    /\ taken' = [p \in Paths |-> IF \E m \in Moving : m.from = p THEN disk[p] ELSE Absent]
    /\ rest' = Moving
    /\ IF Moving = {}
       THEN pc' = "refresh" /\ UNCHANGED moves
       ELSE /\ pc' = "save"
            /\ moves' = [NoMoves EXCEPT !.state = "capturing", !.list = Moving,
                                        !.names = plan.new]
    /\ UNCHANGED <<disk, manifest, journals, op, plan, todo, job, last, env>>

(***************************************************************************)
(* Moving: every original is saved before the first page goes, and every   *)
(* page has gone before the first target is filled.                        *)
(***************************************************************************)
SaveOriginal ==
    /\ pc = "save"
    /\ \E m \in rest :
          /\ moves' = [moves EXCEPT !.originals[m.from] = taken[m.from]]
          /\ rest' = rest \ {m}
    /\ UNCHANGED <<disk, manifest, journals, pc, op, plan, taken, todo, job, last, env>>

\* Mutant of Prepare: the pages go while the originals are still being saved.
PrepareEarly ==
    /\ pc = "save"
    /\ moves' = [moves EXCEPT !.state = "prepared"]
    /\ pc' = "unlink" /\ rest' = Moving
    /\ UNCHANGED <<disk, manifest, journals, op, plan, taken, todo, job, last, env>>

Prepare ==
    /\ pc = "save" /\ rest = {}
    /\ moves' = [moves EXCEPT !.state = "prepared"]
    /\ pc' = "unlink" /\ rest' = Moving
    /\ UNCHANGED <<disk, manifest, journals, op, plan, taken, todo, job, last, env>>

\* The comparison of a guarded operation.
Same(page, expected) == Bytes(page) = Bytes(expected)

Unlink ==
    /\ pc = "unlink"
    /\ \E m \in rest :
          /\ Same(disk[m.from], taken[m.from])
          /\ disk' = [disk EXCEPT ![m.from] = Absent]
          /\ rest' = rest \ {m}
    /\ UNCHANGED <<manifest, store, pc, op, plan, taken, todo, job, last, env>>

Vacated ==
    /\ pc = "unlink" /\ rest = {}
    /\ pc' = "place" /\ rest' = Moving
    /\ UNCHANGED <<disk, manifest, store, op, plan, taken, todo, job, last, env>>

(***************************************************************************)
(* One write of a page                                                     *)
(***************************************************************************)
Row(page, bound) == [bytes |-> Bytes(page), by |-> page.by, bound |-> bound]

\* A page that a journal vouches for, by bytes and identity.
Matches(page, rows) ==
    \E r \in rows : r.bound /\ r.bytes = Bytes(page) /\ r.by = page.by

\* before_write: what a new page will hold is in the journal first.
Write(path, old, new, then) ==
    /\ job' = [path |-> path, old |-> old, new |-> new, then |-> then]
    /\ pc' = "replace"
    /\ IF path \in Journal.before
       THEN UNCHANGED journals
       ELSE /\ disk[path] # Absent => Matches(disk[path], Journal.rows[path])
            /\ journals' = [journals EXCEPT ![op].rows[path] = @ \cup {Row(new, FALSE)}]

Place ==
    /\ pc = "place"
    /\ \E m \in rest :
          /\ Write(m.to, Absent, [taken[m.from] EXCEPT !.by = op], "place")
          /\ rest' = rest \ {m}
    /\ UNCHANGED <<disk, manifest, moves, op, plan, taken, todo, last, env>>

Placed ==
    /\ pc = "place" /\ rest = {}
    /\ moves' = [moves EXCEPT !.state = "applied"]
    /\ pc' = "refresh"
    /\ UNCHANGED <<disk, manifest, journals, op, plan, taken, rest, todo, job, last, env>>

\* What a page must hold when it is rewritten: what was placed there, what is
\* there, or nothing.
Expected(o) ==
    LET from == SourceOf(plan.old, plan.new, plan.existing, o) IN
    IF from = NoPath THEN Absent
    ELSE IF from = plan.new[o] THEN disk[from] ELSE taken[from]

\* The generated part is replaced, the authored part is kept.
Merged(o, page) ==
    [owner |-> o, note |-> IF page = Absent THEN NoNote ELSE page.note,
     gen |-> op, by |-> op]

Readable(o) ==
    /\ Same(disk[plan.new[o]], Expected(o))
    /\ SourceOf(plan.old, plan.new, plan.existing, o) # NoPath => disk[plan.new[o]] # Absent

Refresh ==
    /\ pc = "refresh"
    /\ \E o \in todo :
          /\ Readable(o)
          /\ Write(plan.new[o], Expected(o), Merged(o, disk[plan.new[o]]), "refresh")
          /\ todo' = todo \ {o}
    /\ UNCHANGED <<disk, manifest, moves, op, plan, taken, rest, last, env>>

\* A page whose text would not change is not written.
Skip ==
    /\ pc = "refresh"
    /\ \E o \in todo :
          /\ Readable(o) /\ Expected(o) # Absent
          /\ todo' = todo \ {o}
    /\ UNCHANGED <<disk, manifest, store, pc, op, plan, taken, rest, job, last, env>>

Replace ==
    /\ pc = "replace"
    /\ Same(disk[job.path], job.old)
    /\ disk' = [disk EXCEPT ![job.path] = job.new]
    /\ IF job.path \in Journal.before
       THEN pc' = job.then /\ job' = NoJob
       ELSE pc' = "bind" /\ UNCHANGED job
    /\ UNCHANGED <<manifest, store, op, plan, taken, rest, todo, last, env>>

\* after_write: the identity of the new file is added to its row.
Bind ==
    /\ pc = "bind" /\ Same(disk[job.path], job.new)
    /\ journals' = [journals EXCEPT ![op].rows[job.path] =
          (@ \ {Row(job.new, FALSE)}) \cup {Row(disk[job.path], TRUE)}]
    /\ pc' = job.then /\ job' = NoJob
    /\ UNCHANGED <<disk, manifest, moves, op, plan, taken, rest, todo, last, env>>

(***************************************************************************)
(* The end of a sync                                                       *)
(***************************************************************************)
Commit ==
    /\ pc = "refresh" /\ todo = {} /\ source = plan.new
    /\ manifest' = plan.new
    /\ pc' = "committed"
    /\ UNCHANGED <<disk, store, op, plan, taken, rest, todo, job, last, env>>

MarkCommitted ==
    /\ pc = "committed" /\ moves.state = "applied"
    /\ moves' = [moves EXCEPT !.state = "committed"]
    /\ UNCHANGED <<disk, manifest, journals, run, last, env>>

Cleanup ==
    /\ pc = "committed" /\ moves.state = "committed"
    /\ moves' = NoMoves
    /\ UNCHANGED <<disk, manifest, journals, run, last, env>>

\* The journal of a sync that succeeds is discarded.
Discard ==
    /\ pc = "committed" /\ moves.state = "none"
    /\ journals' = [journals EXCEPT ![op] = NoJournal]
    /\ Forget
    /\ UNCHANGED <<disk, manifest, moves, last, env>>

(***************************************************************************)
(* Failures                                                                *)
(***************************************************************************)

\* The step at hand finds something else than it must.
Mismatch ==
    \/ pc = "apply" /\ ~Replanned
    \/ pc = "unlink" /\ \E m \in rest : ~Same(disk[m.from], taken[m.from])
    \/ pc = "place" /\ \E m \in rest : disk[m.to] # Absent
    \/ pc = "refresh" /\ \E o \in todo : ~Readable(o)
    \/ pc = "refresh" /\ todo = {} /\ source # plan.new
    \/ pc = "replace" /\ ~Same(disk[job.path], job.old)
    \/ pc = "bind" /\ ~Same(disk[job.path], job.new)

Refuse == Mismatch /\ Reject /\ UNCHANGED <<last, fails, kills>>

Fail ==
    /\ pc \in {"apply", "save", "unlink", "place", "refresh", "replace", "committed"}
    /\ fails < MaxFails /\ fails' = fails + 1
    /\ Reject
    /\ UNCHANGED <<last, kills>>

\* A new page that cannot be read back has no identity in the journal.
FailUnbound ==
    /\ pc = "bind"
    /\ kills < MaxKills /\ kills' = kills + 1
    /\ Reject
    /\ UNCHANGED <<last, fails>>

Kill ==
    /\ pc # "idle"
    /\ kills < MaxKills /\ kills' = kills + 1
    /\ Forget
    /\ UNCHANGED <<disk, source, manifest, store, last, alive, resolved, changes, edits, removals, fails>>

(***************************************************************************)
(* Recovery of the new pages of a rejected sync                            *)
(***************************************************************************)
Journaled(j) == {p \in Paths : journals[j].rows[p] # {}}

\* A page that was never published is not missed.
Unpublished(j) ==
    {p \in Journaled(j) : disk[p] = Absent /\ \A r \in journals[j].rows[p] : ~r.bound}

\* Mutant of Recoverable: the committed authority may have changed.
RecoverableUnanchored(j) ==
    /\ journals[j].status = "rejected"
    /\ \A p \in Journaled(j) \ Unpublished(j) :
          disk[p] # Absent /\ Matches(disk[p], journals[j].rows[p])

\* Every page is as the sync left it, and none is anybody else's.
Recoverable(j) ==
    /\ journals[j].status = "rejected"
    /\ manifest = journals[j].anchors
    /\ Journaled(j) \cap (journals[j].before \cup OwnedPages(manifest)) = {}
    /\ \A p \in Journaled(j) \ Unpublished(j) :
          disk[p] # Absent /\ Matches(disk[p], journals[j].rows[p])

RecoverBegin ==
    /\ pc = "idle"
    /\ \E j \in Ops :
          /\ Recoverable(j) /\ Journaled(j) # Unpublished(j)
          /\ op' = j
          /\ taken' = [p \in Paths |-> IF p \in Journaled(j) THEN disk[p] ELSE Absent]
    /\ pc' = "recover"
    /\ UNCHANGED <<disk, manifest, store, plan, rest, todo, job, last, env>>

Remaining == {p \in Paths : taken[p] # Absent}

\* The identity of the next page is compared ...
RecoverCheck ==
    /\ pc = "recover"
    /\ \E p \in Remaining :
          /\ disk[p] = taken[p]
          /\ job' = [NoJob EXCEPT !.path = p, !.old = taken[p]]
    /\ pc' = "remove"
    /\ UNCHANGED <<disk, manifest, store, op, plan, taken, rest, todo, last, env>>

\* ... and its bytes when it is removed.
RecoverUnlink ==
    /\ pc = "remove" /\ Same(disk[job.path], job.old)
    /\ disk' = [disk EXCEPT ![job.path] = Absent]
    /\ taken' = [taken EXCEPT ![job.path] = Absent]
    /\ pc' = "recover" /\ job' = NoJob
    /\ UNCHANGED <<manifest, store, op, plan, rest, todo, last, env>>

\* It ends when all pages are gone, or stops at one that has changed.
RecoverEnd ==
    /\ \/ pc = "recover" /\ Remaining = {}
       \/ pc = "recover" /\ \E p \in Remaining : disk[p] # taken[p]
       \/ pc = "remove" /\ ~Same(disk[job.path], job.old)
    /\ Forget
    /\ UNCHANGED <<disk, manifest, store, last, env>>

(***************************************************************************)
(* Authors and the source                                                  *)
(***************************************************************************)
SourceChange ==
    /\ changes < MaxChanges /\ changes' = changes + 1
    /\ source' \in {t \in Targets \ {source} : Current(source) \subseteq Current(t)}
    /\ UNCHANGED <<disk, manifest, store, last, run, alive, resolved, edits, removals, fails, kills>>

Stamp == MaxSyncs + edits + 1
NoteAt(p) == IF disk[p] = Absent THEN {} ELSE {disk[p].note} \ {NoNote}

\* Authors write on a page, save it as it is, or add one.
Edit ==
    /\ edits + removals < MaxEdits /\ edits' = edits + 1
    /\ \E p \in Paths :
          \/ /\ disk[p] # Absent
             /\ LET note == [n |-> edits + 1, home |-> disk[p].owner] IN
                /\ disk' = [disk EXCEPT ![p].note = note, ![p].by = Stamp]
                /\ alive' = (alive \ NoteAt(p)) \cup {note}
          \/ /\ disk[p] # Absent
             /\ disk' = [disk EXCEPT ![p].by = Stamp]
             /\ UNCHANGED alive
          \/ /\ disk[p] = Absent
             /\ LET note == [n |-> edits + 1, home |-> NoOwner] IN
                /\ disk' = [disk EXCEPT ![p] = [owner |-> NoOwner, note |-> note,
                                               gen |-> 0, by |-> Stamp]]
                /\ alive' = alive \cup {note}
    /\ UNCHANGED <<source, manifest, store, last, run, resolved, changes, removals, fails, kills>>

Remove ==
    /\ edits + removals < MaxEdits /\ removals' = removals + 1
    /\ \E p \in Existing :
          /\ disk' = [disk EXCEPT ![p] = Absent]
          /\ alive' = alive \ NoteAt(p)
    /\ UNCHANGED <<source, manifest, store, last, run, resolved, changes, edits, fails, kills>>

\* An author resolves a directory of originals: if its names were committed, or
\* no page had gone yet, it is dropped; else the originals go back, unless
\* somebody wrote on a page in the way.
Resolve ==
    /\ pc = "idle" /\ moves.state # "none"
    /\ resolved' = TRUE
    /\ IF manifest = moves.names \/ moves.state = "capturing"
       THEN UNCHANGED disk
       ELSE LET sources == {m.from : m \in moves.list}
                targets == {m.to : m \in moves.list} \ sources
            IN  /\ \A p \in sources \cup targets : disk[p] # Absent => disk[p].by <= MaxSyncs
                /\ disk' = [p \in Paths |->
                       IF p \in sources THEN [moves.originals[p] EXCEPT !.by = 0]
                       ELSE IF p \in targets THEN Absent ELSE disk[p]]
    /\ moves' = NoMoves
    /\ UNCHANGED <<source, manifest, journals, last, run, alive, changes, edits, removals, fails, kills>>

(***************************************************************************)
(* The system                                                              *)
(***************************************************************************)
Init ==
    /\ disk = [p \in Paths |->
          IF p \in OwnedPages(FirstMap)
          THEN LET o == CHOOSE u \in Owners : FirstMap[u] = p IN
               [owner |-> o, note |-> [n |-> 0, home |-> o], gen |-> 0, by |-> 0]
          ELSE Absent]
    /\ source \in Targets /\ manifest = FirstMap
    /\ moves = NoMoves /\ journals = [j \in Ops |-> NoJournal]
    /\ last = 0 /\ pc = "idle" /\ op = 0
    /\ plan = NoPlan /\ taken = Nothing /\ rest = {} /\ todo = {} /\ job = NoJob
    /\ alive = {[n |-> 0, home |-> o] : o \in Current(FirstMap)}
    /\ resolved = FALSE /\ changes = 0 /\ edits = 0 /\ removals = 0 /\ fails = 0 /\ kills = 0

Moved == SaveOriginal \/ Prepare \/ Unlink \/ Vacated \/ Place \/ Placed
Written == Refresh \/ Skip \/ Replace \/ Bind
Ended == Commit \/ MarkCommitted \/ Cleanup \/ Discard \/ Refuse

Sync == Begin \/ Open \/ Capture \/ Moved \/ Written \/ Ended
Recovery == RecoverBegin \/ RecoverCheck \/ RecoverUnlink \/ RecoverEnd
Outside == Fail \/ FailUnbound \/ Kill \/ SourceChange \/ Edit \/ Remove \/ Resolve

Next == Sync \/ Recovery \/ Outside

Spec == Init /\ [][Next]_vars

\* A command goes on once started; sync and recovery are run again.
FairSpec == Spec /\ WF_vars(Sync) /\ WF_vars(Recovery)

(***************************************************************************)
(* Properties                                                              *)
(***************************************************************************)
MoveList == [owner : Owners, from : Paths, to : Paths]
Rows == [bytes : Pages, by : Savers, bound : BOOLEAN]

\* Type invariant of the model.
TypeOK ==
    /\ disk \in Trees
    /\ source \in Maps /\ manifest \in Maps
    /\ moves \in [state : {"none", "capturing", "prepared", "applied", "committed"},
                  list : SUBSET MoveList, names : Maps, originals : Trees]
    /\ journals \in [Ops -> [status : {"none", "writing", "rejected"},
                             before : SUBSET Paths, anchors : Maps,
                             rows : [Paths -> SUBSET Rows]]]
    /\ last \in 0 .. MaxSyncs /\ op \in 0 .. MaxSyncs
    /\ pc \in {"idle", "planned", "apply", "save", "unlink", "place", "refresh",
               "replace", "bind", "committed", "recover", "remove"}
    /\ plan \in [old : Maps, new : Maps, existing : SUBSET Paths]
    /\ taken \in Trees /\ rest \subseteq MoveList /\ todo \subseteq Owners
    /\ job \in [path : Paths \cup {NoPath}, old : Pages \cup {Absent},
                new : Pages \cup {Absent}, then : {"idle", "place", "refresh"}]
    /\ alive \subseteq Notes
    /\ resolved \in BOOLEAN /\ changes \in 0 .. MaxChanges /\ edits \in 0 .. MaxEdits
    /\ removals \in 0 .. MaxEdits
    /\ fails \in 0 .. MaxFails /\ kills \in 0 .. MaxKills

NotesIn(tree) == {tree[p].note : p \in {q \in Paths : tree[q] # Absent}} \ {NoNote}

\* No step of a sync, of its failure or of its recovery loses what an author
\* wrote: it is in the wiki, or among the originals of a transition.
ProseKept == alive \subseteq NotesIn(disk) \cup NotesIn(moves.originals)

\* What was written about one member is never on the page of another.
ProseFollowsOwner ==
    \A p \in Existing :
       removals = 0 /\ disk[p].note # NoNote => disk[p].note.home \in {NoOwner, disk[p].owner}

\* Where no transition is unresolved, no page that the manifest gives to one
\* member was generated for another.
AuthorityTrue ==
    removals = 0 /\ pc = "idle" /\ moves.state = "none" =>
       \A o \in Current(manifest) :
          disk[manifest[o]] # Absent => disk[manifest[o]].owner \in {NoOwner, o}

\* Whatever names the members swap and wherever a sync breaks off, a page, and
\* what is written on it, never passes from one member to another.
PagesFollowOwners == ProseFollowsOwner /\ AuthorityTrue

\* Recovery removes no page that the committed manifest owns.
Removes ==
    pc = "remove" /\ edits' = edits /\ removals' = removals =>
       \A p \in Existing : disk'[p] = Absent => p \notin OwnedPages(manifest)

RecoverOnlyNew == [][Removes]_vars

\* Without kills and edits, a wiki always catches up with its source, whatever
\* names are swapped and however often a sync fails, unless a transition that
\* failed waits for its author.
EventuallySynced ==
    <>[](/\ edits + removals + kills = 0 /\ ~resolved
         /\ fails + changes < MaxSyncs
         /\ moves.state = "none"
         => manifest = source /\ OwnedPages(manifest) \subseteq Existing)
=============================================================================

------------------------- MODULE BootstrapRecovery -------------------------
(***************************************************************************)
(* A first-use bootstrap between its locks and its last record             *)
(* (bootstrap_recovery.bootstrap_write_operation), the journal kept by its *)
(* write basis (maintenance_protocol.WikiWriteBasis), and the recovery of  *)
(* an interrupted bootstrap when the command is run again.                 *)
(*                                                                         *)
(* Both writer locks are held from Begin to the end, so one bootstrap runs *)
(* at a time; users take no lock and edit at any moment.  A run may be     *)
(* interrupted, when the code cleans up what it staged, or killed, when    *)
(* whatever it left in the wiki or had claimed stays under a private name. *)
(***************************************************************************)
EXTENDS Naturals

CONSTANTS
    Names,          \* paths a bootstrap writes
    Manifest,       \* the one among them written last
    Scaffolded,     \* the paths that llm-wiki init already wrote
    Scaffold,       \* what init wrote there
    Generated,      \* what a bootstrap writes
    User,           \* what users write
    MaxEdits,       \* bound on the edits of users
    MaxFaults,      \* bound on interruptions and kills
    Absent

ASSUME BootstrapAssumption ==
    /\ Manifest \in Names /\ Scaffolded \subseteq Names \ {Manifest}
    /\ Generated \cap User = {} /\ Scaffold \notin Generated \cup User
    /\ Absent \notin Generated \cup User \cup {Scaffold}
    /\ MaxEdits \in Nat /\ MaxFaults \in Nat

Contents == Generated \cup User \cup {Scaffold}
Tree == [Names -> Contents \cup {Absent}]

VARIABLES
    files,      \* the wiki, by path
    strays,     \* contents of files in the wiki under other names
    held,       \* what the guarded operation at work has claimed
    temp,       \* what the publication at work has staged
    record,     \* active.json, and whether it is there to be read
    journal,    \* publication-journal.json, and whether it is there
    pc,
    seen,       \* the wiki as recovery validated it
    expected,   \* the wiki as the basis knows it
    images,     \* the eligible images the basis collected
    todo,       \* what is still to be written
    cur,        \* the path being written or restored
    finished,   \* has this bootstrap published everything?
    edits, faults,
    killed      \* was a run ever killed?

wiki == <<files, strays, held, temp>>
basis == <<seen, expected, images, todo, cur>>
bounds == <<edits, faults, killed>>
vars == <<wiki, record, journal, pc, basis, finished, bounds>>

Empty == [n \in Names |-> Absent]
Initial == [n \in Names |-> IF n \in Scaffolded THEN Scaffold ELSE Absent]

\* A target nobody has written to: nonexistent, empty, or the exact scaffold.
Pristine == strays = {} /\ files \in {Empty, Initial}

NoRecord == [there |-> FALSE, status |-> "none", pre |-> Empty, others |-> {}]
NoJournal == [there |-> FALSE, images |-> [n \in Names |-> {}]]

Pending == record.there /\ record.status = "writing"

\* assert_current, and what recovery compares its result with.
Holds(tree) == files = tree /\ strays = record.others

\* Mutant of Eligible: the journal is not read.
EligiblePreimage(n) == {record.pre[n]}

Eligible(n) == IF journal.there THEN journal.images[n] ELSE {record.pre[n]}

(***************************************************************************)
(* Recovery                                                                *)
(***************************************************************************)

\* Mutant of Begin: the guard of all other writers stops the retry as well.
BeginGuarded ==
    /\ pc = "idle"
    /\ pc' = IF Pending THEN "refused" ELSE "preflight"
    /\ UNCHANGED <<wiki, record, journal, basis, finished, bounds>>

\* Both locks are taken and the record is loaded.
Begin ==
    /\ pc = "idle"
    /\ pc' = IF Pending THEN "recover" ELSE "preflight"
    /\ UNCHANGED <<wiki, record, journal, basis, finished, bounds>>

\* Mutant of Recover: a wiki that cannot be restored is given up.
RecoverAbandons ==
    /\ pc = "recover"
    /\ IF strays = record.others /\ \A n \in Names : files[n] \in Eligible(n)
       THEN pc' = "restore" /\ seen' = files /\ UNCHANGED <<expected, images, todo, cur>>
       ELSE pc' = "abandon" /\ UNCHANGED basis
    /\ UNCHANGED <<wiki, record, journal, finished, bounds>>

\* The whole tree is validated before anything is restored.
Recover ==
    /\ pc = "recover"
    /\ IF Pristine
       THEN pc' = "abandon" /\ UNCHANGED basis
       ELSE IF strays = record.others /\ \A n \in Names : files[n] \in Eligible(n)
            THEN /\ pc' = "restore"
                 /\ seen' = files
                 /\ UNCHANGED <<expected, images, todo, cur>>
            ELSE pc' = "refused" /\ UNCHANGED basis
    /\ UNCHANGED <<wiki, record, journal, finished, bounds>>

Differing == {n \in Names : seen[n] # record.pre[n]}

\* A guarded operation claims the next file that differs from its preimage.
RestoreClaim ==
    /\ pc = "restore" /\ Differing # {}
    /\ \E n \in Differing :
          /\ cur' = n
          /\ held' = files[n]
          /\ files' = [files EXCEPT ![n] = Absent]
    /\ pc' = "restoring"
    /\ UNCHANGED <<strays, temp, record, journal, seen, expected, images, todo, finished, bounds>>

\* The claimed file goes back to its name, or stays under a private one.
PutBack ==
    IF held # Absent /\ files[cur] = Absent
    THEN files' = [files EXCEPT ![cur] = held] /\ UNCHANGED strays
    ELSE strays' = strays \cup ({held} \ {Absent}) /\ UNCHANGED files

\* Mutant of RestoreInstall: what was claimed is not read.
RestoreUnread ==
    /\ pc = "restoring"
    /\ IF files[cur] = Absent
       THEN /\ files' = [files EXCEPT ![cur] = record.pre[cur]]
            /\ seen' = [seen EXCEPT ![cur] = record.pre[cur]]
            /\ pc' = "restore"
            /\ UNCHANGED strays
       ELSE PutBack /\ pc' = "refused" /\ UNCHANGED seen
    /\ held' = Absent
    /\ UNCHANGED <<temp, record, journal, expected, images, todo, cur, finished, bounds>>

\* ... and gives it up for the preimage if it is what was validated.
RestoreInstall ==
    /\ pc = "restoring"
    /\ IF held = seen[cur] /\ (record.pre[cur] # Absent => files[cur] = Absent)
       THEN /\ files' = IF record.pre[cur] = Absent THEN files
                        ELSE [files EXCEPT ![cur] = record.pre[cur]]
            /\ seen' = [seen EXCEPT ![cur] = record.pre[cur]]
            /\ pc' = "restore"
            /\ UNCHANGED strays
       ELSE PutBack /\ pc' = "refused" /\ UNCHANGED seen
    /\ held' = Absent
    /\ UNCHANGED <<temp, record, journal, expected, images, todo, cur, finished, bounds>>

\* No file differs any more; the wiki must now be the preimage.
RestoreCheck ==
    /\ pc = "restore" /\ Differing = {}
    /\ pc' = IF Holds(record.pre) THEN "restored" ELSE "refused"
    /\ UNCHANGED <<wiki, record, journal, basis, finished, bounds>>

(***************************************************************************)
(* The record is replaced by a guarded operation: for a moment there is    *)
(* none.                                                                   *)
(***************************************************************************)
Saving == {"abandon", "restored", "open", "complete"}

Status == [abandon |-> "abandoned", restored |-> "restored", open |-> "writing",
           complete |-> "complete"]

Following == [abandon |-> "preflight", restored |-> "preflight", open |-> "write",
              complete |-> "idle"]

UnlinkRecord ==
    /\ pc \in Saving /\ record.there
    /\ record' = [record EXCEPT !.there = FALSE]
    /\ UNCHANGED <<wiki, journal, pc, basis, finished, bounds>>

SaveRecord ==
    /\ pc \in Saving /\ ~record.there
    /\ record' = [record EXCEPT !.there = TRUE, !.status = Status[pc]]
    /\ pc' = Following[pc]
    /\ UNCHANGED <<wiki, journal, basis, finished, bounds>>

(***************************************************************************)
(* A new operation                                                         *)
(***************************************************************************)

Preflight ==
    /\ pc = "preflight"
    /\ pc' = IF Pristine THEN "capture" ELSE "idle"
    /\ UNCHANGED <<wiki, record, journal, basis, finished, bounds>>

\* The preimage is saved in a directory of its own, which has no journal yet.
\* What a record names is looked at only while its status is "writing".
Capture ==
    /\ pc = "capture"
    /\ record' = [record EXCEPT !.pre = files, !.others = strays]
    /\ journal' = NoJournal
    /\ expected' = files
    /\ images' = [n \in Names |-> {files[n]}]
    /\ todo' \in [Names -> Generated]
    /\ finished' = FALSE
    /\ pc' = "open"
    /\ UNCHANGED <<wiki, seen, cur, bounds>>

\* An operation that ends forgets what it knew.
Forget ==
    /\ seen' = Empty /\ expected' = Empty /\ todo' = Empty
    /\ images' = [n \in Names |-> {}]
    /\ cur' = Manifest

\* before_write of the next path, the manifest last.
BeforeWrite ==
    /\ pc = "write"
    /\ \E n \in Names :
          LET unchanged == IF n = Manifest THEN Holds(expected) ELSE files[n] = expected[n]
          IN  /\ todo[n] # Absent
              /\ n = Manifest => \A m \in Names \ {n} : todo[m] = Absent
              /\ IF ~unchanged
                 THEN pc' = "idle" /\ Forget
                 ELSE /\ cur' = n
                      /\ IF files[n] = todo[n]
                         THEN pc' = "stage" /\ UNCHANGED images
                         ELSE /\ pc' = "journal"
                              /\ images' = [images EXCEPT ![n] = @ \cup {todo[n]}]
                      /\ UNCHANGED <<seen, expected, todo>>
    /\ UNCHANGED <<wiki, record, journal, finished, bounds>>

\* The journal is created, or claimed ...
UnlinkJournal ==
    /\ pc = "journal" /\ journal.there
    /\ journal' = [journal EXCEPT !.there = FALSE]
    /\ pc' = "journaling"
    /\ UNCHANGED <<wiki, record, basis, finished, bounds>>

\* ... and then names the image that is about to be published.
SaveJournal ==
    /\ pc = "journaling" \/ (pc = "journal" /\ ~journal.there)
    /\ journal' = [there |-> TRUE, images |-> images]
    /\ pc' = "stage"
    /\ UNCHANGED <<wiki, record, basis, finished, bounds>>

Stage ==
    /\ pc = "stage"
    /\ temp' = todo[cur]
    /\ pc' = "replace"
    /\ UNCHANGED <<files, strays, held, record, journal, basis, finished, bounds>>

Replace ==
    /\ pc = "replace"
    /\ files' = [files EXCEPT ![cur] = temp]
    /\ temp' = Absent
    /\ pc' = "after"
    /\ UNCHANGED <<strays, held, record, journal, basis, finished, bounds>>

AfterWrite ==
    /\ pc = "after"
    /\ IF files[cur] # todo[cur]
       THEN pc' = "idle" /\ Forget
       ELSE /\ expected' = [expected EXCEPT ![cur] = todo[cur]]
            /\ todo' = [todo EXCEPT ![cur] = Absent]
            /\ pc' = "write"
            /\ UNCHANGED <<seen, images, cur>>
    /\ UNCHANGED <<wiki, record, journal, finished, bounds>>

\* The whole wiki must be what the operation published.
Finish ==
    /\ pc = "write" /\ todo = Empty
    /\ Forget
    /\ IF Holds(expected)
       THEN pc' = "complete" /\ finished' = TRUE
       ELSE pc' = "idle" /\ UNCHANGED finished
    /\ UNCHANGED <<wiki, record, journal, bounds>>

\* A refused recovery: the command fails and says what to do.
Refuse ==
    /\ pc = "refused"
    /\ pc' = "idle"
    /\ Forget
    /\ UNCHANGED <<wiki, record, journal, finished, bounds>>

(***************************************************************************)
(* Failures and users                                                      *)
(***************************************************************************)
Running == pc \notin {"idle", "refused"} /\ faults < MaxFaults

\* An exception or Ctrl-C: every primitive undoes what it had under way.
Interrupt ==
    /\ Running
    /\ faults' = faults + 1
    /\ PutBack
    /\ held' = Absent /\ temp' = Absent
    /\ record' = IF pc \in Saving /\ record.status # "none"
                 THEN [record EXCEPT !.there = TRUE] ELSE record
    /\ journal' = IF pc = "journaling" THEN [journal EXCEPT !.there = TRUE] ELSE journal
    /\ pc' = "idle"
    /\ Forget
    /\ UNCHANGED <<finished, edits, killed>>

\* The process is gone, and so is what it had claimed under its name.
Kill ==
    /\ Running
    /\ faults' = faults + 1 /\ killed' = TRUE
    /\ strays' = strays \cup ({held, temp} \ {Absent})
    /\ held' = Absent /\ temp' = Absent
    /\ record' = IF record.there THEN record ELSE NoRecord
    /\ journal' = IF journal.there THEN journal ELSE NoJournal
    /\ pc' = "idle"
    /\ Forget
    /\ UNCHANGED <<files, finished, edits>>

\* Users write, remove and add files; between commands they may also move the
\* whole wiki away, as a refused recovery tells them to.
Edit ==
    /\ edits < MaxEdits
    /\ edits' = edits + 1
    /\ \/ \E n \in Names, u \in User \cup {Absent} :
             files' = [files EXCEPT ![n] = u] /\ UNCHANGED strays
       \/ \E u \in User : strays' = strays \cup {u} /\ UNCHANGED files
       \/ pc = "idle" /\ files' = Empty /\ strays' = {}
    /\ UNCHANGED <<held, temp, record, journal, pc, basis, finished, faults, killed>>

Init ==
    /\ files \in {Empty, Initial} /\ strays = {}
    /\ held = Absent /\ temp = Absent
    /\ record = NoRecord /\ journal = NoJournal
    /\ pc = "idle"
    /\ seen = Empty /\ expected = Empty /\ todo = Empty
    /\ images = [n \in Names |-> {}] /\ cur = Manifest
    /\ finished = FALSE
    /\ edits = 0 /\ faults = 0 /\ killed = FALSE

Recovering == Recover \/ RestoreClaim \/ RestoreInstall \/ RestoreCheck \/ Refuse
Writing ==
    \/ Preflight \/ Capture \/ BeforeWrite \/ UnlinkJournal \/ SaveJournal
    \/ Stage \/ Replace \/ AfterWrite \/ Finish

Command == Begin \/ Recovering \/ UnlinkRecord \/ SaveRecord \/ Writing

Next == Command \/ Interrupt \/ Kill \/ Edit

Spec == Init /\ [][Next]_vars

\* The command goes on once started, and somebody runs it again.
FairSpec == Spec /\ WF_vars(Command)

(***************************************************************************)
(* Properties                                                              *)
(***************************************************************************)

\* Type invariant of the model.
TypeOK ==
    /\ files \in Tree /\ strays \subseteq Contents
    /\ {held, temp} \subseteq Contents \cup {Absent}
    /\ record \in [there : BOOLEAN,
                   status : {"none", "writing", "complete", "restored", "abandoned"},
                   pre : Tree, others : SUBSET Contents]
    /\ journal \in [there : BOOLEAN, images : [Names -> SUBSET (Contents \cup {Absent})]]
    /\ pc \in Saving \cup {"idle", "recover", "restore", "restoring", "refused",
                "preflight", "capture", "write", "journal", "journaling", "stage",
                "replace", "after"}
    /\ {seen, expected} \subseteq Tree /\ todo \in [Names -> Generated \cup {Absent}]
    /\ images \in [Names -> SUBSET (Contents \cup {Absent})]
    /\ cur \in Names /\ finished \in BOOLEAN
    /\ edits \in 0 .. MaxEdits /\ faults \in 0 .. MaxFaults /\ killed \in BOOLEAN

Output == {n \in Names : files[n] \in Generated}

\* Generated output that no finished bootstrap accounts for always comes with
\* a record that sends the next command to recovery and stops every other
\* writer, whatever was interrupted or killed and however often.
PartialIsGuarded == Output # {} /\ ~finished => Pending

\* Unless a run was killed, the journal of a pending one names every image in
\* the wiki that it or an earlier one has published.
JournalAhead ==
    Pending /\ ~killed /\ pc # "journaling" => \A n \in Output : files[n] \in Eligible(n)

UserBytes == User \cap ({files[n] : n \in Names} \cup strays \cup {held})

\* Recovery never takes away anything users wrote, in whatever state they
\* change the wiki between its steps.
KeepsEdits ==
    pc \in {"recover", "restore", "restoring"} /\ edits' = edits
      => UserBytes \subseteq UserBytes'

RecoveryKeepsEdits == [][KeepsEdits]_vars

Untouched == edits = 0 /\ ~killed

\* "If bootstrap is interrupted later, retrying uses its local recovery journal
\* to restore only unchanged output": without edits, recovery is never refused
\* however often a run is interrupted.
InterruptedNotRefused == Untouched => pc # "refused"

\* The same sentence of a run that was killed.
RetryNotRefused == edits = 0 => pc # "refused"

\* With no edits and finitely many interruptions, running the command again
\* and again ends in a complete wiki.
EventuallyComplete == <>[](Untouched => finished /\ record.status = "complete")
=============================================================================

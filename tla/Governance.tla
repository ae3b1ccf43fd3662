----------------------------- MODULE Governance -----------------------------
(* Durable identity: the governance ledger is the authority, the knowledge  *)
(* index carries a disposable projection of it and the manifest commits the *)
(* projection. Every governed publication saves the ledger first and then   *)
(* writes index and manifest, and may be killed in between; the users of    *)
(* the repository meanwhile edit pages and replace the ledger file.         *)
EXTENDS IdentityLedger

CONSTANTS
    Lockers,        \* processes that hold both locks throughout: sync, knowledge
    Finalizers,     \* processes that take them to finalize: migrate, bootstrap
    Histories,      \* bundle, first pages and renames before a behaviour starts
    Targets,        \* coordinates that explicit moves name
    Names,          \* coordinates that explicit aliases name
    States,         \* lifecycle states that explicit commands name
    OwnedPages,     \* entity and module pages, which follow the sources
    MaxEvents,      \* bound: user actions, explicit commands, migrations and kills
    NoProc, NoLedger, Damaged

Procs == Lockers \cup Finalizers

\* Coordinates name pages; no ledger file is no ledger, no holder no process.
ASSUME GovernanceAssumption ==
    /\ OwnedPages \subseteq Places
    /\ Targets \subseteq Coordinates
    /\ Names \subseteq {"locator", "key"} \X Places
    /\ States \subseteq Lifecycles
    /\ \A h \in Histories :
         /\ h.bundle \in Bundles
         /\ h.first \subseteq Places
         /\ h.moves \in [DOMAIN h.moves -> Places] /\ DOMAIN h.moves \subseteq Places
    /\ ~IsLedger(NoLedger)
    /\ NoProc \notin Procs

VARIABLES
    ledger,         \* .llm-wiki-governance.json
    index,          \* .llm-wiki-knowledge.json
    manifest,       \* .llm-wiki-manifest.json: what it commits
    pages,          \* live Markdown: content per page
    renames,        \* pages of renamed sources, as the manifest does not know yet
    pending,        \* a sync has moved pages, and their originals are kept
    checkedIn,      \* the ledger in version control
    lock,           \* holder of the governance and storage locks
    pc,
    job,            \* what each process has read and means to write
    events,         \* how much of the bound is used
    replaced        \* the ledger was replaced by hand and not published since

wiki == <<ledger, index, manifest>>
users == <<pages, pending, renames, checkedIn>>
vars == <<wiki, users, lock, pc, job, events, replaced>>

NoJob == [index |-> NoLedger, manifest |-> NoLedger, moves |-> <<>>, loaded |-> NoLedger,
          next |-> NoLedger, on |-> <<>>, publish |-> FALSE]

Goto(p, s) == pc' = [pc EXCEPT ![p] = s]
Acquire(p) == lock = NoProc /\ lock' = p
Spend == events < MaxEvents /\ events' = events + 1

Leave(p) ==
    /\ Goto(p, "idle")
    /\ job' = [job EXCEPT ![p] = NoJob]
    /\ lock' = IF lock = p THEN NoProc ELSE lock

\* The bundle of the prior projection, when it is intact, must be the ledger's.
Continues(i, m, L) == i = m /\ i.gov # NoLedger => i.gov.bundle = L.bundle

\* Pages after the renames are carried out on disk.
Renamed(on, moves) ==
    LET todo == DOMAIN moves \cap DOMAIN on
    IN Over([q \in {moves[p] : p \in todo} |-> on[CHOOSE p \in todo : moves[p] = q]],
            [p \in DOMAIN on \ todo |-> on[p]])

\* Targets that a sync which broke off has filled already.
Occupied == {q \in DOMAIN renames : renames[q] \in DOMAIN pages}

\* A committed wiki, governed from its first pages on or not at all.
Init ==
    /\ \E h \in Histories :
         /\ \E c \in Scopes : pages = Renamed([p \in h.first |-> c], h.moves)
         /\ \/ ledger = NoLedger
            \/ \E L \in Reconcile(Empty(h.bundle), h.first, <<>>) :
                  ledger \in Reconcile(L, DOMAIN pages, h.moves)
    /\ manifest = [gov |-> ledger, on |-> pages]
    /\ index = manifest
    /\ checkedIn = NoLedger
    /\ renames = <<>> /\ pending = FALSE
    /\ lock = NoProc
    /\ pc = [p \in Procs |-> "idle"]
    /\ job = [p \in Procs |-> NoJob]
    /\ events = 0 /\ replaced = FALSE

----------------------------------------------------------------------------
(* Publishing: sync, migrate, bootstrap.                                   *)

\* Mutant of LedgerFound: a lost ledger is taken for no ledger.
LedgerFoundOrNot(m) == TRUE

\* A ledger that prior artifacts were governed by may not be missing.
LedgerFound(m) == ledger = NoLedger => m.gov = NoLedger

\* A sync moves pages unless it finds a transition unresolved or a target
\* occupied; the migrations modelled here have no page to move.
Movable(p) == IF p \in Lockers THEN ~pending /\ Occupied = {} ELSE renames = <<>>

\* Mutant of Start: the ledger must be the one that was published.
StartInStep(p) ==
    /\ pc[p] = "idle"
    /\ IF p \in Lockers THEN Acquire(p) /\ UNCHANGED events ELSE Spend /\ UNCHANGED lock
    /\ Movable(p)
    /\ ledger = manifest.gov
    /\ job' = [job EXCEPT ![p].index = index, ![p].manifest = manifest, ![p].moves = renames]
    /\ Goto(p, "pages")
    /\ UNCHANGED <<wiki, users, replaced>>

\* The command captures the committed artifacts and checks the ledger before
\* it touches a page.
Start(p) ==
    /\ pc[p] = "idle"
    /\ IF p \in Lockers THEN Acquire(p) /\ UNCHANGED events ELSE Spend /\ UNCHANGED lock
    /\ Movable(p)
    /\ LedgerFound(manifest)
    /\ ledger # NoLedger =>
         /\ Continues(index, manifest, ledger)
         /\ p \in Lockers =>
              Reconcile(ledger, DOMAIN Renamed(pages, renames) \cap OwnedPages, renames) # {}
    /\ job' = [job EXCEPT ![p].index = index, ![p].manifest = manifest, ![p].moves = renames]
    /\ Goto(p, "pages")
    /\ UNCHANGED <<wiki, users, replaced>>

WritePages(p) ==
    /\ pc[p] = "pages"
    /\ pages' = Renamed(pages, job[p].moves)
    /\ pending' = (pending \/ pages' # pages)
    /\ Goto(p, "finalize")
    /\ UNCHANGED <<wiki, renames, checkedIn, lock, job, events, replaced>>

Unchanged(p) == index = job[p].index /\ manifest = job[p].manifest

FinalizeUngoverned(p) ==
    /\ pc[p] = "finalize"
    /\ ledger = NoLedger /\ LedgerFound(job[p].manifest)
    /\ job' = [job EXCEPT ![p].on = pages, ![p].publish = TRUE]
    /\ Goto(p, "commit")
    /\ IF lock = p THEN UNCHANGED lock ELSE Acquire(p)
    /\ UNCHANGED <<wiki, users, events, replaced>>

\* Mutant of FinalizeGoverned: the reconciled ledger is projected and not saved.
FinalizeUnsaved(p) ==
    /\ pc[p] = "finalize"
    /\ IF lock = p THEN UNCHANGED lock ELSE Acquire(p)
    /\ ledger # NoLedger
    /\ Continues(job[p].index, job[p].manifest, ledger)
    /\ Unchanged(p)
    /\ \E N \in Reconcile(ledger, DOMAIN pages, job[p].moves) :
         job' = [job EXCEPT ![p].loaded = ledger, ![p].next = N,
                            ![p].on = pages, ![p].publish = TRUE]
    /\ Goto(p, "commit")
    /\ UNCHANGED <<wiki, users, events, replaced>>

\* finalize_runtime_knowledge: the ledger is loaded and reconciled again, now
\* with every page of the surface.
FinalizeGoverned(p) ==
    /\ pc[p] = "finalize"
    /\ IF lock = p THEN UNCHANGED lock ELSE Acquire(p)
    /\ ledger # NoLedger
    /\ Continues(job[p].index, job[p].manifest, ledger)
    /\ Unchanged(p)
    /\ \E N \in Reconcile(ledger, DOMAIN pages, job[p].moves) :
         job' = [job EXCEPT ![p].loaded = ledger, ![p].next = N,
                            ![p].on = pages, ![p].publish = TRUE]
    /\ Goto(p, "save")
    /\ UNCHANGED <<wiki, users, events, replaced>>

----------------------------------------------------------------------------
(* Explicit commands: init, move, alias, lifecycle, supersede, review.     *)

\* _validated_artifact_snapshot: the artifacts agree with each other and with
\* the pages; a projection that lags behind the ledger is tolerated.
Coherent == index = manifest /\ manifest.on = pages

Changes(L) ==
    UNION ({SetLifecycle(L, u, s, v) : u \in Uids(L), s \in States, v \in Uids(L) \cup {NoUid}}
           \cup {AddAlias(L, u, n) : u \in Uids(L), n \in Names}
           \cup {AddReview(L, u, index.on[L.at[u].locator]) :
                   u \in {v \in Uids(L) : L.at[v].locator \in DOMAIN index.on}})

\* The command takes the locks, loads the ledger and plans the projection.
Prepare(p, N, publish) ==
    /\ pc[p] = "idle" /\ p \in Lockers
    /\ Acquire(p)
    /\ job' = [job EXCEPT ![p] = [index |-> index, manifest |-> manifest, moves |-> <<>>,
                                  loaded |-> ledger, next |-> N,
                                  on |-> index.on, publish |-> publish]]
    /\ Goto(p, "save")
    /\ Spend
    /\ UNCHANGED <<wiki, users, replaced>>

\* A missing ledger is created only when nothing was governed before.
InitLedger(p) ==
    /\ Coherent
    /\ IF ledger = NoLedger THEN index.gov = NoLedger ELSE Continues(index, manifest, ledger)
    /\ \E L \in IF ledger = NoLedger THEN {Empty(b) : b \in Bundles} ELSE {ledger} :
         \E N \in Reconcile(L, DOMAIN index.on, <<>>) :
            Projectable(N, DOMAIN index.on) /\ Prepare(p, N, TRUE)

Mutate(p) ==
    /\ ledger # NoLedger /\ Coherent
    /\ Continues(index, manifest, ledger)
    /\ \E N \in Changes(ledger) :
         Projectable(N, DOMAIN index.on) /\ Prepare(p, N, TRUE)

\* A move is staged between the rename of a page and the next sync: the pages
\* may differ from the artifacts, and the projection may have to wait.
Move(p) ==
    /\ ledger # NoLedger /\ index = manifest
    /\ Continues(index, manifest, ledger)
    /\ \E u \in Uids(ledger), c \in Targets :
         \E N \in MoveConcept(ledger, u, c) :
            Prepare(p, N, Projectable(N, DOMAIN index.on))

----------------------------------------------------------------------------
(* The common end: the ledger first, then the projection, then the marker. *)

\* save_governance compares the ledger with the one that was loaded.
Save(p) ==
    /\ pc[p] = "save"
    /\ Unchanged(p)
    /\ ledger = job[p].loaded
    /\ ledger' = job[p].next
    /\ IF job[p].publish
         THEN Goto(p, "commit") /\ UNCHANGED <<lock, job>>
         ELSE Leave(p)
    /\ UNCHANGED <<index, manifest, users, events, replaced>>

Planned(p) == [gov |-> job[p].next, on |-> job[p].on]

CommitIndex(p) ==
    /\ pc[p] = "commit"
    /\ Unchanged(p)
    /\ index' = Planned(p)
    /\ Goto(p, "manifest")
    /\ UNCHANGED <<ledger, manifest, users, lock, job, events, replaced>>

CommitManifest(p) ==
    /\ pc[p] = "manifest"
    /\ index = Planned(p) /\ manifest = job[p].manifest
    /\ manifest' = Planned(p)
    /\ renames' = [q \in {r \in DOMAIN renames : r \notin DOMAIN job[p].moves} |-> renames[q]]
    /\ pending' = (pending /\ job[p].moves = <<>>)
    /\ replaced' = (replaced /\ ledger # job[p].next)
    /\ Leave(p)
    /\ UNCHANGED <<ledger, index, pages, checkedIn, events>>

\* A step that finds its files changed, its ledger gone or in conflict, or the
\* lock taken ends the command.
Refused(p) ==
    /\ \/ /\ pc[p] = "finalize"
          /\ \/ lock \notin {NoProc, p}
             \/ ~LedgerFound(job[p].manifest)
             \/ /\ ledger # NoLedger
                /\ \/ ~Continues(job[p].index, job[p].manifest, ledger)
                   \/ ~Unchanged(p)
                   \/ Reconcile(ledger, DOMAIN pages, job[p].moves) = {}
       \/ pc[p] = "save" /\ (~Unchanged(p) \/ ledger # job[p].loaded)
       \/ pc[p] = "commit" /\ ~Unchanged(p)
       \/ pc[p] = "manifest" /\ (index # Planned(p) \/ manifest # job[p].manifest)
    /\ Leave(p)
    /\ UNCHANGED <<wiki, users, events, replaced>>

Kill(p) ==
    /\ pc[p] # "idle"
    /\ Leave(p)
    /\ Spend
    /\ UNCHANGED <<wiki, users, replaced>>

----------------------------------------------------------------------------
(* What the users of the repository do between and during the commands.    *)

Free(p) == p \notin DOMAIN pages /\ \A q \in DOMAIN renames : p # q /\ p # renames[q]

WritePage(p, c) ==
    /\ p \in DOMAIN pages \/ Free(p)
    /\ pages' = Over([q \in {p} |-> c], pages)
    /\ Spend
    /\ UNCHANGED <<wiki, pending, renames, checkedIn, lock, pc, job, replaced>>

DeletePage(p) ==
    /\ p \in DOMAIN pages /\ \A q \in DOMAIN renames : p # q /\ p # renames[q]
    /\ pages' = [q \in DOMAIN pages \ {p} |-> pages[q]]
    /\ Spend
    /\ UNCHANGED <<wiki, pending, renames, checkedIn, lock, pc, job, replaced>>

\* A renamed source: the next sync carries its page and its identity along.
RenameSource(p, q) ==
    /\ p \in DOMAIN pages /\ Free(q)
    /\ \A r \in DOMAIN renames : p # r /\ p # renames[r]
    /\ renames' = Over([r \in {p} |-> q], renames)
    /\ Spend
    /\ UNCHANGED <<wiki, pages, pending, checkedIn, lock, pc, job, replaced>>

\* An author settles what a sync left half done: the pages go back to where
\* the manifest has them, or stay.
Resolve ==
    /\ lock = NoProc
    /\ pending \/ Occupied # {}
    /\ pending' = FALSE
    /\ pages' \in {pages, Renamed(pages, [q \in {renames[r] : r \in Occupied} |->
                                             CHOOSE r \in Occupied : renames[r] = q])}
    /\ UNCHANGED <<wiki, renames, checkedIn, lock, pc, job, events, replaced>>

CheckIn ==
    /\ ledger # NoLedger /\ ledger # checkedIn
    /\ checkedIn' = ledger
    /\ UNCHANGED <<wiki, pages, pending, renames, lock, pc, job, events, replaced>>

ReplaceLedger(L) ==
    /\ ledger # NoLedger \/ checkedIn # NoLedger
    /\ ledger # L
    /\ ledger' = L
    /\ replaced' = TRUE
    /\ Spend
    /\ UNCHANGED <<index, manifest, users, lock, pc, job>>

\* Lost, restored from version control, or taken from another clone.
LedgerByHand ==
    \/ ReplaceLedger(NoLedger)
    \/ ReplaceLedger(checkedIn)
    \/ \E b \in Bundles : \E L \in Reconcile(Empty(b), DOMAIN pages, <<>>) : ReplaceLedger(L)

DamageIndex ==
    /\ index # Damaged
    /\ index' = Damaged
    /\ Spend
    /\ UNCHANGED <<ledger, manifest, users, lock, pc, job, replaced>>

User ==
    \/ \E p \in Places, c \in Scopes : WritePage(p, c)
    \/ \E p \in Places : DeletePage(p)
    \/ \E p, q \in OwnedPages : RenameSource(p, q)
    \/ Resolve \/ CheckIn \/ LedgerByHand \/ DamageIndex

Publish(p) ==
    \/ Start(p) \/ WritePages(p) \/ FinalizeUngoverned(p) \/ FinalizeGoverned(p)
    \/ Save(p) \/ CommitIndex(p) \/ CommitManifest(p) \/ Refused(p)

Command(p) == InitLedger(p) \/ Mutate(p) \/ Move(p)

Next == User \/ \E p \in Procs : Publish(p) \/ Command(p) \/ Kill(p)

Spec == Init /\ [][Next]_vars

\* Sync is run again and again, and what is started is carried out.
FairSpec == Spec /\ \A p \in Procs : WF_vars(Publish(p))

----------------------------------------------------------------------------
Projections == (IF index = Damaged THEN {} ELSE {index}) \cup {manifest}
Governed == {x \in Projections : x.gov # NoLedger}

\* Whatever a command saves records everything that the ledger it replaces
\* recorded: allocations, past and present coordinates, events, reviews.
IdentitiesKept ==
    [][\A p \in Procs : Save(p) /\ ledger # NoLedger => Keeps(ledger, ledger')]_vars

\* However a command is killed, the authority is never behind its projection:
\* unless somebody replaced the ledger file, it records all that index or
\* manifest were made from.
AuthorityNotBehind ==
    ~replaced => \A x \in Governed : ledger # NoLedger /\ Keeps(x.gov, ledger)

\* Once governed, always governed: no publication reassigns an identity. The
\* bundle stays unless the prior index was damaged, and a page that stays
\* keeps its UID unless the ledger was replaced by hand.
IdentityStands ==
    [][manifest' # manifest /\ manifest.gov # NoLedger =>
         /\ manifest'.gov # NoLedger
         /\ \A p \in Procs :
              pc[p] = "manifest" /\ pc'[p] = "idle" /\ job[p].index = job[p].manifest =>
                manifest'.gov.bundle = manifest.gov.bundle
         /\ ~replaced =>
              \A q \in DOMAIN manifest.on \cap DOMAIN manifest'.on :
                 Located(manifest.gov, q) = Located(manifest'.gov, q)]_vars

\* A review that readers are told is valid is about the page that its concept
\* has now, never about another concept's page at a place it once had.
ReviewsOfTheirConcept ==
    \A x \in Governed : \A r \in x.gov.reviews :
       ReviewValid(x.gov, x.on, r) => x.gov.at[r.uid].locator = r.at

\* A publication that was interrupted after it saved the ledger can be run
\* again: the same renames reconcile to the same ledger.
ReconcileSettles ==
    ledger # NoLedger =>
      LET on == DOMAIN Renamed(pages, renames)
      IN \A N \in Reconcile(ledger, on, renames) : Reconcile(N, on, renames) = {N}

\* Readers serve the index: ledger, projection, marker and pages agree.
Ready == index = manifest /\ manifest.on = pages /\ manifest.gov = ledger

\* What the program refuses to decide: pages that a sync left half moved, a lost
\* or foreign ledger, and pages whose coordinates belong to other concepts.
NeedsUser ==
    \/ pending \/ Occupied # {}
    \/ ~LedgerFound(manifest)
    \/ /\ ledger # NoLedger
       /\ \/ ~Continues(index, manifest, ledger)
          \/ Reconcile(ledger, DOMAIN Renamed(pages, renames), renames) = {}

\* Wherever commands are killed, sync brings the wiki back to a state that
\* readers serve, or to one that only its users can resolve.
ReadableAgain == []<>(Ready \/ NeedsUser)
=============================================================================

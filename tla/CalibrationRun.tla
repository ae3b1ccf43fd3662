--------------------------- MODULE CalibrationRun ---------------------------
(***************************************************************************)
(* One calibration cohort (local profile): its ledger of transitions, the  *)
(* commands that advance it, and the agents they start.                    *)
(*                                                                         *)
(* A command opens the protected root, takes the controller lock without   *)
(* waiting, and loads the run; loading replays a transaction that a killed *)
(* command left pending.  It then decides on what it loaded and commits at *)
(* most one transition at a time: pending record, artifacts, ledger entry, *)
(* run.json and projection, pending record again, each file on its own.    *)
(* The agent of a dispatch runs outside the lock.                          *)
(*                                                                         *)
(* A command that finds the lock busy fails and changes nothing, so only   *)
(* an agent's outcome, which has nobody to repeat it, is lost that way.    *)
(* A write killed half-way leaves its temporary file: an entry unknown to  *)
(* the root, or to the ledger directory, or a second name of the new file, *)
(* with which no later command opens the root.  Every transition is taken  *)
(* to have artifacts.                                                      *)
(***************************************************************************)
EXTENDS FiniteSets, FiniteSetsExt, Integers

CONSTANTS
    Controllers,    \* processes that run commands on the cohort
    Intakes,        \* intake roles
    Verifier,       \* the verifier role
    MaxCalls,       \* max_total_calls of the frozen manifest
    MaxKills,       \* bound on the processes killed
    NoOne, NoRole

ASSUME CohortAssumption ==
    /\ NoOne \notin Controllers
    /\ Verifier \notin Intakes /\ NoRole \notin Intakes \cup {Verifier}
    /\ IsFiniteSet(Intakes)
    /\ MaxCalls \in Nat \ {0} /\ MaxKills \in Nat

VARIABLES
    gen, head,      \* transitions in the ledger, and the run body of the last
    arts,           \* the last generation whose artifacts are all on disk
    base,           \* the preparation whose baseline artifacts are there
    pending,        \* pending-transaction.json
    snap,           \* generation in run.json, 0 before there is one
    rejected,       \* terminal-rejection.json is there
    debris,         \* what killed writes left
    lock,           \* holder of controller.lock
    pc, job,        \* the command each controller runs
    blamed,         \* a command found documents changed, or another grant
    late,           \* roles whose active dispatch is past its deadline
    launches,       \* how often an agent was started, by role and attempt
    probes,         \* how often the admission probe was run
    kills

disk == <<gen, head, arts, base, pending, snap, rejected, debris>>
world == <<blamed, late, launches, probes, kills>>
vars == <<disk, lock, pc, job, world>>

Roles == Intakes \cup {Verifier}
Attempts == 1 .. 2
Active == {"BASELINE_FROZEN", "ADMISSION_AUTHORIZED", "INTAKE_OPEN"}
Terminal == {"INTAKE_FROZEN", "BLOCKED_NO_SHIP", "REJECT"}

\* The cohort is named after the controller that prepares it.
Preflight == [cohort |-> NoOne, state |-> "PREFLIGHT", authority |-> FALSE, probe |-> FALSE,
              roles |-> [r \in Roles |-> [status |-> "not_issued", attempts |-> 0]]]
In(state) == [head EXCEPT !.state = state]
With(r, status) == [head EXCEPT !.roles[r].status = status]

NoJob == [cmd |-> "none", role |-> NoRole, outcome |-> "none",
          body |-> Preflight, next |-> "exit"]

Goto(c, label) == pc' = [pc EXCEPT ![c] = label]

\* The command returns or raises: either way the lock is released.
Exit(c) ==
    /\ lock' = NoOne
    /\ Goto(c, "idle")
    /\ job' = [job EXCEPT ![c] = NoJob]

\* _commit_transition of the given body, and what the command does next.
Commit(c, body, next) ==
    /\ job' = [job EXCEPT ![c].body = body, ![c].next = next]
    /\ Goto(c, "pending")
    /\ UNCHANGED lock

\* _terminal_transition_locked
Terminate(c, state) == Commit(c, In(state), "exit")

(***************************************************************************)
(* Opening and loading                                                     *)
(***************************************************************************)

\* A new root, or one where nobody has yet made controller.lock.
RootEmpty == gen = 0 /\ pending.status = "none" /\ debris = {} /\ lock = NoOne

\* prepare_calibration_run finds the root empty before it takes the lock.
OpenNew(c) ==
    /\ pc[c] = "idle" /\ RootEmpty
    /\ Goto(c, "new")
    /\ UNCHANGED <<disk, lock, job, world>>

Prepare(c) ==
    /\ pc[c] = "new" /\ lock = NoOne
    /\ lock' = c
    /\ job' = [job EXCEPT ![c] = [NoJob EXCEPT !.cmd = "prepare",
                 !.body = [Preflight EXCEPT !.cohort = c, !.state = "BASELINE_FROZEN"]]]
    /\ Goto(c, "pending")
    /\ UNCHANGED <<disk, world>>

PrepareBusy(c) ==
    /\ pc[c] = "new" /\ lock # NoOne
    /\ Goto(c, "idle")
    /\ UNCHANGED <<disk, lock, job, world>>

\* _assert_tree_safe refuses a file with two names.
Openable == debris \subseteq {"root", "transitions"}

\* _open_store and store.lock of a command on an existing cohort.
Enter(c, cmd, r) ==
    /\ pc[c] = "idle" /\ lock = NoOne /\ Openable
    /\ gen > 0 \/ pending.status # "none"
    /\ lock' = c
    /\ job' = [job EXCEPT ![c] = [NoJob EXCEPT !.cmd = cmd, !.role = r]]
    /\ Goto(c, "load")
    /\ UNCHANGED <<disk, world>>

Loading(c) == pc[c] = "load"

\* _load_transition_events accepts the names, the files and their artifacts.
Readable == debris \cap {"transitions", "transition"} = {} /\ arts >= gen

\* Baseline artifacts that cannot be overwritten are in the way of this body's.
Conflict(number, body) ==
    number = 1 /\ (base \notin {NoOne, body.cohort} \/ "artifact" \in debris)

\* _recover_pending_transaction cannot replay what is pending.
Ambiguous ==
    \/ pending.gen \notin {gen, gen + 1}
    \/ pending.gen = gen /\ pending.body # head
    \/ "artifact" \in debris
    \/ Conflict(pending.gen, pending.body)

\* Rejected for good, or no ledger to speak of.
LoadNothing(c) ==
    /\ Loading(c)
    /\ \/ rejected
       \/ gen = 0 /\ (~Readable \/ Ambiguous)
    /\ Exit(c)
    /\ UNCHANGED <<disk, world>>

\* Neither the pending transaction nor the ledger can be trusted.
LoadUnreadable(c) ==
    /\ Loading(c) /\ ~rejected /\ gen > 0 /\ ~Readable
    /\ Goto(c, "reject")
    /\ UNCHANGED <<disk, lock, job, world>>

\* _persist_emergency_rejection: terminal-rejection.json, then run.json.
PersistRejection(c) ==
    /\ pc[c] = "reject"
    /\ rejected' = TRUE
    /\ Exit(c)
    /\ UNCHANGED <<gen, head, arts, base, pending, snap, debris, world>>

Replayable(c) == Loading(c) /\ ~rejected /\ Readable /\ pending.status = "pending"

\* Mutant of Replay: recovery that only completes the ledger.
ReplayLedger(c) ==
    /\ Replayable(c) /\ ~Ambiguous
    /\ job' = [job EXCEPT ![c].next = "load"]
    /\ Goto(c, "transition")
    /\ UNCHANGED <<disk, lock, world>>

Replay(c) ==
    /\ Replayable(c) /\ ~Ambiguous
    /\ job' = [job EXCEPT ![c].next = "load"]
    /\ Goto(c, "artifacts")
    /\ UNCHANGED <<disk, lock, world>>

\* _block_ambiguous_recovery
BlockAmbiguous(c) ==
    /\ Replayable(c) /\ Ambiguous /\ gen > 0
    /\ IF head.state \in Terminal THEN Exit(c) ELSE Terminate(c, "BLOCKED_NO_SHIP")
    /\ UNCHANGED <<disk, world>>

\* Mutant of Load: a load that leaves the pending transaction alone.
LoadUnreplayed(c) ==
    /\ Loading(c) /\ ~rejected /\ Readable /\ gen > 0
    /\ snap' = gen
    /\ Goto(c, "decide") /\ UNCHANGED <<job, lock>>
    /\ UNCHANGED <<gen, head, arts, base, pending, rejected, debris, world>>

\* run.json is rewritten if it differs, the projection always.
Load(c) ==
    /\ Loading(c) /\ ~rejected /\ Readable /\ gen > 0 /\ pending.status # "pending"
    /\ snap' = gen
    /\ IF "root" \in debris /\ head.state \notin Terminal
       THEN Terminate(c, "BLOCKED_NO_SHIP")
       ELSE Goto(c, "decide") /\ UNCHANGED <<job, lock>>
    /\ UNCHANGED <<gen, head, arts, base, pending, rejected, debris, world>>

(***************************************************************************)
(* Committing, file by file                                                *)
(***************************************************************************)

\* A preparation always writes the first transition.
WritePending(c) ==
    /\ pc[c] = "pending"
    /\ pending' = [status |-> "pending", body |-> job[c].body,
                   gen |-> IF job[c].cmd = "prepare" THEN 1 ELSE gen + 1]
    /\ Goto(c, "artifacts")
    /\ UNCHANGED <<gen, head, arts, base, snap, rejected, debris, lock, job, world>>

WriteArtifacts(c) ==
    /\ pc[c] = "artifacts" /\ ~Conflict(pending.gen, pending.body)
    /\ arts' = Max({arts, pending.gen})
    /\ base' = pending.body.cohort
    /\ Goto(c, "transition")
    /\ UNCHANGED <<gen, head, pending, snap, rejected, debris, lock, job, world>>

\* An immutable artifact is there with other bytes.
WriteConflict(c) ==
    /\ pc[c] = "artifacts" /\ Conflict(pending.gen, pending.body)
    /\ Exit(c)
    /\ UNCHANGED <<disk, world>>

\* Mutant of WriteTransition: no snapshot after the ledger entry.
WriteTransitionOnly(c) ==
    /\ pc[c] = "transition"
    /\ gen' = pending.gen /\ head' = pending.body
    /\ Goto(c, "commit")
    /\ UNCHANGED <<arts, base, pending, snap, rejected, debris, lock, job, world>>

WriteTransition(c) ==
    /\ pc[c] = "transition"
    /\ gen' = pending.gen /\ head' = pending.body
    /\ Goto(c, "snapshot")
    /\ UNCHANGED <<arts, base, pending, snap, rejected, debris, lock, job, world>>

WriteSnapshot(c) ==
    /\ pc[c] = "snapshot"
    /\ snap' = gen
    /\ Goto(c, "commit")
    /\ UNCHANGED <<gen, head, arts, base, pending, rejected, debris, lock, job, world>>

Committed(c) ==
    /\ pc[c] = "commit"
    /\ pending' = [pending EXCEPT !.status = "committed"]
    /\ IF job[c].next = "exit"
       THEN Exit(c)
       ELSE Goto(c, job[c].next) /\ UNCHANGED <<lock, job>>
    /\ UNCHANGED <<gen, head, arts, base, snap, rejected, debris, world>>

(***************************************************************************)
(* Deciding                                                                *)
(***************************************************************************)

Decides(c, cmd) ==
    /\ pc[c] = "decide" /\ job[c].cmd = cmd
    /\ UNCHANGED <<disk, launches, probes, kills>>

Return(c) == Exit(c) /\ UNCHANGED blamed
Proceed(c, body, next) == Commit(c, body, next) /\ UNCHANGED blamed
Block(c) == Terminate(c, "BLOCKED_NO_SHIP") /\ UNCHANGED blamed
Reject(c) == Terminate(c, "REJECT") /\ blamed' = TRUE

\* _recheck_bound_controls and the freshness of the authority, where commands
\* begin: the bound documents may have changed and changed back, the grant may
\* have run out, at any check.
Recheck(c) == Reject(c) \/ Block(c)

\* Mutant of Interrupted: looks for a probe before authority.
InterruptedEarly == head.state = "BASELINE_FROZEN" /\ ~head.authority /\ head.probe

\* _has_indeterminate_admission_probe
Interrupted == head.state = "BASELINE_FROZEN" /\ head.authority /\ head.probe

\* Mutant of Stale: looks at packets that no dispatch has taken.
StalePacket == \E r \in late : head.roles[r].status = "packet_issued"

\* _stale_active_dispatches
Stale == \E r \in late : head.roles[r].status = "dispatch_started"

\* get_calibration_run_status
Status(c) ==
    /\ Decides(c, "status") /\ UNCHANGED late
    /\ \/ head.state \in Active /\ Reject(c)
       \/ /\ head.state \in {"ADMISSION_AUTHORIZED", "INTAKE_OPEN"} \/ Interrupted
          /\ Block(c)
       \/ (head.state \in Active => ~Interrupted /\ ~Stale) /\ Return(c)

\* admit_calibration_run, up to the probe.  The grant may be invalid, or
\* another one than the grant that is frozen.
Admit(c) ==
    /\ Decides(c, "admit") /\ UNCHANGED late
    /\ CASE head.state = "ADMISSION_AUTHORIZED" -> Recheck(c) \/ Return(c)
         [] head.state = "BASELINE_FROZEN" ->
              \/ Recheck(c)
              \/ ~head.authority /\ Proceed(c, [head EXCEPT !.authority = TRUE], "probeStart")
              \/ /\ head.authority /\ ~Interrupted
                 /\ Goto(c, "probeStart")
                 /\ UNCHANGED <<lock, job, blamed>>
         [] OTHER -> Return(c)

\* _admit_local_oci: the probe is on record before it runs, under the lock.
ProbeStart(c) ==
    /\ pc[c] = "probeStart"
    /\ Proceed(c, [head EXCEPT !.probe = TRUE], "probe") \/ Block(c)
    /\ UNCHANGED <<disk, late, launches, probes, kills>>

Probe(c) ==
    /\ pc[c] = "probe"
    /\ probes' = probes + 1
    /\ Goto(c, "probed")
    /\ UNCHANGED <<disk, lock, job, late, launches, kills, blamed>>

\* It fails or passes, after which everything is checked again.
ProbeEnd(c) ==
    /\ pc[c] = "probed"
    /\ Recheck(c) \/ Proceed(c, In("ADMISSION_AUTHORIZED"), "exit")
    /\ UNCHANGED <<disk, late, launches, probes, kills>>

IntakesFrozen == \A r \in Intakes : head.roles[r].status = "result_frozen"
Issued == Cardinality({i \in Roles \X Attempts : i[2] <= head.roles[i[1]].attempts})

\* build_calibration_agent_packet; a spent budget, a second failed attempt and
\* a packet too large block the cohort.
Packet(c) ==
    LET r == job[c].role  role == head.roles[r] IN
    /\ Decides(c, "packet") /\ UNCHANGED late
    /\ IF head.state \notin {"ADMISSION_AUTHORIZED", "INTAKE_OPEN"} THEN Return(c)
       ELSE \/ Recheck(c)
            \/ /\ role.status # "not_issued" \/ (r = Verifier /\ ~IntakesFrozen)
               /\ Return(c)
            \/ /\ role.status = "not_issued" /\ role.attempts < 2 /\ Issued < MaxCalls
               /\ r = Verifier => IntakesFrozen
               /\ Proceed(c, [In("INTAKE_OPEN") EXCEPT !.roles[r] =
                     [status |-> "packet_issued", attempts |-> role.attempts + 1]], "exit")

\* dispatch_calibration_agent, up to the start of the agent.
Dispatch(c) ==
    LET r == job[c].role IN
    /\ Decides(c, "dispatch")
    /\ IF head.state # "INTAKE_OPEN" \/ head.roles[r].status # "packet_issued"
       THEN Return(c) /\ UNCHANGED late
       ELSE \/ Recheck(c) /\ UNCHANGED late
            \/ Proceed(c, With(r, "dispatch_started"), "launch") /\ late' = late \ {r}

(***************************************************************************)
(* Agents, outside the lock                                                *)
(***************************************************************************)

Launch(c) ==
    LET r == job[c].role IN
    /\ pc[c] = "launch"
    /\ lock' = NoOne
    /\ launches' = [launches EXCEPT ![r][head.roles[r].attempts] = @ + 1]
    /\ Goto(c, "agent")
    /\ UNCHANGED <<disk, job, blamed, late, probes, kills>>

AgentEnds(c, outcome) ==
    /\ pc[c] = "agent"
    /\ job' = [job EXCEPT ![c].outcome = outcome, ![c].cmd = "record"]
    /\ Goto(c, "reenter")
    /\ UNCHANGED <<disk, lock, world>>

\* A result is recorded through a newly opened store, a failure through the
\* one that the dispatch has open.
CanReport(c) == lock = NoOne /\ (Openable \/ job[c].outcome = "failed")

Reenter(c) ==
    /\ pc[c] = "reenter" /\ CanReport(c)
    /\ lock' = c
    /\ Goto(c, "load")
    /\ UNCHANGED <<disk, job, world>>

LoseOutcome(c) ==
    /\ pc[c] = "reenter" /\ ~CanReport(c)
    /\ Goto(c, "idle")
    /\ job' = [job EXCEPT ![c] = NoJob]
    /\ UNCHANGED <<disk, lock, world>>

\* Mutant of Record: a late outcome counts in any state.
RecordLate(c) ==
    LET role == head.roles[job[c].role]  outcome == job[c].outcome IN
    /\ Decides(c, "record") /\ UNCHANGED late
    /\ \/ outcome = "failed" /\ Block(c)
       \/ outcome # "failed" /\ role.status # "dispatch_started" /\ Return(c)
       \/ outcome = "valid" /\ role.status = "dispatch_started"
          /\ Proceed(c, With(job[c].role, "result_frozen"), "exit")
       \/ outcome = "invalid" /\ role.status = "dispatch_started" /\ Block(c)

\* _record_p0_calibration_agent_result, or the failure branches of dispatch.
Record(c) ==
    LET role == head.roles[job[c].role]  outcome == job[c].outcome IN
    /\ Decides(c, "record") /\ UNCHANGED late
    /\ CASE head.state \in Terminal -> Return(c)
         [] head.state \notin Terminal /\ outcome = "failed" -> Block(c)
         [] OTHER ->
              \/ Reject(c)
              \/ role.status # "dispatch_started" /\ Return(c)
              \/ /\ role.status = "dispatch_started"
                 /\ \/ Block(c)
                    \/ outcome = "valid"
                       /\ Proceed(c, With(job[c].role, "result_frozen"), "exit")
                    \/ outcome = "invalid" /\ role.attempts < 2
                       /\ Proceed(c, With(job[c].role, "not_issued"), "exit")

\* Mutant of Verify: frozen without the verifier.
VerifyIntakes(c) ==
    /\ Decides(c, "verify") /\ UNCHANGED late
    /\ IF head.state \in Terminal THEN Return(c)
       ELSE \/ Recheck(c)
            \/ head.state # "BASELINE_FROZEN" /\ ~IntakesFrozen /\ Return(c)
            \/ IntakesFrozen /\ Proceed(c, In("INTAKE_FROZEN"), "exit")

\* verify_calibration_run; before admission there is no attestation.
Verify(c) ==
    LET complete == \A r \in Roles : head.roles[r].status = "result_frozen" IN
    /\ Decides(c, "verify") /\ UNCHANGED late
    /\ IF head.state \in Terminal THEN Return(c)
       ELSE \/ Recheck(c)
            \/ head.state # "BASELINE_FROZEN" /\ ~complete /\ Return(c)
            \/ complete /\ Proceed(c, In("INTAKE_FROZEN"), "exit")

(***************************************************************************)
(* Kills, clocks and files outside                                         *)
(***************************************************************************)

\* What a write killed in each phase may leave behind.
Left(c) ==
    CASE pc[c] = "pending" /\ gen = 0 /\ pending.status = "none" -> {{"root"}}
      [] pc[c] = "load" /\ gen > 0 -> {{}, {"root"}}
      [] pc[c] \in {"pending", "snapshot", "commit"} -> {{}, {"root"}}
      [] pc[c] = "artifacts" /\ arts < pending.gen -> {{}, {"root"}, {"artifact"}}
      [] pc[c] = "transition" /\ gen < pending.gen -> {{}, {"transitions"}, {"transition"}}
      [] pc[c] = "reject" -> {{}, {"root"}, {"rejection"}}
      [] OTHER -> {{}}

Kill(c) ==
    /\ pc[c] # "idle" /\ kills < MaxKills
    /\ kills' = kills + 1
    /\ \E left \in Left(c) :
          /\ debris' = debris \cup left
          /\ rejected' = (rejected \/ left = {"rejection"})
    /\ base' \in IF pc[c] = "artifacts" /\ ~Conflict(pending.gen, pending.body)
                 THEN {base, pending.body.cohort} ELSE {base}
    /\ lock' = IF lock = c THEN NoOne ELSE lock
    /\ Goto(c, "idle")
    /\ job' = [job EXCEPT ![c] = NoJob]
    /\ UNCHANGED <<gen, head, arts, pending, snap, blamed, late, launches, probes>>

Deadline(r) ==
    /\ head.roles[r].status = "dispatch_started" /\ r \notin late
    /\ late' = late \cup {r}
    /\ UNCHANGED <<disk, lock, pc, job, blamed, launches, probes, kills>>

Advance(c) ==
    \/ Prepare(c) \/ PrepareBusy(c)
    \/ LoadNothing(c) \/ LoadUnreadable(c) \/ PersistRejection(c)
    \/ Replay(c) \/ BlockAmbiguous(c) \/ Load(c)
    \/ WritePending(c) \/ WriteArtifacts(c) \/ WriteConflict(c)
    \/ WriteTransition(c) \/ WriteSnapshot(c) \/ Committed(c)
    \/ Status(c) \/ Admit(c) \/ ProbeStart(c) \/ Probe(c) \/ ProbeEnd(c)
    \/ Packet(c) \/ Dispatch(c) \/ Launch(c)
    \/ \E outcome \in {"valid", "invalid", "failed"} : AgentEnds(c, outcome)
    \/ Reenter(c) \/ LoseOutcome(c) \/ Record(c) \/ Verify(c)

Ask(c) ==
    \/ OpenNew(c)
    \/ \E cmd \in {"status", "admit", "verify"} : Enter(c, cmd, NoRole)
    \/ \E cmd \in {"packet", "dispatch"}, r \in Roles : Enter(c, cmd, r)

Init ==
    /\ gen = 0 /\ head = Preflight /\ arts = 0 /\ base = NoOne /\ snap = 0
    /\ pending = [status |-> "none", gen |-> 0, body |-> Preflight]
    /\ rejected = FALSE /\ debris = {} /\ lock = NoOne
    /\ pc = [c \in Controllers |-> "idle"]
    /\ job = [c \in Controllers |-> NoJob]
    /\ blamed = FALSE /\ late = {} /\ probes = 0 /\ kills = 0
    /\ launches = [r \in Roles |-> [n \in Attempts |-> 0]]

Next ==
    \/ \E c \in Controllers : Advance(c) \/ Ask(c) \/ Kill(c)
    \/ \E r \in Roles : Deadline(r)

(***************************************************************************)
(* Commands and agents end, clocks go on, and somebody asks for the status *)
(* again and again.                                                        *)
(***************************************************************************)
Fairness ==
    /\ \A c \in Controllers : WF_vars(Advance(c))
    /\ \A r \in Roles : WF_vars(Deadline(r))
    /\ SF_vars(\E c \in Controllers : Enter(c, "status", NoRole))

Spec == Init /\ [][Next]_vars /\ Fairness

(***************************************************************************)
(* Properties                                                              *)
(***************************************************************************)

\* A cohort is rejected for good only when a document it is bound to changed,
\* another grant was presented for it, or a killed write damaged its ledger:
\* no crash that recovery can see through ever looks like tampering.
RejectExplained ==
    rejected \/ head.state = "REJECT"
       => blamed \/ debris \cap {"transitions", "transition"} # {}

\* The pending record always fits the ledger.  A transaction left pending can
\* be replayed wherever the command was killed; only a file with two names, or
\* a second preparation of the root that found it empty too early, makes
\* recovery ambiguous.  One marked committed is on disk as a whole: the last of
\* the ledger, its artifacts and run.json agree with it.
PendingFits ==
    /\ pending.status = "pending" /\ Ambiguous
          => "artifact" \in debris \/ Conflict(pending.gen, pending.body)
    /\ pending.status = "committed"
          => pending.gen = gen /\ pending.body = head /\ snap = gen /\ arts >= gen

\* No crash, retry or second command starts an agent twice for one attempt or
\* the probe twice, agents stay within the budget of calls, and the verifier
\* starts from frozen intakes.
AgentsAccounted ==
    /\ probes <= 1
    /\ \A r \in Roles, n \in Attempts : launches[r][n] <= 1
    /\ Cardinality({i \in Roles \X Attempts : launches[i[1]][i[2]] > 0}) <= MaxCalls
    /\ launches[Verifier][1] > 0 => IntakesFrozen

\* A frozen intake was admitted by a probe, and each of its results is that of
\* the one agent started for the attempt.
FrozenIsEarned ==
    head.state = "INTAKE_FROZEN"
       => /\ probes = 1 /\ head.authority
          /\ \A r \in Roles : /\ head.roles[r].status = "result_frozen"
                             /\ launches[r][head.roles[r].attempts] = 1

\* A recorded transaction is not dropped before it is in the ledger, except
\* for one that cannot be replayed and under a second preparation.
TransactionKept ==
    [][pending.status = "pending" /\ pending' # pending
         => \/ pending.gen = gen /\ pending.body = head
            \/ Ambiguous
            \/ pending'.gen = 1]_vars

\* A terminal state and a frozen result are final, whatever late agents report.
OutcomesStand ==
    [][/\ head.state \in Terminal => head' = head /\ rejected' = rejected
       /\ \A r \in Roles : head.roles[r].status = "result_frozen"
                              => head'.roles[r] = head.roles[r]]_vars

\* A started dispatch does not stay open: its outcome is recorded, or the
\* cohort ends, or a killed write left a root that nobody opens any more.
StartedSettles ==
    \A r \in Roles :
       head.roles[r].status = "dispatch_started" /\ head.state \notin Terminal
          ~> \/ head.roles[r].status # "dispatch_started" \/ head.state \in Terminal
             \/ rejected \/ ~Openable
=============================================================================

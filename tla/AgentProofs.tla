----------------------------- MODULE AgentProofs -----------------------------
(***************************************************************************)
(* Proofs about the commands that start agents.  trigger-agent and its     *)
(* circuit breaker, for every set of runs, failure limit and recovery      *)
(* delay.  A calibration cohort, for any controllers, intake roles, budget *)
(* of calls and kills: what its ledger holds is earned, kept and           *)
(* explained, and a transaction that was cut short can be replayed.        *)
(***************************************************************************)
EXTENDS TriggerAgent, CalibrationRun, FiniteSetTheorems, TLAPS

(***************************************************************************)
(* Triggers                                                                *)
(***************************************************************************)

LEMMA TriggerTypeInit == TriggerInit => TriggerTypeOK
BY TriggerAssumption DEF TriggerInit, TriggerTypeOK, Default, BreakerState, Ages, Expired

LEMMA AgedType ==
    ASSUME NEW b \in BreakerState
    PROVE  /\ Aged(b) \in BreakerState
           /\ Aged(b).state = b.state /\ Aged(b).failures = b.failures
           /\ Aged(b).failedAge = Older(b.failedAge)
           /\ Aged(b).probeAge = Older(b.probeAge)
<1>1. b.failedAge \in Ages /\ b.probeAge \in Ages
  BY DEF BreakerState
<1>2. Older(b.failedAge) \in Ages /\ Older(b.probeAge) \in Ages
  BY <1>1, TriggerAssumption DEF Older, Min2, Expired, Ages
<1> QED
  BY <1>2 DEF Aged, BreakerState

\* Ages grow together and stop at TTL.
LEMMA OlderMonotone ==
    ASSUME NEW a \in Ages, NEW b \in Ages, a <= b
    PROVE  Older(a) <= Older(b)
BY TriggerAssumption DEF Older, Min2, Expired, Ages

\* A run does nothing to the program counters and pending saves of the others.
LEMMA TriggerTypeStep == TriggerTypeOK /\ [TriggerNext]_triggerVars => TriggerTypeOK'
<1> SUFFICES ASSUME TriggerTypeOK, [TriggerNext]_triggerVars PROVE TriggerTypeOK'
  OBVIOUS
<1> USE TriggerAssumption DEF TriggerTypeOK, Reach
<1>1. ASSUME NEW p \in Runs, Arrive(p) \/ Blocked(p) \/ Admitted(p) \/ Skip(p)
                             \/ StartAgent(p) \/ KillRun(p)
      PROVE  TriggerTypeOK'
  BY <1>1 DEF Arrive, Blocked, Admitted, Skip, StartAgent, KillRun, Leave
<1>2. ASSUME NEW p \in Runs, Claim(p) PROVE TriggerTypeOK'
  <2>1. [breaker EXCEPT !.state = "half-open", !.probeAge = 0] \in BreakerState
    <3>1. 0 \in Ages
      BY DEF Ages
    <3> QED
      BY <3>1 DEF BreakerState
  <2> QED
    BY <1>2, <2>1 DEF Claim
<1>3. ASSUME NEW p \in Runs, SaveClaim(p) PROVE TriggerTypeOK'
  BY <1>3 DEF SaveClaim, BreakerState
<1>4. ASSUME NEW p \in Runs, Succeed(p) PROVE TriggerTypeOK'
  BY <1>4 DEF Succeed, Leave, AfterSuccess, Default, BreakerState, Ages, Expired
<1>5. ASSUME NEW p \in Runs, Fail(p) PROVE TriggerTypeOK'
  <2>1. Min2(breaker.failures + 1, Limit) \in 0 .. Limit
    BY DEF Min2, BreakerState
  <2>2. saving'[p] \in BreakerState
    BY <1>5, <2>1 DEF Fail, BreakerState, Ages, Expired
  <2>3. \A q \in Runs : q # p => saving'[q] = saving[q]
    BY <1>5 DEF Fail
  <2> QED
    BY <1>5, <2>2, <2>3 DEF Fail
<1>6. ASSUME NEW p \in Runs, SaveFailure(p) PROVE TriggerTypeOK'
  <2>1. Min2(streak + 1, Limit) \in 0 .. Limit
    BY DEF Min2
  <2> QED
    BY <1>6, <2>1 DEF SaveFailure, Leave, Ages
<1>7. CASE ResetBreaker
  BY <1>7 DEF ResetBreaker, Default, BreakerState, Ages, Expired
<1>8. CASE Tick
  <2>1. \A a \in Ages : Older(a) \in Ages
    BY DEF Older, Min2, Expired, Ages
  <2> QED
    BY <1>8, <2>1, AgedType DEF Tick
<1>9. CASE UNCHANGED triggerVars
  BY <1>9 DEF triggerVars
<1> QED
  BY <1>1, <1>2, <1>3, <1>4, <1>5, <1>6, <1>7, <1>8, <1>9 DEF TriggerNext, Progress

\* The breaker file, the pending saves and the history variables stay typed.
THEOREM TriggerTypeCorrect == TriggerSpec => []TriggerTypeOK
BY TriggerTypeInit, TriggerTypeStep, PTL DEF TriggerSpec

----------------------------------------------------------------------------
(* The inductive invariant.                                                 *)

Exclusive == \A p \in Runs : step[p] # "idle" => wikiLock = p

\* The breaker file never counts a failure that was not recorded, and neither
\* does a state about to be saved.
Counted ==
    /\ breaker.failures <= streak
    /\ \A p \in Runs :
          /\ step[p] = "claim" => saving[p].failures <= streak /\ streak = Limit
          /\ step[p] = "fail" => /\ saving[p].failures <= streak + 1
                                 /\ saving[p].state # "closed" => streak + 1 >= Limit

\* A breaker that is not closed was last claimed no later than it was opened.
Dated ==
    /\ breaker.state = "open" => breaker.failedAge <= sinceClaim
    /\ breaker.state = "half-open" => breaker.probeAge <= sinceClaim
    /\ \A p \in Runs :
          /\ step[p] = "claim" => saving[p].state = "half-open"
          /\ step[p] = "fail" => /\ saving[p].state # "half-open"
                                 /\ saving[p].failedAge <= sinceClaim

BreakerInv == TriggerTypeOK /\ Exclusive /\ Counted /\ OpenOnlyAfterFailures /\ Dated

LEMMA BreakerInvInit == TriggerInit => BreakerInv
<1> SUFFICES ASSUME TriggerInit PROVE BreakerInv
  OBVIOUS
<1> QED
  BY TriggerTypeInit, TriggerAssumption
     DEF TriggerInit, BreakerInv, Exclusive, Counted, OpenOnlyAfterFailures, Dated, Default

\* A run's step that only moves the run, inside the lock.
LEMMA BreakerInvMove ==
    ASSUME BreakerInv, TriggerTypeOK', NEW p \in Runs,
           UNCHANGED <<breaker, saving, sinceClaim, streak>>,
           NEW l \in {"idle", "check", "prepare", "agent"},
           step' = [step EXCEPT ![p] = l],
           \/ wikiLock = NoRun /\ wikiLock' = p
           \/ wikiLock = p /\ wikiLock' = wikiLock
           \/ wikiLock = p /\ wikiLock' = NoRun /\ l = "idle"
    PROVE  BreakerInv'
<1>1. Exclusive'
  BY TriggerAssumption DEF BreakerInv, TriggerTypeOK, Exclusive
<1>2. \A q \in Runs : step'[q] \in {"claim", "fail"} => step'[q] = step[q]
  BY DEF BreakerInv, TriggerTypeOK
<1> QED
  BY <1>1, <1>2 DEF BreakerInv, Counted, OpenOnlyAfterFailures, Dated

LEMMA BreakerInvStep == BreakerInv /\ [TriggerNext]_triggerVars => BreakerInv'
<1> SUFFICES ASSUME BreakerInv, [TriggerNext]_triggerVars PROVE BreakerInv'
  OBVIOUS
<1>1. TriggerTypeOK'
  BY TriggerTypeStep DEF BreakerInv
<1>2. ASSUME NEW p \in Runs, Arrive(p) \/ Blocked(p) \/ Admitted(p) \/ Skip(p)
                             \/ StartAgent(p) \/ KillRun(p)
      PROVE  BreakerInv'
  <2>1. step[p] # "idle" => wikiLock = p
    BY DEF BreakerInv, Exclusive
  <2> QED
    BY <1>1, <1>2, <2>1, BreakerInvMove
       DEF Arrive, Blocked, Admitted, Skip, StartAgent, KillRun, Leave, Reach
<1>3. ASSUME NEW p \in Runs, step[p] # "idle"
      PROVE  \A q \in Runs : q # p => step[q] = "idle"
  BY <1>3 DEF BreakerInv, Exclusive
<1>4. ASSUME NEW p \in Runs, Claim(p) PROVE BreakerInv'
  <2>1. /\ step' = [step EXCEPT ![p] = "claim"] /\ step[p] = "check"
        /\ saving'[p] = [breaker EXCEPT !.state = "half-open", !.probeAge = 0]
        /\ \A q \in Runs : q # p => saving'[q] = saving[q]
        /\ breaker.state # "closed"
        /\ UNCHANGED <<breaker, wikiLock, sinceClaim, streak>>
    BY <1>4 DEF Claim, Reach, BreakerInv, TriggerTypeOK
  <2>2. \A q \in Runs : q # p => step'[q] = "idle"
    BY <1>3, <2>1 DEF BreakerInv, TriggerTypeOK
  <2>3. step'[p] = "claim" /\ saving'[p].state = "half-open"
        /\ saving'[p].failures = breaker.failures
    BY <2>1 DEF BreakerInv, TriggerTypeOK, BreakerState
  <2>4. Exclusive'
    BY <2>1, <2>2 DEF BreakerInv, Exclusive
  <2> QED
    BY <1>1, <2>1, <2>2, <2>3, <2>4 DEF BreakerInv, Counted, OpenOnlyAfterFailures, Dated
<1>5. ASSUME NEW p \in Runs, SaveClaim(p) PROVE BreakerInv'
  <2>1. /\ step[p] = "claim" /\ step' = [step EXCEPT ![p] = "prepare"]
        /\ breaker' = saving[p] /\ sinceClaim' = saving[p].probeAge
        /\ UNCHANGED <<wikiLock, saving, streak>>
    BY <1>5 DEF SaveClaim, Reach
  <2>2. step'[p] = "prepare" /\ \A q \in Runs : q # p => step'[q] = "idle"
    BY <1>3, <2>1 DEF BreakerInv, TriggerTypeOK
  <2>3. Exclusive'
    BY <2>1, <2>2 DEF BreakerInv, Exclusive
  <2>4. saving[p].probeAge \in Nat
    BY TriggerAssumption DEF BreakerInv, TriggerTypeOK, BreakerState, Ages
  <2> QED
    BY <1>1, <2>1, <2>2, <2>3, <2>4 DEF BreakerInv, Counted, OpenOnlyAfterFailures, Dated
<1>6. ASSUME NEW p \in Runs, Succeed(p) PROVE BreakerInv'
  <2>1. /\ step[p] = "agent" /\ step' = [step EXCEPT ![p] = "idle"]
        /\ breaker' = Default /\ streak' = 0
    BY <1>6 DEF Succeed, Leave, Reach, AfterSuccess
  <2>2. \A q \in Runs : step'[q] = "idle"
    BY <1>3, <2>1 DEF BreakerInv, TriggerTypeOK
  <2> QED
    BY <1>1, <2>1, <2>2
       DEF BreakerInv, Exclusive, Counted, OpenOnlyAfterFailures, Dated, Default
<1>7. ASSUME NEW p \in Runs, Fail(p) PROVE BreakerInv'
  <2> DEFINE failures == Min2(breaker.failures + 1, Limit)
             opens == breaker.state = "half-open" \/ failures >= Limit
  <2>1. /\ step[p] \in {"prepare", "agent"} /\ step' = [step EXCEPT ![p] = "fail"]
        /\ saving'[p] = [failures |-> failures, failedAge |-> 0, probeAge |-> Expired,
                          state |-> IF opens THEN "open" ELSE breaker.state]
        /\ UNCHANGED <<breaker, wikiLock, sinceClaim, streak>>
    BY <1>7 DEF Fail, Reach, BreakerInv, TriggerTypeOK
  <2>2. step'[p] = "fail" /\ \A q \in Runs : q # p => step'[q] = "idle"
    BY <1>3, <2>1 DEF BreakerInv, TriggerTypeOK
  <2>3. Exclusive'
    BY <2>1, <2>2 DEF BreakerInv, Exclusive
  <2>4. /\ breaker.failures \in Nat /\ Limit \in Nat /\ streak \in 0 .. Limit
        /\ sinceClaim \in Nat /\ breaker.failures <= streak
    BY TriggerAssumption DEF BreakerInv, TriggerTypeOK, BreakerState, Ages, Counted
  <2>5. failures <= streak + 1
    BY <2>4 DEF Min2
  <2>6. breaker.state # "closed" => streak = Limit
    BY DEF BreakerInv, OpenOnlyAfterFailures
  <2>7. failures >= Limit => streak + 1 >= Limit
    BY <2>4, <2>5 DEF Min2
  <2>8. Counted'
    BY <2>1, <2>2, <2>4, <2>5, <2>6, <2>7 DEF Counted
  <2>9. Dated'
    BY <2>1, <2>2, <2>4 DEF BreakerInv, Dated
  <2> QED
    BY <1>1, <2>1, <2>3, <2>8, <2>9 DEF BreakerInv, OpenOnlyAfterFailures
<1>8. ASSUME NEW p \in Runs, SaveFailure(p) PROVE BreakerInv'
  <2>1. /\ step[p] = "fail" /\ step' = [step EXCEPT ![p] = "idle"]
        /\ breaker' = saving[p] /\ streak' = Min2(streak + 1, Limit)
        /\ UNCHANGED <<saving, sinceClaim>>
    BY <1>8 DEF SaveFailure, Leave, Reach
  <2>2. \A q \in Runs : step'[q] = "idle"
    BY <1>3, <2>1 DEF BreakerInv, TriggerTypeOK
  <2>3. Exclusive' /\ Dated'
    BY <2>1, <2>2 DEF BreakerInv, Exclusive, Dated
  <2>4. streak \in 0 .. Limit /\ Limit \in Nat /\ saving[p].failures \in 0 .. Limit
    BY TriggerAssumption DEF BreakerInv, TriggerTypeOK, BreakerState
  <2>5. Counted' /\ OpenOnlyAfterFailures'
    BY <2>1, <2>2, <2>4 DEF BreakerInv, Counted, OpenOnlyAfterFailures, Min2
  <2> QED
    BY <1>1, <2>3, <2>5 DEF BreakerInv
<1>9. CASE ResetBreaker
  <2>1. streak \in Nat
    BY TriggerAssumption DEF BreakerInv, TriggerTypeOK
  <2> QED
    BY <1>1, <1>9, <2>1
       DEF ResetBreaker, Default, BreakerInv, Exclusive, Counted, OpenOnlyAfterFailures, Dated
<1>10. CASE Tick
  <2>1. /\ breaker' = Aged(breaker) /\ sinceClaim' = Older(sinceClaim)
        /\ \A p \in Runs : saving'[p] = Aged(saving[p])
        /\ UNCHANGED <<wikiLock, step, streak>>
    BY <1>10 DEF Tick
  <2>2. /\ breaker.failedAge \in Ages /\ breaker.probeAge \in Ages /\ sinceClaim \in Ages
        /\ \A p \in Runs : saving[p] \in BreakerState /\ saving[p].failedAge \in Ages
    BY DEF BreakerInv, TriggerTypeOK, BreakerState
  <2>3. Exclusive' /\ Counted' /\ OpenOnlyAfterFailures'
    BY <2>1, <2>2, AgedType DEF BreakerInv, TriggerTypeOK, Exclusive, Counted, OpenOnlyAfterFailures
  <2>4. Dated'
    BY <2>1, <2>2, AgedType, OlderMonotone DEF BreakerInv, TriggerTypeOK, Dated
  <2> QED
    BY <1>1, <2>3, <2>4 DEF BreakerInv
<1>11. CASE UNCHANGED triggerVars
  BY <1>11 DEF triggerVars, BreakerInv, TriggerTypeOK, Exclusive, Counted, OpenOnlyAfterFailures, Dated
<1> QED
  BY <1>2, <1>4, <1>5, <1>6, <1>7, <1>8, <1>9, <1>10, <1>11 DEF TriggerNext, Progress

\* Only Limit recorded failures without a success between them keep runs out.
THEOREM OpensOnlyAfterFailures == TriggerSpec => []OpenOnlyAfterFailures
<1>1. BreakerInv => OpenOnlyAfterFailures
  BY DEF BreakerInv
<1> QED
  BY <1>1, BreakerInvInit, BreakerInvStep, PTL DEF TriggerSpec

\* Two recovery probes are at least TTL apart.
THEOREM ProbesAreSpaced == TriggerSpec => ProbesSpaced
<1>1. ASSUME BreakerInv, [TriggerNext]_triggerVars
      PROVE  [\A p \in Runs : step[p] = "check" /\ step'[p] = "claim"
                 => TTL > 0 /\ sinceClaim = TTL]_triggerVars
  <2> SUFFICES ASSUME TriggerNext, NEW p \in Runs, step[p] = "check", step'[p] = "claim"
               PROVE  TTL > 0 /\ sinceClaim = TTL
    BY <1>1
  <2>1. Claim(p)
    <3>1. step' # step
      OBVIOUS
    <3>2. PICK q \in Runs : Arrive(q) \/ Progress(q) \/ KillRun(q)
      BY <3>1 DEF TriggerNext, ResetBreaker, Tick
    <3>3. \E l : step' = [step EXCEPT ![q] = l]
      BY <3>2 DEF Arrive, Progress, Blocked, Admitted, Claim, SaveClaim, Skip, StartAgent,
                  Succeed, Fail, SaveFailure, KillRun, Leave, Reach
    <3>4. q = p
      BY <1>1, <3>3 DEF BreakerInv, TriggerTypeOK
    <3>5. step'[p] # "claim" \/ Claim(p)
      BY <1>1, <3>2, <3>4
         DEF Arrive, Progress, Blocked, Admitted, SaveClaim, Skip, StartAgent,
             Succeed, Fail, SaveFailure, KillRun, Leave, Reach, BreakerInv, TriggerTypeOK
    <3> QED
      BY <3>5
  <2>2. breaker.state # "closed" /\ ~Blocks
    BY <2>1 DEF Claim
  <2>3. /\ breaker.state \in {"open", "half-open"} /\ sinceClaim \in 0 .. TTL /\ TTL \in Nat
        /\ breaker.failedAge \in 0 .. TTL /\ breaker.probeAge \in 0 .. TTL
    BY <1>1, <2>2, TriggerAssumption DEF BreakerInv, TriggerTypeOK, BreakerState, Ages
  <2> QED
    BY <1>1, <2>2, <2>3 DEF BreakerInv, Dated, Blocks
<1> QED
  BY <1>1, BreakerInvInit, BreakerInvStep, PTL DEF TriggerSpec, ProbesSpaced

(***************************************************************************)
(* Cohorts: types                                                          *)
(***************************************************************************)
States == {"PREFLIGHT"} \cup Active \cup Terminal
Statuses == {"not_issued", "packet_issued", "dispatch_started", "result_frozen"}

RoleRecord == [status : Statuses, attempts : 0 .. 2]

Body == [cohort : Controllers \cup {NoOne}, state : States, authority : BOOLEAN,
         probe : BOOLEAN, roles : [Roles -> RoleRecord]]

Commands == {"none", "prepare", "status", "admit", "packet", "dispatch", "record", "verify"}

Job == [cmd : Commands, role : Roles \cup {NoRole},
        outcome : {"none", "valid", "invalid", "failed"},
        body : Body, next : {"exit", "load", "probeStart", "probe", "launch"}]

Pending == [status : {"none", "pending", "committed"}, gen : Nat, body : Body]

\* The phases of a command that holds no lock, that writes a transaction, and
\* that has loaded the run.
Outside == {"idle", "new", "agent", "reenter"}
Writing == {"artifacts", "transition", "snapshot", "commit"}
Deciding == {"decide", "probeStart", "probe", "probed", "launch"}
Labels == Outside \cup {"load", "reject", "pending"} \cup Writing \cup Deciding

TypeOK ==
    /\ gen \in Nat /\ arts \in Nat /\ snap \in Nat
    /\ head \in Body
    /\ base \in Controllers \cup {NoOne}
    /\ pending \in Pending
    /\ rejected \in BOOLEAN
    /\ debris \subseteq {"root", "artifact", "transitions", "transition", "rejection"}
    /\ lock \in Controllers \cup {NoOne}
    /\ pc \in [Controllers -> Labels]
    /\ job \in [Controllers -> Job]
    /\ blamed \in BOOLEAN
    /\ late \subseteq Roles
    /\ launches \in [Roles -> [Attempts -> Nat]]
    /\ probes \in Nat /\ kills \in Nat

(***************************************************************************)
(* The inductive invariant                                                 *)
(***************************************************************************)

\* A killed write left the ledger directory unreadable for good.
Damaged == debris \cap {"transitions", "transition"} # {}

Explained == blamed \/ Damaged

Frozen(b) == \A r \in Intakes : b.roles[r].status = "result_frozen"
IssuedOf(b) == {i \in Roles \X Attempts : i[2] <= b.roles[i[1]].attempts}

\* What is true of every body that is in the ledger or on its way there, when
\* a rejection is explained or not, and by the probes and agents started so far.
SoundFor(b, explained, probed, started) ==
    /\ b.probe => b.authority
    /\ b.state \in {"PREFLIGHT", "BASELINE_FROZEN"} => \A r \in Roles : b.roles[r].attempts = 0
    /\ b.state \in {"ADMISSION_AUTHORIZED", "INTAKE_OPEN", "INTAKE_FROZEN"}
          => b.authority /\ probed = 1
    /\ b.state = "INTAKE_FROZEN" => \A r \in Roles : b.roles[r].status = "result_frozen"
    /\ b.state = "REJECT" => explained
    /\ b.roles[Verifier].attempts > 0 => Frozen(b)
    /\ Cardinality(IssuedOf(b)) <= MaxCalls
    /\ \A r \in Roles : b.roles[r].status # "not_issued" => b.roles[r].attempts > 0
    /\ \A r \in Roles : b.roles[r].status = "result_frozen"
                           => started[r][b.roles[r].attempts] = 1

Sound(b) == SoundFor(b, Explained, probes, launches)

\* One transition takes a role at most one step further.
RoleStep(old, new) ==
    \/ new = old
    \/ old.status = "not_issued" /\ new.status = "packet_issued"
       /\ new.attempts = old.attempts + 1
    \/ old.status = "packet_issued" /\ new.status = "dispatch_started"
       /\ new.attempts = old.attempts
    \/ old.status = "dispatch_started" /\ new.status \in {"not_issued", "result_frozen"}
       /\ new.attempts = old.attempts

Succeeds(h, b) ==
    /\ h.state \notin Terminal
    /\ b.state # "PREFLIGHT" /\ b.cohort # NoOne
    /\ h.probe => b.probe
    /\ \A r \in Roles : RoleStep(h.roles[r], b.roles[r])

\* The agent of this command has not been heard of.
Out(c) ==
    \/ pc[c] \in {"agent", "reenter"}
    \/ /\ job[c].cmd = "record"
       /\ \/ pc[c] \in {"load", "decide"}
          \/ pc[c] \in Writing /\ job[c].next = "load"

OutRoles == {job[c].role : c \in {d \in Controllers : Out(d)}}

\* A body that leaves alone these roles, or ends the cohort.
Spares(h, b, roles) ==
    b.state \in Terminal \/ \A r \in roles : b.roles[r] = h.roles[r]

\* The pending transaction is in the ledger, or is the next to be.
Fitting ==
    \/ pending.gen = gen /\ pending.body = head
    \/ /\ pending.gen = gen + 1
       /\ Succeeds(head, pending.body) /\ Spares(head, pending.body, OutRoles)

LedgerInv ==
    /\ arts >= gen
    /\ gen = 0 => head = Preflight
    /\ gen > 0 => head.state # "PREFLIGHT" /\ head.cohort # NoOne /\ base # NoOne
    /\ rejected => Explained
    /\ probes <= 1 /\ (probes = 1 => head.probe)
    /\ Sound(head) /\ Sound(pending.body)
    /\ Damaged => base # NoOne /\ head.state \notin Terminal

PendingInv ==
    /\ pending.status = "none" => gen = 0 /\ base = NoOne /\ pending.body = Preflight
    /\ pending.status # "none" => pending.gen > 0 /\ pending.body.cohort # NoOne
    /\ pending.status = "committed" => pending.gen = gen /\ pending.body = head /\ snap = gen
    /\ pending.status = "pending" => Conflict(pending.gen, pending.body) \/ Fitting

LaunchInv ==
    \A r \in Roles :
       /\ \A n \in Attempts :
             launches[r][n] <= 1 /\ (launches[r][n] > 0 => n <= head.roles[r].attempts)
       /\ head.roles[r].status = "packet_issued" => launches[r][head.roles[r].attempts] = 0

LockInv == \A c \in Controllers : pc[c] \notin Outside => lock = c

\* A controller that found the root empty is not in it yet.
Preparing(c) == pc[c] = "new" \/ (pc[c] = "pending" /\ job[c].cmd = "prepare")

NewInv ==
    \A c \in Controllers : Preparing(c) =>
       /\ base # c /\ pending.body.cohort # c /\ head.cohort # c
       /\ \A d \in Controllers \ {c} : pc[d] = "pending" => job[d].body.cohort # c

OutInv ==
    \A c \in Controllers : Out(c) =>
       /\ job[c].role \in Roles
       /\ head.state \in Terminal
          \/ LET role == head.roles[job[c].role] IN
             /\ role.status = "dispatch_started"
             /\ launches[job[c].role][role.attempts] = 1
       /\ \A d \in Controllers \ {c} :
             Out(d) /\ job[c].role = job[d].role => head.state \in Terminal

\* What a job still has to do with the body that it commits.
Promises(j, b, probed, started) ==
    /\ j.next \in {"probeStart", "probe"} =>
          b.state = "BASELINE_FROZEN" /\ b.authority /\ probed = 0
    /\ j.next = "probeStart" => ~b.probe
    /\ j.next = "probe" => b.probe
    /\ j.next = "launch" =>
          /\ j.role \in Roles /\ b.state = "INTAKE_OPEN"
          /\ b.roles[j.role].status = "dispatch_started"
          /\ started[j.role][b.roles[j.role].attempts] = 0

First(c) == [Preflight EXCEPT !.cohort = c, !.state = "BASELINE_FROZEN"]

WorkInv(c) ==
    /\ pc[c] = "reenter" => job[c].cmd = "record"
    /\ pc[c] = "reject" => gen > 0 /\ Damaged
    /\ pc[c] \notin Outside /\ job[c].cmd \in {"packet", "dispatch"} => job[c].role \in Roles
    /\ pc[c] = "pending" =>
          /\ Sound(job[c].body)
          /\ IF job[c].cmd = "prepare"
             THEN job[c].body = First(c) /\ job[c].next = "exit"
             ELSE /\ gen > 0 /\ ~Damaged /\ job[c].next # "load"
                  /\ Succeeds(head, job[c].body)
                  /\ Spares(head, job[c].body, OutRoles)
                  /\ Promises(job[c], job[c].body, probes, launches)
                  /\ pending.status # "pending" \/ Ambiguous
    /\ pc[c] \in Writing =>
          /\ pending.status = "pending"
          /\ job[c].cmd = "prepare" => job[c].next = "exit"
          /\ Promises(job[c], pending.body, probes, launches)
          /\ Damaged => Conflict(pending.gen, pending.body)
    /\ pc[c] \in Writing \ {"artifacts"} =>
          ~Damaged /\ Fitting /\ base # NoOne /\ arts >= pending.gen
    /\ pc[c] \in {"snapshot", "commit"} => pending.gen = gen /\ pending.body = head
    /\ pc[c] = "commit" => snap = gen
    /\ pc[c] \in {"load"} \cup Deciding => job[c].cmd # "prepare"
    /\ pc[c] \in Deciding => gen > 0 /\ ~Damaged /\ pending.status # "pending"
    /\ pc[c] \in {"probeStart", "probe", "probed"} =>
          head.state = "BASELINE_FROZEN" /\ head.authority
    /\ pc[c] = "probeStart" => ~head.probe
    /\ pc[c] = "probe" => head.probe /\ probes = 0
    /\ pc[c] = "probed" => head.probe /\ probes = 1
    /\ pc[c] = "launch" =>
          /\ job[c].role \in Roles /\ head.state = "INTAKE_OPEN"
          /\ head.roles[job[c].role].status = "dispatch_started"
          /\ launches[job[c].role][head.roles[job[c].role].attempts] = 0

WorkersInv == \A c \in Controllers : WorkInv(c)

Inv == /\ TypeOK /\ LedgerInv /\ PendingInv /\ LaunchInv /\ LockInv
       /\ NewInv /\ OutInv /\ WorkersInv

(***************************************************************************)
(* The operators                                                           *)
(***************************************************************************)
LEMMA MaxOfTwo ==
    ASSUME NEW a \in Nat, NEW b \in Nat
    PROVE  Max({a, b}) \in {a, b} /\ Max({a, b}) >= a /\ Max({a, b}) >= b
<1>1. \E x \in {a, b} : \A y \in {a, b} : x >= y
  OBVIOUS
<1> QED
  BY <1>1 DEF Max

LEMMA Preflighted ==
    /\ Preflight \in Body /\ NoJob \in Job
    /\ Preflight.cohort = NoOne /\ Preflight.state = "PREFLIGHT"
    /\ ~Preflight.authority /\ ~Preflight.probe
    /\ \A r \in Roles : Preflight.roles[r] = [status |-> "not_issued", attempts |-> 0]
<1>1. [status |-> "not_issued", attempts |-> 0] \in RoleRecord
  BY DEF RoleRecord, Statuses
<1>2. Preflight \in Body
  BY <1>1 DEF Preflight, Body, States
<1>3. NoJob \in Job
  BY <1>2 DEF NoJob, Job, Commands
<1> QED
  BY <1>2, <1>3 DEF Preflight

LEMMA Firsts ==
    ASSUME NEW c \in Controllers
    PROVE  /\ First(c) \in Body /\ First(c).cohort = c /\ First(c).state = "BASELINE_FROZEN"
           /\ ~First(c).authority /\ ~First(c).probe /\ First(c).roles = Preflight.roles
BY Preflighted DEF First, Body, Preflight, States, Active

LEMMA InBody ==
    ASSUME TypeOK, NEW s \in States
    PROVE  /\ In(s) \in Body /\ In(s).state = s /\ In(s).cohort = head.cohort
           /\ In(s).authority = head.authority /\ In(s).probe = head.probe
           /\ In(s).roles = head.roles
BY DEF In, TypeOK, Body

LEMMA WithBody ==
    ASSUME TypeOK, NEW r \in Roles, NEW s \in Statuses
    PROVE  /\ With(r, s) \in Body /\ With(r, s).state = head.state
           /\ With(r, s).cohort = head.cohort
           /\ With(r, s).authority = head.authority /\ With(r, s).probe = head.probe
           /\ With(r, s).roles[r].status = s
           /\ With(r, s).roles[r].attempts = head.roles[r].attempts
           /\ \A q \in Roles \ {r} : With(r, s).roles[q] = head.roles[q]
<1>1. head.roles \in [Roles -> RoleRecord] /\ head.roles[r] \in RoleRecord
  BY DEF TypeOK, Body
<1>2. [head.roles[r] EXCEPT !.status = s] \in RoleRecord
  BY <1>1 DEF RoleRecord
<1>3. With(r, s) = [head EXCEPT !.roles = [head.roles EXCEPT ![r] = [head.roles[r] EXCEPT !.status = s]]]
  BY DEF With
<1>4. head \in Body
  BY DEF TypeOK
<1>5. With(r, s).roles = [head.roles EXCEPT ![r] = [head.roles[r] EXCEPT !.status = s]]
  BY <1>3, <1>4 DEF Body
<1>6. With(r, s).roles \in [Roles -> RoleRecord]
  BY <1>1, <1>2, <1>5
<1>7. /\ With(r, s).state = head.state /\ With(r, s).cohort = head.cohort
      /\ With(r, s).authority = head.authority /\ With(r, s).probe = head.probe
  BY <1>3, <1>4 DEF Body
<1>8. With(r, s) \in Body
  BY <1>3, <1>4, <1>5, <1>6 DEF Body
<1>9. With(r, s).roles[r].status = s /\ With(r, s).roles[r].attempts = head.roles[r].attempts
  BY <1>1, <1>5 DEF RoleRecord
<1>10. \A q \in Roles \ {r} : With(r, s).roles[q] = head.roles[q]
  BY <1>1, <1>5
<1> QED
  BY <1>7, <1>8, <1>9, <1>10

LEMMA RolesFinite == IsFiniteSet(Roles \X Attempts)
<1>1. IsFiniteSet(Roles)
  BY CohortAssumption, FS_AddElement DEF Roles
<1>2. IsFiniteSet(({} \cup {1}) \cup {2})
  BY FS_EmptySet, FS_AddElement
<1>3. Attempts = ({} \cup {1}) \cup {2}
  BY DEF Attempts
<1> QED
  BY <1>1, <1>2, <1>3, FS_Product

LEMMA IssuedFinite ==
    ASSUME NEW b
    PROVE  IsFiniteSet(IssuedOf(b)) /\ Cardinality(IssuedOf(b)) \in Nat
<1>1. IssuedOf(b) \subseteq Roles \X Attempts
  BY DEF IssuedOf
<1>2. IsFiniteSet(IssuedOf(b))
  BY <1>1, RolesFinite, FS_Subset
<1> QED
  BY <1>2, FS_CardinalityType

LEMMA IssuedSame ==
    ASSUME NEW a, NEW b, \A r \in Roles : a.roles[r].attempts = b.roles[r].attempts
    PROVE  IssuedOf(a) = IssuedOf(b)
BY DEF IssuedOf

LEMMA IssuedMore ==
    ASSUME NEW a \in Body, NEW b \in Body, NEW r \in Roles,
           b.roles[r].attempts = a.roles[r].attempts + 1,
           \A q \in Roles \ {r} : a.roles[q] = b.roles[q]
    PROVE  Cardinality(IssuedOf(b)) <= Cardinality(IssuedOf(a)) + 1
<1> DEFINE x == <<r, b.roles[r].attempts>>
<1>1. \A q \in Roles : a.roles[q].attempts \in 0 .. 2 /\ b.roles[q].attempts \in 0 .. 2
  BY DEF Body, RoleRecord
<1>2. IssuedOf(b) = IssuedOf(a) \cup {x}
  BY <1>1 DEF IssuedOf, Attempts
<1>3. IsFiniteSet(IssuedOf(a)) /\ Cardinality(IssuedOf(a)) \in Nat
  BY IssuedFinite
<1>4. Cardinality(IssuedOf(a) \cup {x})
        = IF x \in IssuedOf(a) THEN Cardinality(IssuedOf(a)) ELSE Cardinality(IssuedOf(a)) + 1
  BY <1>3, FS_AddElement
<1> QED
  BY <1>2, <1>3, <1>4

LEMMA ZeroIssued ==
    ASSUME NEW b, \A r \in Roles : b.roles[r].attempts = 0
    PROVE  Cardinality(IssuedOf(b)) = 0
<1>1. IssuedOf(b) = {}
  BY DEF IssuedOf, Attempts
<1> QED
  BY <1>1, FS_EmptySet

(***************************************************************************)
(* The initial states                                                      *)
(***************************************************************************)
LEMMA PreflightSound ==
    ASSUME NEW explained, NEW probed, NEW started
    PROVE  SoundFor(Preflight, explained, probed, started)
<1>1. Cardinality(IssuedOf(Preflight)) = 0
  BY Preflighted, ZeroIssued
<1> QED
  BY <1>1, Preflighted, CohortAssumption DEF SoundFor, Roles

LEMMA FirstSound ==
    ASSUME NEW c \in Controllers, NEW explained, NEW probed, NEW started
    PROVE  SoundFor(First(c), explained, probed, started)
<1>1. \A r \in Roles : First(c).roles[r] = [status |-> "not_issued", attempts |-> 0]
  BY Firsts, Preflighted
<1>2. Cardinality(IssuedOf(First(c))) = 0
  BY <1>1, ZeroIssued
<1> QED
  BY <1>1, <1>2, Firsts, CohortAssumption DEF SoundFor, Roles

LEMMA TypeInit == Init => TypeOK
<1> SUFFICES ASSUME Init PROVE TypeOK
  OBVIOUS
<1>1. pending \in Pending
  BY Preflighted DEF Init, Pending
<1>2. launches \in [Roles -> [Attempts -> Nat]]
  BY DEF Init
<1>3. job \in [Controllers -> Job] /\ pc \in [Controllers -> Labels]
  BY Preflighted DEF Init, Labels, Outside
<1> QED
  BY <1>1, <1>2, <1>3, Preflighted DEF Init, TypeOK

LEMMA InvInit == Init => Inv
<1> SUFFICES ASSUME Init PROVE Inv
  OBVIOUS
<1>1. TypeOK
  BY TypeInit
<1>2. LedgerInv
  BY Preflighted, PreflightSound DEF Init, LedgerInv, Damaged, Sound, Explained
<1>3. PendingInv
  BY DEF Init, PendingInv
<1>4. LaunchInv
  BY Preflighted DEF Init, LaunchInv
<1>5. LockInv /\ NewInv
  BY DEF Init, LockInv, NewInv, Preparing, Outside
<1>6. OutInv
  BY DEF Init, OutInv, Out, Writing
<1>7. WorkersInv
  BY DEF Init, WorkersInv, WorkInv, Outside, Writing, Deciding
<1> QED
  BY <1>1, <1>2, <1>3, <1>4, <1>5, <1>6, <1>7 DEF Inv

(***************************************************************************)
(* Frames: what a step leaves alone                                        *)
(***************************************************************************)
\* The actors of a step: one command, and nobody else.
Only(c) ==
    \A d \in Controllers \ {c} : pc'[d] = pc[d] /\ job'[d] = job[d]

LEMMA SoundKept ==
    ASSUME NEW b, NEW started, NEW probed, NEW e, NEW f,
           SoundFor(b, e, probed, started), e => f
    PROVE  SoundFor(b, f, probed, started)
BY DEF SoundFor

\* While one command holds the lock, no other is inside.
LEMMA Alone ==
    ASSUME Inv, NEW c \in Controllers, pc[c] \notin Outside
    PROVE  lock = c /\ \A d \in Controllers \ {c} : pc[d] \in Outside
BY CohortAssumption DEF Inv, LockInv

\* A command on a packet is about a role.
LEMMA RoleKnown ==
    ASSUME Inv, NEW c \in Controllers, pc[c] \notin Outside
    PROVE  job[c].cmd \in {"packet", "dispatch"} => job[c].role \in Roles
BY DEF Inv, WorkersInv, WorkInv

LEMMA OutsideWork ==
    ASSUME NEW c \in Controllers, pc'[c] \in Outside,
           pc'[c] = "reenter" => job'[c].cmd = "record"
    PROVE  WorkInv(c)'
BY DEF WorkInv, Outside, Writing, Deciding

\* Only the holder of the lock has work to answer for.
LEMMA HolderFrame ==
    ASSUME Inv, NEW c \in Controllers, pc[c] \notin Outside, Only(c),
           pc'[c] \notin Outside => lock' = c, WorkInv(c)'
    PROVE  LockInv' /\ WorkersInv'
<1>1. \A d \in Controllers \ {c} : pc'[d] \in Outside
  BY Alone DEF Only
<1>2. \A d \in Controllers \ {c} : pc'[d] = "reenter" => job'[d].cmd = "record"
  BY DEF Inv, WorkersInv, WorkInv, Only
<1>3. \A d \in Controllers : WorkInv(d)'
  BY <1>1, <1>2, OutsideWork
<1> QED
  BY <1>1, <1>3 DEF LockInv, WorkersInv

\* The ledger, but for run.json and the rejection, is as it was.
SameLedger == UNCHANGED <<gen, head, arts, base, pending, debris, launches, probes>>

\* The agents that are out were out before.
FewerOut ==
    \A d \in Controllers : Out(d)' => Out(d) /\ job'[d].role = job[d].role

LEMMA OutFrame ==
    ASSUME Inv, FewerOut, head' = head, launches' = launches
    PROVE  OutInv' /\ OutRoles' \subseteq OutRoles
<1>1. OutRoles' \subseteq OutRoles
  BY DEF OutRoles, FewerOut
<1>2. OutInv'
  BY DEF Inv, OutInv, FewerOut
<1> QED
  BY <1>1, <1>2

LEMMA SparesFrame ==
    ASSUME NEW h, NEW b, NEW R, NEW S, Spares(h, b, R), S \subseteq R
    PROVE  Spares(h, b, S)
BY DEF Spares

LEMMA LedgerFrame ==
    ASSUME Inv, SameLedger, OutRoles' \subseteq OutRoles, blamed => blamed',
           rejected' => rejected \/ Explained',
           snap' = snap \/ (pending.status = "committed" => snap' = gen)
    PROVE  LedgerInv' /\ PendingInv' /\ LaunchInv'
<1> USE DEF Inv, SameLedger
<1>1. Explained => Explained'
  BY DEF Explained, Damaged
<1>2. Sound(head)' /\ Sound(pending.body)'
  BY <1>1, SoundKept DEF LedgerInv, Sound
<1>3. Damaged' <=> Damaged
  BY DEF Damaged
<1>4. LedgerInv'
  BY <1>1, <1>2, <1>3 DEF LedgerInv
<1>5. Fitting => Fitting'
  BY SparesFrame DEF Fitting
<1>6. Conflict(pending.gen, pending.body) => Conflict(pending.gen, pending.body)'
  BY DEF Conflict
<1>7. PendingInv'
  BY <1>5, <1>6 DEF PendingInv
<1>8. LaunchInv'
  BY DEF LaunchInv
<1> QED
  BY <1>4, <1>7, <1>8

\* Nobody is preparing who was not, and who is finds no body of his on the way.
LEMMA NewFrame ==
    ASSUME Inv, NEW c \in Controllers, Only(c), ~Preparing(c)',
           base' \in {base, pending.body.cohort},
           \/ pending'.body.cohort = pending.body.cohort
           \/ pc[c] = "pending" /\ pending'.body.cohort = job[c].body.cohort,
           head'.cohort \in {head.cohort, pending.body.cohort},
           pc'[c] = "pending" => job'[c].body.cohort = head.cohort
    PROVE  NewInv'
<1> SUFFICES ASSUME NEW d \in Controllers, Preparing(d)'
             PROVE  /\ base' # d /\ pending'.body.cohort # d /\ head'.cohort # d
                    /\ \A e \in Controllers \ {d} : pc'[e] = "pending" => job'[e].body.cohort # d
  BY DEF NewInv
<1>1. d # c /\ Preparing(d)
  BY DEF Preparing, Only
<1>2. /\ base # d /\ pending.body.cohort # d /\ head.cohort # d
      /\ \A e \in Controllers \ {d} : pc[e] = "pending" => job[e].body.cohort # d
  BY <1>1 DEF Inv, NewInv
<1> QED
  BY <1>1, <1>2 DEF Only

LEMMA WorkFrame ==
    ASSUME NEW d \in Controllers, WorkInv(d), pc'[d] = pc[d], job'[d] = job[d],
           UNCHANGED <<disk, blamed, launches, probes>>, OutRoles' \subseteq OutRoles
    PROVE  WorkInv(d)'
<1> USE DEF disk
<1>1. Fitting => Fitting'
  BY SparesFrame DEF Fitting
<1>2. Sound(job[d].body) => Sound(job[d].body)'
  BY DEF Sound, Explained, Damaged
<1>3. Spares(head, job[d].body, OutRoles) => Spares(head, job[d].body, OutRoles)'
  BY SparesFrame
<1>4. (Ambiguous' <=> Ambiguous) /\ (Damaged' <=> Damaged)
      /\ Conflict(pending.gen, pending.body)' = Conflict(pending.gen, pending.body)
  BY DEF Ambiguous, Damaged, Conflict
<1> QED
  BY <1>1, <1>2, <1>3, <1>4 DEF WorkInv

\* A command that holds no lock, before and after.
LEMMA QuietStep ==
    ASSUME Inv, TypeOK', NEW c \in Controllers, Only(c), FewerOut,
           UNCHANGED <<disk, lock, blamed, launches, probes>>,
           pc[c] \in Outside, pc'[c] \in Outside,
           pc'[c] = "new" => pc[c] = "new" \/ RootEmpty,
           pc'[c] = "reenter" => job'[c].cmd = "record"
    PROVE  Inv'
<1> USE DEF Inv, disk
<1>1. OutInv' /\ OutRoles' \subseteq OutRoles
  BY OutFrame
<1>2. LedgerInv' /\ PendingInv' /\ LaunchInv'
  BY <1>1, LedgerFrame DEF SameLedger, Explained
<1>3. LockInv'
  BY DEF LockInv, Only
<1>4. NewInv'
  <2> SUFFICES ASSUME NEW d \in Controllers, Preparing(d)'
               PROVE  /\ base # d /\ pending.body.cohort # d /\ head.cohort # d
                      /\ \A e \in Controllers \ {d} : pc'[e] = "pending" => job'[e].body.cohort # d
    BY DEF NewInv
  <2>1. \A e \in Controllers : pc'[e] = "pending" => pc[e] = "pending" /\ job'[e] = job[e]
    BY DEF Only, Outside
  <2>2. CASE Preparing(d)
    BY <2>1, <2>2 DEF NewInv
  <2>3. CASE ~Preparing(d)
    <3>1. d = c /\ pc'[c] = "new" /\ RootEmpty
      BY <2>3 DEF Preparing, Only, Outside
    <3>2. gen = 0 /\ pending.status = "none" /\ lock = NoOne
      BY <3>1 DEF RootEmpty
    <3>3. base = NoOne /\ pending.body.cohort = NoOne /\ head.cohort = NoOne
      BY <3>2, Preflighted DEF LedgerInv, PendingInv
    <3>4. \A e \in Controllers : pc[e] # "pending"
      BY <3>2, CohortAssumption DEF LockInv, Outside
    <3> QED
      BY <3>3, <3>4, <2>1, CohortAssumption
  <2> QED
    BY <2>2, <2>3
<1>5. WorkersInv'
  <2>1. \A d \in Controllers \ {c} : WorkInv(d)'
    BY <1>1, WorkFrame DEF WorkersInv, Only
  <2> QED
    BY <2>1, OutsideWork DEF WorkersInv
<1> QED
  BY <1>1, <1>2, <1>3, <1>4, <1>5

\* A command that returns or raises.
LEMMA LeaveStep ==
    ASSUME Inv, TypeOK', NEW c \in Controllers, pc[c] \notin Outside, Only(c), SameLedger,
           pc'[c] = "idle", blamed => blamed', rejected' => rejected \/ Explained',
           snap' = snap \/ (pending.status = "committed" => snap' = gen)
    PROVE  Inv'
<1> USE DEF Inv, SameLedger
<1>1. FewerOut
  BY DEF FewerOut, Only, Out, Writing
<1>2. OutInv' /\ OutRoles' \subseteq OutRoles
  BY <1>1, OutFrame
<1>3. LedgerInv' /\ PendingInv' /\ LaunchInv'
  BY <1>2, LedgerFrame
<1>4. WorkInv(c)'
  BY OutsideWork DEF Outside
<1>5. LockInv' /\ WorkersInv'
  BY <1>4, HolderFrame DEF Outside
<1>6. NewInv'
  <2>1. ~Preparing(c)' /\ pc'[c] # "pending"
    BY DEF Preparing
  <2> QED
    BY <2>1, NewFrame
<1> QED
  BY <1>2, <1>3, <1>5, <1>6

\* The roles of the agents that are out, of commands other than this one.
OthersOut(c) == {job[d].role : d \in {e \in Controllers \ {c} : Out(e)}}

\* A command that goes on to commit a body.
LEMMA CommitStep ==
    ASSUME Inv, TypeOK', NEW c \in Controllers, Only(c), SameLedger,
           pc[c] \in {"load", "decide", "probeStart", "probed"},
           NEW b \in Body, NEW next, next # "load", Commit(c, b, next),
           blamed => blamed', rejected' = rejected,
           snap' = snap \/ (pending.status = "committed" => snap' = gen),
           gen > 0, ~Damaged, pending.status # "pending" \/ Ambiguous,
           SoundFor(b, Explained', probes, launches), b.cohort = head.cohort,
           Succeeds(head, b), Spares(head, b, OthersOut(c)),
           Promises([job[c] EXCEPT !.body = b, !.next = next], b, probes, launches)
    PROVE  Inv'
<1> USE DEF Inv, SameLedger
<1>1. /\ pc'[c] = "pending" /\ job'[c] = [job[c] EXCEPT !.body = b, !.next = next]
      /\ job'[c].body = b /\ job'[c].cmd = job[c].cmd /\ job'[c].next = next
      /\ job'[c].role = job[c].role /\ lock' = lock /\ job[c].cmd # "prepare"
      /\ job[c].cmd \in {"packet", "dispatch"} => job[c].role \in Roles
  BY DEF Commit, Goto, TypeOK, Job, WorkersInv, WorkInv, Deciding, Outside
<1>2. FewerOut
  BY <1>1 DEF FewerOut, Only, Out, Writing
<1>3. OutInv' /\ OutRoles' \subseteq OutRoles
  BY <1>2, OutFrame
<1>4. LedgerInv' /\ PendingInv' /\ LaunchInv'
  BY <1>3, LedgerFrame
<1>5. OutRoles' \subseteq OthersOut(c)
  BY <1>1 DEF OutRoles, OthersOut, Only, Out, Writing
<1>6. WorkInv(c)'
  <2>1. Spares(head, b, OutRoles')
    BY <1>5, SparesFrame
  <2>2. (Ambiguous' <=> Ambiguous) /\ (Damaged' <=> Damaged)
    BY DEF Ambiguous, Damaged, Conflict
  <2> QED
    BY <1>1, <2>1, <2>2 DEF WorkInv, Sound, Writing, Deciding
<1>7. pc[c] \notin Outside /\ lock = c
  BY Alone DEF Outside
<1>8. LockInv' /\ WorkersInv'
  BY <1>1, <1>6, <1>7, HolderFrame
<1>9. NewInv'
  <2>1. ~Preparing(c)' /\ job'[c].body.cohort = head.cohort
    BY <1>1 DEF Preparing
  <2> QED
    BY <2>1, NewFrame
<1> QED
  BY <1>3, <1>4, <1>8, <1>9

(***************************************************************************)
(* What a command does next                                                *)
(***************************************************************************)
Nexts == {"exit", "load", "probeStart", "probe", "launch"}

ControlOK ==
    /\ lock \in Controllers \cup {NoOne}
    /\ pc \in [Controllers -> Labels] /\ job \in [Controllers -> Job]

LEMMA GoneTo ==
    ASSUME TypeOK, NEW c \in Controllers, NEW label \in Labels, Goto(c, label)
    PROVE  /\ pc' \in [Controllers -> Labels] /\ pc'[c] = label
           /\ \A d \in Controllers \ {c} : pc'[d] = pc[d]
BY DEF Goto, TypeOK

LEMMA Exited ==
    ASSUME TypeOK, NEW c \in Controllers, Exit(c)
    PROVE  ControlOK' /\ Only(c) /\ pc'[c] = "idle" /\ lock' = NoOne /\ job'[c] = NoJob
<1>1. "idle" \in Labels
  BY DEF Labels, Outside
<1>2. /\ pc' \in [Controllers -> Labels] /\ pc'[c] = "idle"
      /\ \A d \in Controllers \ {c} : pc'[d] = pc[d]
  BY <1>1, GoneTo DEF Exit
<1> QED
  BY <1>2, Preflighted DEF Exit, TypeOK, ControlOK, Only

LEMMA Committing ==
    ASSUME TypeOK, NEW c \in Controllers, NEW b \in Body, NEW next \in Nexts, Commit(c, b, next)
    PROVE  ControlOK' /\ Only(c) /\ pc'[c] = "pending"
<1>1. "pending" \in Labels
  BY DEF Labels
<1>2. /\ pc' \in [Controllers -> Labels] /\ pc'[c] = "pending"
      /\ \A d \in Controllers \ {c} : pc'[d] = pc[d]
  BY <1>1, GoneTo DEF Commit
<1>3. [job[c] EXCEPT !.body = b, !.next = next] \in Job
  BY DEF TypeOK, Job, Nexts
<1>4. job' = [job EXCEPT ![c] = [job[c] EXCEPT !.body = b, !.next = next]]
  BY DEF Commit
<1> QED
  BY <1>2, <1>3, <1>4 DEF Commit, TypeOK, ControlOK, Only

\* A command that leaves its job as it is.
LEMMA Continued ==
    ASSUME TypeOK, NEW c \in Controllers, NEW label \in Labels, Goto(c, label), UNCHANGED <<lock, job>>
    PROVE  ControlOK' /\ Only(c) /\ pc'[c] = label /\ job'[c] = job[c]
BY GoneTo DEF TypeOK, ControlOK, Only

LEMMA TypeKept ==
    ASSUME TypeOK, ControlOK', UNCHANGED <<disk, blamed, launches, probes, kills>>, late' \subseteq Roles
    PROVE  TypeOK'
BY DEF TypeOK, ControlOK, disk

(***************************************************************************)
(* Commands that hold no lock                                              *)
(***************************************************************************)
LEMMA OpenNewStep ==
    ASSUME Inv, NEW c \in Controllers, OpenNew(c)
    PROVE  Inv'
<1> USE DEF Inv
<1>1. "new" \in Labels /\ {"idle", "new"} \subseteq Outside
  BY DEF Labels, Outside
<1>2. ControlOK' /\ Only(c) /\ pc'[c] = "new" /\ job'[c] = job[c]
  BY <1>1, Continued DEF OpenNew
<1>3. TypeOK'
  BY <1>2, TypeKept DEF OpenNew, world, TypeOK
<1>4. FewerOut
  BY <1>2 DEF FewerOut, Out, Only, Writing
<1> QED
  BY <1>1, <1>2, <1>3, <1>4, QuietStep DEF OpenNew, world

LEMMA PrepareBusyStep ==
    ASSUME Inv, NEW c \in Controllers, PrepareBusy(c)
    PROVE  Inv'
<1> USE DEF Inv
<1>1. "idle" \in Labels /\ {"idle", "new"} \subseteq Outside
  BY DEF Labels, Outside
<1>2. ControlOK' /\ Only(c) /\ pc'[c] = "idle" /\ job'[c] = job[c]
  BY <1>1, Continued DEF PrepareBusy
<1>3. TypeOK'
  BY <1>2, TypeKept DEF PrepareBusy, world, TypeOK
<1>4. FewerOut
  BY <1>2 DEF FewerOut, Out, Only, Writing
<1> QED
  BY <1>1, <1>2, <1>3, <1>4, QuietStep DEF PrepareBusy, world

LEMMA AgentEndsStep ==
    ASSUME Inv, NEW c \in Controllers, NEW outcome \in {"valid", "invalid", "failed"},
           AgentEnds(c, outcome)
    PROVE  Inv'
<1> USE DEF Inv
<1>1. "reenter" \in Labels /\ {"agent", "reenter"} \subseteq Outside
  BY DEF Labels, Outside
<1>2. /\ pc' \in [Controllers -> Labels] /\ pc'[c] = "reenter"
      /\ \A d \in Controllers \ {c} : pc'[d] = pc[d]
  BY <1>1, GoneTo DEF AgentEnds
<1>3. job' = [job EXCEPT ![c] = [job[c] EXCEPT !.outcome = outcome, !.cmd = "record"]]
  BY DEF AgentEnds
<1>4. [job[c] EXCEPT !.outcome = outcome, !.cmd = "record"] \in Job
  BY DEF TypeOK, Job, Commands
<1>5. /\ ControlOK' /\ Only(c)
      /\ job'[c].role = job[c].role /\ job'[c].cmd = "record"
  <2>1. job'[c] = [job[c] EXCEPT !.outcome = outcome, !.cmd = "record"]
    BY <1>3 DEF TypeOK
  <2>2. job'[c].role = job[c].role /\ job'[c].cmd = "record"
    BY <2>1 DEF TypeOK, Job
  <2> QED
    BY <1>2, <1>3, <1>4, <2>2 DEF ControlOK, Only, TypeOK, AgentEnds
<1>6. TypeOK'
  BY <1>5, TypeKept DEF AgentEnds, world, TypeOK
<1>7. FewerOut
  BY <1>2, <1>5 DEF FewerOut, Out, Only, AgentEnds
<1> QED
  BY <1>1, <1>2, <1>5, <1>6, <1>7, QuietStep DEF AgentEnds, world

LEMMA LoseOutcomeStep ==
    ASSUME Inv, NEW c \in Controllers, LoseOutcome(c)
    PROVE  Inv'
<1> USE DEF Inv
<1>1. "idle" \in Labels /\ {"idle", "reenter"} \subseteq Outside
  BY DEF Labels, Outside
<1>2. /\ pc' \in [Controllers -> Labels] /\ pc'[c] = "idle"
      /\ \A d \in Controllers \ {c} : pc'[d] = pc[d]
  BY <1>1, GoneTo DEF LoseOutcome
<1>3. ControlOK' /\ Only(c)
  BY <1>2, Preflighted DEF ControlOK, Only, TypeOK, LoseOutcome
<1>4. TypeOK'
  BY <1>3, TypeKept DEF LoseOutcome, world, TypeOK
<1>5. FewerOut
  BY <1>2, <1>3 DEF FewerOut, Out, Only, Writing
<1> QED
  BY <1>1, <1>2, <1>3, <1>4, <1>5, QuietStep DEF LoseOutcome, world

LEMMA DeadlineStep ==
    ASSUME Inv, UNCHANGED <<disk, lock, pc, job, blamed, launches, probes, kills>>,
           late' \subseteq Roles
    PROVE  Inv'
<1> USE DEF Inv, disk
<1>1. TypeOK'
  BY DEF TypeOK
<1>2. \A d \in Controllers : Out(d)' <=> Out(d)
  BY DEF Out, Writing
<1>3. OutRoles' = OutRoles
  BY <1>2 DEF OutRoles
<1>4. LedgerInv' /\ PendingInv' /\ LaunchInv'
  BY <1>3, LedgerFrame DEF SameLedger, Explained
<1>5. LockInv' /\ NewInv'
  BY DEF LockInv, NewInv, Preparing
<1>6. OutInv'
  BY <1>2 DEF OutInv
<1>7. WorkersInv'
  BY <1>3, WorkFrame DEF WorkersInv
<1> QED
  BY <1>1, <1>4, <1>5, <1>6, <1>7

(***************************************************************************)
(* Commands that take the lock                                             *)
(***************************************************************************)
LEMMA TakeStep ==
    ASSUME Inv, TypeOK', NEW c \in Controllers, Only(c), FewerOut,
           UNCHANGED <<disk, blamed, launches, probes>>,
           pc[c] \in Outside, lock = NoOne, lock' = c, WorkInv(c)', NewInv'
    PROVE  Inv'
<1> USE DEF Inv, disk
<1>1. OutInv' /\ OutRoles' \subseteq OutRoles
  BY OutFrame
<1>2. LedgerInv' /\ PendingInv' /\ LaunchInv'
  BY <1>1, LedgerFrame DEF SameLedger, Explained
<1>3. LockInv'
  BY CohortAssumption DEF LockInv, Only
<1>4. WorkersInv'
  BY <1>1, WorkFrame DEF WorkersInv, Only
<1> QED
  BY <1>1, <1>2, <1>3, <1>4

LEMMA PrepareStep ==
    ASSUME Inv, NEW c \in Controllers, Prepare(c)
    PROVE  Inv'
<1> USE DEF Inv
<1> DEFINE first == [NoJob EXCEPT !.cmd = "prepare", !.body = First(c)]
<1>1. "pending" \in Labels /\ "new" \in Outside
  BY DEF Labels, Outside
<1>2. /\ pc' \in [Controllers -> Labels] /\ pc'[c] = "pending"
      /\ \A d \in Controllers \ {c} : pc'[d] = pc[d]
  BY <1>1, GoneTo DEF Prepare
<1>3. job' = [job EXCEPT ![c] = first] /\ pc[c] = "new" /\ lock = NoOne /\ lock' = c
  BY DEF Prepare, First
<1>4. first \in Job
  BY Firsts, Preflighted DEF Job, Commands
<1>5. first.cmd = "prepare" /\ first.body = First(c) /\ first.next = "exit"
  BY DEF NoJob
<1>6. job'[c] = first /\ ControlOK' /\ Only(c)
  BY <1>2, <1>3, <1>4 DEF ControlOK, Only, TypeOK
<1>7. TypeOK'
  BY <1>6, TypeKept DEF Prepare, world, TypeOK
<1>8. FewerOut
  BY <1>2, <1>6 DEF FewerOut, Out, Only, Writing
<1>9. WorkInv(c)'
  BY <1>2, <1>5, <1>6, FirstSound DEF WorkInv, Sound, Writing, Deciding
<1>10. \A d \in Controllers : pc[d] # "pending"
  BY <1>3, CohortAssumption DEF LockInv, Outside
<1>11. NewInv'
  <2> SUFFICES ASSUME NEW d \in Controllers, Preparing(d)'
               PROVE  /\ base # d /\ pending.body.cohort # d /\ head.cohort # d
                      /\ \A e \in Controllers \ {d} : pc'[e] = "pending" => job'[e].body.cohort # d
    BY DEF NewInv, Prepare, disk
  <2>1. Preparing(d)
    BY <1>3, <1>6 DEF Preparing, Only
  <2>2. base # d /\ pending.body.cohort # d /\ head.cohort # d
    BY <2>1 DEF NewInv
  <2>3. \A e \in Controllers \ {c} : pc'[e] # "pending"
    BY <1>6, <1>10 DEF Only
  <2>4. job'[c].body.cohort = c
    BY <1>5, <1>6, Firsts
  <2> QED
    BY <2>2, <2>3, <2>4
<1> QED
  BY <1>1, <1>3, <1>6, <1>7, <1>8, <1>9, <1>11, TakeStep DEF Prepare, world

LEMMA EnterStep ==
    ASSUME Inv, NEW c \in Controllers, NEW r \in Roles \cup {NoRole},
           NEW cmd \in {"status", "admit", "verify", "packet", "dispatch"},
           cmd \in {"packet", "dispatch"} => r \in Roles, Enter(c, cmd, r)
    PROVE  Inv'
<1> USE DEF Inv
<1> DEFINE new == [NoJob EXCEPT !.cmd = cmd, !.role = r]
<1>1. "load" \in Labels /\ "idle" \in Outside
  BY DEF Labels, Outside
<1>2. /\ pc' \in [Controllers -> Labels] /\ pc'[c] = "load"
      /\ \A d \in Controllers \ {c} : pc'[d] = pc[d]
  BY <1>1, GoneTo DEF Enter
<1>3. job' = [job EXCEPT ![c] = new] /\ pc[c] = "idle" /\ lock = NoOne /\ lock' = c
  BY DEF Enter
<1>4. new \in Job
  BY Preflighted DEF Job, Commands
<1>5. new.cmd = cmd /\ new.role = r
  BY DEF NoJob
<1>6. job'[c] = new /\ ControlOK' /\ Only(c)
  BY <1>2, <1>3, <1>4 DEF ControlOK, Only, TypeOK
<1>7. TypeOK'
  BY <1>6, TypeKept DEF Enter, world, TypeOK
<1>8. FewerOut
  BY <1>2, <1>5, <1>6 DEF FewerOut, Out, Only, Writing
<1>9. WorkInv(c)'
  BY <1>2, <1>5, <1>6 DEF WorkInv, Writing, Deciding
<1>10. NewInv'
  BY <1>2, <1>6, NewFrame DEF Preparing, Enter, disk
<1> QED
  BY <1>1, <1>3, <1>6, <1>7, <1>8, <1>9, <1>10, TakeStep DEF Enter, world

LEMMA ReenterStep ==
    ASSUME Inv, NEW c \in Controllers, Reenter(c)
    PROVE  Inv'
<1> USE DEF Inv
<1>1. "load" \in Labels /\ "reenter" \in Outside
  BY DEF Labels, Outside
<1>2. /\ pc' \in [Controllers -> Labels] /\ pc'[c] = "load"
      /\ \A d \in Controllers \ {c} : pc'[d] = pc[d]
  BY <1>1, GoneTo DEF Reenter
<1>3. job' = job /\ pc[c] = "reenter" /\ lock = NoOne /\ lock' = c
  BY DEF Reenter, CanReport
<1>4. ControlOK' /\ Only(c)
  BY <1>2, <1>3 DEF ControlOK, Only, TypeOK
<1>5. TypeOK'
  BY <1>4, TypeKept DEF Reenter, world, TypeOK
<1>6. FewerOut
  BY <1>2, <1>3 DEF FewerOut, Out, Only
<1>7. job[c].cmd = "record"
  BY <1>3 DEF WorkersInv, WorkInv
<1>8. WorkInv(c)'
  BY <1>2, <1>3, <1>7 DEF WorkInv, Writing, Deciding
<1>9. NewInv'
  BY <1>2, <1>4, NewFrame DEF Preparing, Reenter, disk
<1> QED
  BY <1>1, <1>3, <1>4, <1>5, <1>6, <1>8, <1>9, TakeStep DEF Reenter, world

(***************************************************************************)
(* Commands that return                                                    *)
(***************************************************************************)

\* ... having changed nothing but the blame.
LEMMA ExitStep ==
    ASSUME Inv, NEW c \in Controllers, pc[c] \notin Outside, Exit(c),
           UNCHANGED <<disk, blamed, launches, probes, kills>>, late' \subseteq Roles
    PROVE  Inv'
<1> USE DEF Inv
<1>1. ControlOK' /\ Only(c) /\ pc'[c] = "idle"
  BY Exited
<1>2. TypeOK'
  BY <1>1, TypeKept
<1> QED
  BY <1>1, <1>2, LeaveStep DEF SameLedger, disk

LEMMA LoadNothingStep ==
    ASSUME Inv, NEW c \in Controllers, LoadNothing(c)
    PROVE  Inv'
BY ExitStep DEF LoadNothing, Loading, Outside, world, Inv, TypeOK

LEMMA WriteConflictStep ==
    ASSUME Inv, NEW c \in Controllers, WriteConflict(c)
    PROVE  Inv'
BY ExitStep DEF WriteConflict, Outside, world, Inv, TypeOK

LEMMA PersistRejectionStep ==
    ASSUME Inv, NEW c \in Controllers, PersistRejection(c)
    PROVE  Inv'
<1> USE DEF Inv
<1>1. pc[c] = "reject" /\ Exit(c) /\ rejected' = TRUE
      /\ UNCHANGED <<gen, head, arts, base, pending, snap, debris, world>>
  BY DEF PersistRejection
<1>2. ControlOK' /\ Only(c) /\ pc'[c] = "idle"
  BY <1>1, Exited
<1>3. TypeOK'
  BY <1>1, <1>2 DEF TypeOK, ControlOK, world
<1>4. Damaged
  BY <1>1 DEF WorkersInv, WorkInv
<1>5. Explained'
  BY <1>1, <1>4 DEF Explained, Damaged
<1> QED
  BY <1>1, <1>2, <1>3, <1>5, LeaveStep DEF SameLedger, world, Outside

(***************************************************************************)
(* Loading                                                                 *)
(***************************************************************************)

\* The holder goes on without committing.
LEMMA GoStep ==
    ASSUME Inv, TypeOK', NEW c \in Controllers, pc[c] \notin Outside, Only(c), SameLedger,
           FewerOut, lock' = lock, blamed' = blamed, rejected' = rejected,
           snap' = snap \/ (pending.status = "committed" => snap' = gen),
           ~Preparing(c)', pc'[c] # "pending", WorkInv(c)'
    PROVE  Inv'
<1> USE DEF Inv, SameLedger
<1>1. OutInv' /\ OutRoles' \subseteq OutRoles
  BY OutFrame
<1>2. LedgerInv' /\ PendingInv' /\ LaunchInv'
  BY <1>1, LedgerFrame
<1>3. LockInv' /\ WorkersInv'
  BY Alone, HolderFrame
<1>4. NewInv'
  BY NewFrame
<1> QED
  BY <1>1, <1>2, <1>3, <1>4

LEMMA LoadUnreadableStep ==
    ASSUME Inv, NEW c \in Controllers, LoadUnreadable(c)
    PROVE  Inv'
<1> USE DEF Inv
<1>1. "reject" \in Labels /\ "load" \notin Outside
  BY DEF Labels, Outside
<1>2. ControlOK' /\ Only(c) /\ pc'[c] = "reject" /\ job'[c] = job[c]
  BY <1>1, Continued DEF LoadUnreadable
<1>3. TypeOK'
  BY <1>2, TypeKept DEF LoadUnreadable, world, TypeOK
<1>4. gen > 0 /\ Damaged
  BY DEF LoadUnreadable, Readable, LedgerInv, Damaged
<1>5. WorkInv(c)'
  BY <1>1, <1>2, <1>4, RoleKnown
     DEF WorkInv, Writing, Deciding, LoadUnreadable, Loading, disk, Damaged
<1>6. FewerOut
  BY <1>2 DEF FewerOut, Out, Only, Writing
<1> QED
  BY <1>1, <1>2, <1>3, <1>5, <1>6, GoStep
     DEF LoadUnreadable, Loading, world, disk, SameLedger, Preparing

LEMMA ReplayStep ==
    ASSUME Inv, NEW c \in Controllers, Replay(c)
    PROVE  Inv'
<1> USE DEF Inv
<1>1. /\ pc[c] = "load" /\ pending.status = "pending" /\ ~Ambiguous
      /\ job' = [job EXCEPT ![c].next = "load"] /\ Goto(c, "artifacts")
      /\ UNCHANGED <<disk, lock, world>>
  BY DEF Replay, Replayable, Loading
<1>2. "artifacts" \in Labels /\ "load" \notin Outside
  BY DEF Labels, Outside, Writing
<1>3. /\ pc' \in [Controllers -> Labels] /\ pc'[c] = "artifacts"
      /\ \A d \in Controllers \ {c} : pc'[d] = pc[d]
  BY <1>1, <1>2, GoneTo
<1>4. job' = [job EXCEPT ![c] = [job[c] EXCEPT !.next = "load"]]
  BY <1>1
<1>5. [job[c] EXCEPT !.next = "load"] \in Job
  BY DEF TypeOK, Job
<1>6. /\ job'[c].next = "load" /\ job'[c].cmd = job[c].cmd /\ job'[c].role = job[c].role
  <2>1. job'[c] = [job[c] EXCEPT !.next = "load"]
    BY <1>4 DEF TypeOK
  <2> QED
    BY <2>1 DEF TypeOK, Job
<1>7. ControlOK' /\ Only(c)
  BY <1>1, <1>3, <1>4, <1>5 DEF ControlOK, Only, TypeOK
<1>8. TypeOK'
  BY <1>1, <1>7, TypeKept DEF world, TypeOK
<1>9. FewerOut
  BY <1>1, <1>3, <1>6, <1>7 DEF FewerOut, Out, Only, Writing
<1>10. job[c].cmd # "prepare"
  BY <1>1 DEF WorkersInv, WorkInv
<1>11. ~Damaged
  BY DEF Replay, Replayable, Readable, Damaged
<1>12. WorkInv(c)'
  BY <1>1, <1>2, <1>3, <1>6, <1>10, <1>11, RoleKnown
     DEF WorkInv, Writing, Deciding, Promises, disk, Damaged
<1> QED
  BY <1>1, <1>2, <1>3, <1>7, <1>8, <1>9, <1>12, GoStep
     DEF world, disk, SameLedger, Preparing

(***************************************************************************)
(* The bodies that commands commit                                         *)
(***************************************************************************)

\* A body ends the cohort, whatever agents are out.
LEMMA TerminalBody ==
    ASSUME Inv, NEW s \in {"BLOCKED_NO_SHIP", "REJECT"}, head.state \notin Terminal, gen > 0,
           NEW explained \in BOOLEAN, Explained => explained, s = "REJECT" => explained
    PROVE  /\ In(s) \in Body /\ In(s).cohort = head.cohort
           /\ SoundFor(In(s), explained, probes, launches)
           /\ Succeeds(head, In(s)) /\ \A R : Spares(head, In(s), R)
<1> USE DEF Inv
<1>1. s \in States /\ s \in Terminal
  BY DEF States, Terminal
<1>2. /\ In(s) \in Body /\ In(s).state = s /\ In(s).cohort = head.cohort
      /\ In(s).authority = head.authority /\ In(s).probe = head.probe
      /\ In(s).roles = head.roles
  BY <1>1, InBody
<1>3. SoundFor(head, Explained, probes, launches)
  BY DEF LedgerInv, Sound
<1>4. IssuedOf(In(s)) = IssuedOf(head)
  BY <1>2, IssuedSame
<1>5. SoundFor(In(s), explained, probes, launches)
  BY <1>2, <1>3, <1>4 DEF SoundFor, Frozen
<1>6. Succeeds(head, In(s))
  BY <1>2 DEF Succeeds, RoleStep, LedgerInv
<1>7. \A R : Spares(head, In(s), R)
  BY <1>1, <1>2 DEF Spares
<1> QED
  BY <1>2, <1>5, <1>6, <1>7

\* A command ends the cohort: it is blocked, or rejected with the blame.
LEMMA TerminateStep ==
    ASSUME Inv, NEW c \in Controllers, pc[c] \in {"load", "decide", "probeStart", "probed"},
           NEW s \in {"BLOCKED_NO_SHIP", "REJECT"}, Terminate(c, s),
           UNCHANGED <<gen, head, arts, base, pending, rejected, debris, launches, probes, kills>>,
           late' \subseteq Roles, snap' \in {snap, gen},
           blamed' \in BOOLEAN, blamed => blamed', s = "REJECT" => blamed',
           gen > 0, ~Damaged, pending.status # "pending" \/ Ambiguous,
           head.state \notin Terminal
    PROVE  Inv'
<1> USE DEF Inv
<1>1. Commit(c, In(s), "exit")
  BY DEF Terminate
<1>2. Explained' \in BOOLEAN /\ (Explained => Explained') /\ (s = "REJECT" => Explained')
  BY DEF Explained, Damaged
<1>3. /\ In(s) \in Body /\ In(s).cohort = head.cohort
      /\ SoundFor(In(s), Explained', probes, launches)
      /\ Succeeds(head, In(s)) /\ Spares(head, In(s), OthersOut(c))
  BY <1>2, TerminalBody
<1>4. ControlOK' /\ Only(c)
  BY <1>1, <1>3, Committing DEF Nexts
<1>5. TypeOK'
  BY <1>4 DEF TypeOK, ControlOK
<1>6. Promises([job[c] EXCEPT !.body = In(s), !.next = "exit"], In(s), probes, launches)
  BY <1>3 DEF Promises, TypeOK, Job
<1> QED
  BY <1>1, <1>3, <1>4, <1>5, <1>6, CommitStep DEF SameLedger, PendingInv

LEMMA BlockAmbiguousStep ==
    ASSUME Inv, NEW c \in Controllers, BlockAmbiguous(c)
    PROVE  Inv'
<1>1. /\ pc[c] = "load" /\ Ambiguous /\ gen > 0 /\ ~Damaged
      /\ UNCHANGED <<disk, world>>
  BY DEF BlockAmbiguous, Replayable, Loading, Readable, Damaged
<1>2. CASE head.state \in Terminal
  <2>1. Exit(c)
    BY <1>2 DEF BlockAmbiguous
  <2> QED
    BY <1>1, <2>1, ExitStep DEF Outside, world, Inv, TypeOK
<1>3. CASE head.state \notin Terminal
  <2>1. Terminate(c, "BLOCKED_NO_SHIP")
    BY <1>3 DEF BlockAmbiguous
  <2> QED
    BY <1>1, <1>3, <2>1, TerminateStep DEF disk, world, Inv, TypeOK
<1> QED
  BY <1>2, <1>3

LEMMA LoadStep ==
    ASSUME Inv, NEW c \in Controllers, Load(c)
    PROVE  Inv'
<1> USE DEF Inv
<1>1. /\ pc[c] = "load" /\ gen > 0 /\ pending.status # "pending" /\ ~Damaged /\ snap' = gen
      /\ UNCHANGED <<gen, head, arts, base, pending, rejected, debris, world>>
  BY DEF Load, Loading, Readable, Damaged
<1>2. CASE "root" \in debris /\ head.state \notin Terminal
  <2>1. Terminate(c, "BLOCKED_NO_SHIP")
    BY <1>2 DEF Load
  <2> QED
    BY <1>1, <1>2, <2>1, TerminateStep DEF world, TypeOK
<1>3. CASE ~("root" \in debris /\ head.state \notin Terminal)
  <2>1. Goto(c, "decide") /\ UNCHANGED <<job, lock>>
    BY <1>3 DEF Load
  <2>2. "decide" \in Labels /\ "load" \notin Outside
    BY DEF Labels, Outside, Deciding
  <2>3. ControlOK' /\ Only(c) /\ pc'[c] = "decide" /\ job'[c] = job[c]
    BY <2>1, <2>2, Continued
  <2>4. TypeOK'
    BY <1>1, <2>3 DEF TypeOK, ControlOK, world
  <2>5. FewerOut
    BY <1>1, <2>3 DEF FewerOut, Out, Only
  <2>6. job[c].cmd # "prepare" /\ (job[c].cmd \in {"packet", "dispatch"} => job[c].role \in Roles)
    BY <1>1, <2>2, RoleKnown DEF WorkersInv, WorkInv
  <2>7. WorkInv(c)'
    BY <1>1, <2>3, <2>6 DEF WorkInv, Writing, Deciding, Damaged
  <2> QED
    BY <1>1, <2>1, <2>2, <2>3, <2>4, <2>5, <2>7, GoStep DEF world, SameLedger, Preparing
<1> QED
  BY <1>2, <1>3

(***************************************************************************)
(* Deciding                                                                *)
(***************************************************************************)
LEMMA Decided ==
    ASSUME Inv, NEW c \in Controllers, pc[c] \in Deciding
    PROVE  /\ gen > 0 /\ ~Damaged /\ pending.status # "pending" /\ pc[c] \notin Outside
           /\ job[c].cmd # "prepare"
BY DEF Inv, WorkersInv, WorkInv, Deciding, Outside

LEMMA ReturnStep ==
    ASSUME Inv, NEW c \in Controllers, pc[c] \in Deciding, Return(c),
           UNCHANGED <<disk, launches, probes, kills>>, late' \subseteq Roles
    PROVE  Inv'
BY Decided, ExitStep DEF Return

LEMMA BlockStep ==
    ASSUME Inv, NEW c \in Controllers, pc[c] \in {"decide", "probeStart", "probed"}, Block(c),
           UNCHANGED <<disk, launches, probes, kills>>, late' \subseteq Roles,
           head.state \notin Terminal
    PROVE  Inv'
<1>1. pc[c] \in Deciding /\ blamed \in BOOLEAN
  BY DEF Deciding, Inv, TypeOK
<1> QED
  BY <1>1, Decided, TerminateStep DEF Block, disk

LEMMA RejectStep ==
    ASSUME Inv, NEW c \in Controllers, pc[c] \in {"decide", "probeStart", "probed"}, Reject(c),
           UNCHANGED <<disk, launches, probes, kills>>, late' \subseteq Roles,
           head.state \notin Terminal
    PROVE  Inv'
<1>1. pc[c] \in Deciding
  BY DEF Deciding
<1> QED
  BY <1>1, Decided, TerminateStep DEF Reject, disk

LEMMA RecheckStep ==
    ASSUME Inv, NEW c \in Controllers, pc[c] \in {"decide", "probeStart", "probed"}, Recheck(c),
           UNCHANGED <<disk, launches, probes, kills>>, late' \subseteq Roles,
           head.state \notin Terminal
    PROVE  Inv'
BY BlockStep, RejectStep DEF Recheck

\* A command goes on with a body that succeeds the ledger's last.
LEMMA ProceedStep ==
    ASSUME Inv, NEW c \in Controllers, pc[c] \in {"decide", "probeStart", "probed"},
           NEW b \in Body, NEW next \in Nexts \ {"load"}, Proceed(c, b, next),
           UNCHANGED <<disk, launches, probes, kills>>, late' \subseteq Roles,
           Sound(b), b.cohort = head.cohort, Succeeds(head, b), Spares(head, b, OthersOut(c)),
           Promises([job[c] EXCEPT !.body = b, !.next = next], b, probes, launches)
    PROVE  Inv'
<1> USE DEF disk
<1>1. pc[c] \in Deciding
  BY DEF Deciding
<1>2. Commit(c, b, next) /\ blamed' = blamed
  BY DEF Proceed
<1>3. ControlOK' /\ Only(c)
  BY <1>2, Committing DEF Inv
<1>4. TypeOK'
  BY <1>2, <1>3, TypeKept DEF Inv
<1>5. Explained' = Explained
  BY <1>2 DEF Explained, Damaged
<1> QED
  BY <1>1, <1>2, <1>3, <1>4, <1>5, Decided, CommitStep DEF SameLedger, Sound

\* A body with the roles as they are spares them.
LEMMA SameRoles ==
    ASSUME Inv, gen > 0, head.state \notin Terminal, NEW b \in Body, b.roles = head.roles,
           b.cohort = head.cohort, b.state # "PREFLIGHT", head.probe => b.probe
    PROVE  /\ Succeeds(head, b) /\ \A R : Spares(head, b, R)
           /\ IssuedOf(b) = IssuedOf(head) /\ (Frozen(b) <=> Frozen(head))
BY IssuedSame DEF Inv, LedgerInv, Succeeds, RoleStep, Spares, Frozen

LEMMA StatusStep ==
    ASSUME Inv, NEW c \in Controllers, Status(c)
    PROVE  Inv'
<1>1. /\ pc[c] = "decide" /\ UNCHANGED <<disk, launches, probes, kills>>
      /\ late' \subseteq Roles
  BY DEF Status, Decides, Inv, TypeOK
<1>2. CASE head.state \in Active /\ Reject(c)
  BY <1>1, <1>2, RejectStep DEF Active, Terminal
<1>3. CASE (head.state \in {"ADMISSION_AUTHORIZED", "INTAKE_OPEN"} \/ Interrupted) /\ Block(c)
  BY <1>1, <1>3, BlockStep DEF Terminal, Interrupted
<1>4. CASE Return(c)
  BY <1>1, <1>4, ReturnStep DEF Deciding
<1> QED
  BY <1>2, <1>3, <1>4 DEF Status

LEMMA AdmitStep ==
    ASSUME Inv, NEW c \in Controllers, Admit(c)
    PROVE  Inv'
<1> DEFINE b == [head EXCEPT !.authority = TRUE]
<1>1. /\ pc[c] = "decide" /\ UNCHANGED <<disk, launches, probes, kills>>
      /\ late' = late /\ late' \subseteq Roles
  BY DEF Admit, Decides, Inv, TypeOK
<1>2. gen > 0 /\ ~Damaged /\ pending.status # "pending" /\ job[c].cmd # "prepare"
  BY <1>1, Decided DEF Deciding
<1>3. CASE Return(c)
  BY <1>1, <1>3, ReturnStep DEF Deciding
<1>4. CASE Recheck(c) /\ head.state \in {"ADMISSION_AUTHORIZED", "BASELINE_FROZEN"}
  BY <1>1, <1>4, RecheckStep DEF Terminal
<1>5. CASE head.state = "BASELINE_FROZEN" /\ ~head.authority /\ Proceed(c, b, "probeStart")
  <2>1. /\ b \in Body /\ b.roles = head.roles /\ b.cohort = head.cohort
        /\ b.state = head.state /\ b.probe = head.probe /\ b.authority
    BY DEF Inv, TypeOK, Body
  <2>2. ~head.probe /\ probes = 0 /\ Sound(head)
    <3>1. Sound(head) /\ probes <= 1 /\ (probes = 1 => head.probe) /\ probes \in Nat
      BY DEF Inv, TypeOK, LedgerInv
    <3>2. ~head.probe
      BY <1>5, <3>1 DEF Sound, SoundFor
    <3> QED
      BY <3>1, <3>2
  <2>3. /\ Succeeds(head, b) /\ \A R : Spares(head, b, R)
        /\ IssuedOf(b) = IssuedOf(head) /\ (Frozen(b) <=> Frozen(head))
    BY <1>2, <1>5, <2>1, SameRoles DEF Terminal
  <2>4. Sound(b)
    BY <1>5, <2>1, <2>2, <2>3 DEF Sound, SoundFor
  <2>5. Promises([job[c] EXCEPT !.body = b, !.next = "probeStart"], b, probes, launches)
    BY <1>5, <2>1, <2>2 DEF Promises, Inv, TypeOK, Job
  <2> HIDE DEF b
  <2> QED
    BY <1>1, <1>5, <2>1, <2>3, <2>4, <2>5, ProceedStep DEF Nexts
<1>6. CASE head.state = "BASELINE_FROZEN" /\ head.authority /\ ~Interrupted
           /\ Goto(c, "probeStart") /\ UNCHANGED <<lock, job, blamed>>
  <2>1. "probeStart" \in Labels /\ "decide" \notin Outside
    BY DEF Labels, Deciding, Outside
  <2>2. ControlOK' /\ Only(c) /\ pc'[c] = "probeStart" /\ job'[c] = job[c]
    BY <1>6, <2>1, Continued DEF Inv
  <2>3. TypeOK'
    BY <1>1, <1>6, <2>2, TypeKept DEF Inv
  <2>4. FewerOut
    BY <2>2 DEF FewerOut, Out, Only, Writing
  <2>5. WorkInv(c)'
    BY <1>1, <1>2, <1>6, <2>1, <2>2, RoleKnown DEF WorkInv, Writing, Deciding, Interrupted, disk, Damaged
  <2> QED
    BY <1>1, <1>6, <2>1, <2>2, <2>3, <2>4, <2>5, GoStep DEF disk, SameLedger, Preparing
<1> QED
  BY <1>3, <1>4, <1>5, <1>6 DEF Admit

LEMMA ProbeStartStep ==
    ASSUME Inv, NEW c \in Controllers, ProbeStart(c)
    PROVE  Inv'
<1> DEFINE b == [head EXCEPT !.probe = TRUE]
<1>1. /\ pc[c] = "probeStart" /\ UNCHANGED <<disk, launches, probes, kills>>
      /\ late' \subseteq Roles
  BY DEF ProbeStart, Inv, TypeOK
<1>2. /\ gen > 0 /\ head.state = "BASELINE_FROZEN" /\ head.authority /\ ~head.probe
      /\ head.state \notin Terminal
  BY <1>1 DEF Inv, WorkersInv, WorkInv, Deciding, Terminal
<1>3. CASE Block(c)
  BY <1>1, <1>2, <1>3, BlockStep
<1>4. CASE Proceed(c, b, "probe")
  <2>1. /\ b \in Body /\ b.roles = head.roles /\ b.cohort = head.cohort
        /\ b.state = head.state /\ b.probe /\ b.authority = head.authority
    BY DEF Inv, TypeOK, Body
  <2>2. probes = 0 /\ Sound(head)
    BY <1>2 DEF Inv, TypeOK, LedgerInv
  <2>3. /\ Succeeds(head, b) /\ \A R : Spares(head, b, R)
        /\ IssuedOf(b) = IssuedOf(head) /\ (Frozen(b) <=> Frozen(head))
    BY <1>2, <2>1, SameRoles
  <2>4. Sound(b)
    BY <1>2, <2>1, <2>2, <2>3 DEF Sound, SoundFor
  <2>5. Promises([job[c] EXCEPT !.body = b, !.next = "probe"], b, probes, launches)
    BY <1>2, <2>1, <2>2 DEF Promises, Inv, TypeOK, Job
  <2> HIDE DEF b
  <2> QED
    BY <1>1, <1>4, <2>1, <2>3, <2>4, <2>5, ProceedStep DEF Nexts
<1> QED
  BY <1>3, <1>4 DEF ProbeStart

LEMMA ProbeStep ==
    ASSUME Inv, NEW c \in Controllers, Probe(c)
    PROVE  Inv'
<1> USE DEF Inv
<1>1. /\ pc[c] = "probe" /\ probes' = probes + 1 /\ Goto(c, "probed")
      /\ UNCHANGED <<gen, head, arts, base, pending, snap, rejected, debris>>
      /\ UNCHANGED <<lock, job, late, launches, kills, blamed>>
  BY DEF Probe, disk
<1>2. /\ gen > 0 /\ ~Damaged /\ pending.status # "pending" /\ head.state = "BASELINE_FROZEN"
      /\ head.authority /\ head.probe /\ probes = 0 /\ job[c].cmd # "prepare"
  BY <1>1 DEF WorkersInv, WorkInv, Deciding
<1>3. "probed" \in Labels /\ "probe" \notin Outside
  BY DEF Labels, Deciding, Outside
<1>4. ControlOK' /\ Only(c) /\ pc'[c] = "probed" /\ job'[c] = job[c]
  BY <1>1, <1>3, Continued
<1>5. TypeOK'
  BY <1>1, <1>4 DEF TypeOK, ControlOK
<1>6. pending.body = head /\ pending.status = "committed"
  BY <1>2 DEF PendingInv, TypeOK, Pending
<1>7. Sound(head)'
  BY <1>1, <1>2 DEF LedgerInv, Sound, SoundFor, Explained, Damaged
<1>8. LedgerInv'
  BY <1>1, <1>2, <1>6, <1>7 DEF LedgerInv, Sound, Explained, Damaged
<1>9. PendingInv' /\ LaunchInv'
  BY <1>1, <1>6 DEF PendingInv, LaunchInv
<1>10. FewerOut
  BY <1>4 DEF FewerOut, Out, Only, Writing
<1>11. OutInv'
  BY <1>1, <1>10, OutFrame
<1>12. WorkInv(c)'
  BY <1>1, <1>2, <1>3, <1>4, RoleKnown DEF WorkInv, Writing, Deciding, Damaged
<1>13. LockInv' /\ WorkersInv'
  BY <1>1, <1>3, <1>4, <1>12, Alone, HolderFrame
<1>14. NewInv'
  BY <1>1, <1>4, NewFrame DEF Preparing
<1> QED
  BY <1>5, <1>8, <1>9, <1>11, <1>13, <1>14

LEMMA ProbeEndStep ==
    ASSUME Inv, NEW c \in Controllers, ProbeEnd(c)
    PROVE  Inv'
<1> DEFINE b == In("ADMISSION_AUTHORIZED")
<1>1. /\ pc[c] = "probed" /\ UNCHANGED <<disk, launches, probes, kills>>
      /\ late' \subseteq Roles
  BY DEF ProbeEnd, Inv, TypeOK
<1>2. /\ gen > 0 /\ head.state = "BASELINE_FROZEN" /\ head.authority /\ head.probe
      /\ probes = 1 /\ head.state \notin Terminal
  BY <1>1 DEF Inv, WorkersInv, WorkInv, Deciding, Terminal
<1>3. CASE Recheck(c)
  BY <1>1, <1>2, <1>3, RecheckStep
<1>4. CASE Proceed(c, b, "exit")
  <2>1. /\ b \in Body /\ b.roles = head.roles /\ b.cohort = head.cohort
        /\ b.state = "ADMISSION_AUTHORIZED" /\ b.probe = head.probe /\ b.authority = head.authority
    BY InBody DEF Inv, States, Active
  <2>2. Sound(head)
    BY DEF Inv, LedgerInv
  <2>3. /\ Succeeds(head, b) /\ \A R : Spares(head, b, R)
        /\ IssuedOf(b) = IssuedOf(head) /\ (Frozen(b) <=> Frozen(head))
    BY <1>2, <2>1, SameRoles
  <2>4. Sound(b)
    BY <1>2, <2>1, <2>2, <2>3 DEF Sound, SoundFor
  <2>5. Promises([job[c] EXCEPT !.body = b, !.next = "exit"], b, probes, launches)
    BY <2>1 DEF Promises, Inv, TypeOK, Job
  <2> HIDE DEF b
  <2> QED
    BY <1>1, <1>4, <2>1, <2>3, <2>4, <2>5, ProceedStep DEF Nexts
<1> QED
  BY <1>3, <1>4 DEF ProbeEnd

\* What a command may do to the role it works on.
LEMMA RoleSpared ==
    ASSUME Inv, NEW c \in Controllers, NEW r \in Roles, head.state \notin Terminal,
           head.roles[r].status # "dispatch_started" \/ (Out(c) /\ job[c].role = r)
    PROVE  r \notin OthersOut(c)
BY DEF Inv, OutInv, OthersOut

\* A body with one role another status, that the role may take.
LEMMA WithSound ==
    ASSUME Inv, gen > 0, head.state \notin Terminal, NEW c \in Controllers,
           NEW r \in Roles, NEW s \in Statuses,
           \/ head.roles[r].status = "packet_issued" /\ s = "dispatch_started"
           \/ /\ head.roles[r].status = "dispatch_started" /\ s \in {"not_issued", "result_frozen"}
              /\ Out(c) /\ job[c].role = r
    PROVE  /\ With(r, s) \in Body /\ With(r, s).cohort = head.cohort
           /\ Sound(With(r, s))
           /\ Succeeds(head, With(r, s)) /\ Spares(head, With(r, s), OthersOut(c))
<1> DEFINE b == With(r, s)
<1> HIDE DEF b
<1>1. /\ b \in Body /\ b.state = head.state /\ b.cohort = head.cohort
      /\ b.authority = head.authority /\ b.probe = head.probe
      /\ b.roles[r].status = s /\ b.roles[r].attempts = head.roles[r].attempts
      /\ \A q \in Roles \ {r} : b.roles[q] = head.roles[q]
  BY WithBody DEF Inv, b
<1>2. Sound(head) /\ head.state # "PREFLIGHT" /\ head.cohort # NoOne
  BY DEF Inv, LedgerInv
<1>3. \A q \in Roles : b.roles[q].attempts = head.roles[q].attempts
  BY <1>1
<1>4. IssuedOf(b) = IssuedOf(head)
  BY <1>3, IssuedSame
<1>5. head.roles[r].attempts > 0 /\ head.roles[r].status \notin {"not_issued", "result_frozen"}
  BY <1>2 DEF Sound, SoundFor
<1>6. Frozen(head) => Frozen(b)
  BY <1>1, <1>5 DEF Frozen, Roles
<1>7. s = "result_frozen" => launches[r][head.roles[r].attempts] = 1
  BY DEF Inv, OutInv
<1>8. head.state \in {"BASELINE_FROZEN", "ADMISSION_AUTHORIZED", "INTAKE_OPEN"}
  BY <1>2 DEF Inv, TypeOK, Body, States, Active
<1>9. \A q \in Roles : b.roles[q].status # "not_issued" => b.roles[q].attempts > 0
  BY <1>1, <1>2, <1>5 DEF Sound, SoundFor
<1>10. \A q \in Roles : b.roles[q].status = "result_frozen"
                          => launches[q][b.roles[q].attempts] = 1
  BY <1>1, <1>2, <1>7 DEF Sound, SoundFor
<1>11. Verifier \in Roles
  BY DEF Roles
<1>12. Sound(b)
  BY <1>1, <1>2, <1>3, <1>4, <1>6, <1>8, <1>9, <1>10, <1>11 DEF Sound, SoundFor
<1>13. Succeeds(head, b)
  <2>1. RoleStep(head.roles[r], b.roles[r])
    BY <1>1 DEF RoleStep
  <2>2. \A q \in Roles : RoleStep(head.roles[q], b.roles[q])
    BY <1>1, <2>1 DEF RoleStep
  <2> QED
    BY <1>1, <1>2, <2>2 DEF Succeeds
<1>14. Spares(head, b, OthersOut(c))
  <2>1. r \notin OthersOut(c)
    BY RoleSpared
  <2>2. OthersOut(c) \subseteq Roles
    BY DEF OthersOut, Inv, OutInv
  <2> QED
    BY <1>1, <2>1, <2>2 DEF Spares
<1> QED
  BY <1>1, <1>12, <1>13, <1>14 DEF b

LEMMA PacketStep ==
    ASSUME Inv, NEW c \in Controllers, Packet(c)
    PROVE  Inv'
<1> DEFINE r == job[c].role
           new == [status |-> "packet_issued", attempts |-> head.roles[r].attempts + 1]
           b == [In("INTAKE_OPEN") EXCEPT !.roles[r] = new]
<1>1. /\ pc[c] = "decide" /\ job[c].cmd = "packet" /\ UNCHANGED <<disk, launches, probes, kills>>
      /\ late' \subseteq Roles
  BY DEF Packet, Decides, Inv, TypeOK
<1>2. gen > 0 /\ job[c].role \in Roles
  BY <1>1, Decided DEF Inv, WorkersInv, WorkInv, Deciding
<1>3. CASE Return(c)
  BY <1>1, <1>3, ReturnStep DEF Deciding
<1>4. CASE Recheck(c) /\ head.state \in {"ADMISSION_AUTHORIZED", "INTAKE_OPEN"}
  BY <1>1, <1>4, RecheckStep DEF Terminal
<1>5. CASE /\ head.state \in {"ADMISSION_AUTHORIZED", "INTAKE_OPEN"}
           /\ head.roles[r].status = "not_issued" /\ head.roles[r].attempts < 2 /\ Issued < MaxCalls
           /\ r = Verifier => IntakesFrozen
           /\ Proceed(c, b, "exit")
  <2>1. /\ In("INTAKE_OPEN") \in Body /\ In("INTAKE_OPEN").state = "INTAKE_OPEN"
        /\ In("INTAKE_OPEN").cohort = head.cohort
        /\ In("INTAKE_OPEN").authority = head.authority /\ In("INTAKE_OPEN").probe = head.probe
        /\ In("INTAKE_OPEN").roles = head.roles
    BY InBody DEF Inv, States, Active
  <2>2. head.roles[r] \in RoleRecord /\ head \in Body
    BY <1>2 DEF Inv, TypeOK, Body
  <2>3. new \in RoleRecord
    BY <1>5, <2>2 DEF RoleRecord, Statuses
  <2>4. /\ b \in Body /\ b.state = "INTAKE_OPEN" /\ b.cohort = head.cohort
        /\ b.authority = head.authority /\ b.probe = head.probe
        /\ b.roles[r] = new
        /\ \A q \in Roles \ {r} : b.roles[q] = head.roles[q]
    <3>1. b = [In("INTAKE_OPEN") EXCEPT !.roles = [head.roles EXCEPT ![r] = new]]
      BY <2>1
    <3>2. head.roles \in [Roles -> RoleRecord]
      BY <2>2 DEF Body
    <3> HIDE DEF new, r, b
    <3>3. [head.roles EXCEPT ![r] = new] \in [Roles -> RoleRecord]
      BY <2>3, <3>2
    <3> QED
      BY <1>2, <2>1, <3>1, <3>2, <3>3 DEF Body, r
  <2>5. Sound(head) /\ head.state # "PREFLIGHT" /\ head.cohort # NoOne
    BY <1>2 DEF Inv, LedgerInv
  <2>6. head.authority /\ probes = 1
    BY <1>5, <2>5 DEF Sound, SoundFor
  <2>7. b.roles[r].status = "packet_issued" /\ b.roles[r].attempts = head.roles[r].attempts + 1
    BY <2>4
  <2>8. r \in Roles
    BY <1>2
  <2> HIDE DEF b, new, r
  <2>9. Cardinality(IssuedOf(b)) <= MaxCalls
    <3>1. Cardinality(IssuedOf(b)) <= Cardinality(IssuedOf(head)) + 1
      BY <2>2, <2>4, <2>7, <2>8, IssuedMore
    <3>2. Cardinality(IssuedOf(head)) < MaxCalls
      BY <1>5 DEF Issued, IssuedOf
    <3>3. Cardinality(IssuedOf(head)) \in Nat /\ Cardinality(IssuedOf(b)) \in Nat
      BY IssuedFinite
    <3> QED
      BY <3>1, <3>2, <3>3, CohortAssumption
  <2>10. b.roles[Verifier].attempts > 0 => Frozen(b)
    <3>1. CASE r = Verifier
      BY <1>5, <2>4, <3>1, CohortAssumption DEF Frozen, IntakesFrozen, Roles
    <3>2. CASE r # Verifier
      BY <1>5, <2>4, <2>5, <2>8, <3>2, CohortAssumption DEF Sound, SoundFor, Frozen, Roles
    <3> QED
      BY <3>1, <3>2
  <2>11. \A q \in Roles : b.roles[q].status # "not_issued" => b.roles[q].attempts > 0
    <3>1. head.roles[r].attempts \in 0 .. 2
      BY <2>2 DEF RoleRecord
    <3> QED
      BY <2>4, <2>5, <2>7, <3>1 DEF Sound, SoundFor
  <2>12. \A q \in Roles : b.roles[q].status = "result_frozen"
                           => launches[q][b.roles[q].attempts] = 1
    BY <2>4, <2>5, <2>7 DEF Sound, SoundFor
  <2>13. Sound(b)
    BY <2>4, <2>6, <2>9, <2>10, <2>11, <2>12 DEF Sound, SoundFor
  <2>14. Succeeds(head, b)
    <3>1. RoleStep(head.roles[r], b.roles[r])
      BY <1>5, <2>7 DEF RoleStep
    <3>2. \A q \in Roles : RoleStep(head.roles[q], b.roles[q])
      BY <2>4, <3>1 DEF RoleStep
    <3> QED
      BY <1>5, <2>4, <2>5, <3>2 DEF Succeeds, Terminal
  <2>15. Spares(head, b, OthersOut(c))
    <3>1. r \notin OthersOut(c)
      BY <1>5, <2>8, RoleSpared DEF Terminal
    <3>2. OthersOut(c) \subseteq Roles
      BY DEF OthersOut, Inv, OutInv
    <3> QED
      BY <2>4, <3>1, <3>2 DEF Spares
  <2>16. Promises([job[c] EXCEPT !.body = b, !.next = "exit"], b, probes, launches)
    BY <2>4 DEF Promises, Inv, TypeOK, Job
  <2> QED
    BY <1>1, <1>5, <2>4, <2>13, <2>14, <2>15, <2>16, ProceedStep DEF Nexts
<1> QED
  BY <1>3, <1>4, <1>5 DEF Packet

LEMMA DispatchStep ==
    ASSUME Inv, NEW c \in Controllers, Dispatch(c)
    PROVE  Inv'
<1> DEFINE r == job[c].role
           b == With(r, "dispatch_started")
<1>1. /\ pc[c] = "decide" /\ job[c].cmd = "dispatch" /\ UNCHANGED <<disk, launches, probes, kills>>
      /\ late' \subseteq Roles
  BY DEF Dispatch, Decides, Inv, TypeOK
<1>2. gen > 0 /\ r \in Roles
  BY <1>1, Decided DEF Inv, WorkersInv, WorkInv, Deciding
<1>3. CASE Return(c)
  BY <1>1, <1>3, ReturnStep DEF Deciding
<1>4. CASE Recheck(c) /\ head.state = "INTAKE_OPEN"
  BY <1>1, <1>4, RecheckStep DEF Terminal
<1>5. CASE /\ head.state = "INTAKE_OPEN" /\ head.roles[r].status = "packet_issued"
           /\ Proceed(c, b, "launch")
  <2>1. "dispatch_started" \in Statuses /\ head.state \notin Terminal
    BY <1>5 DEF Statuses, Terminal
  <2>2. /\ b \in Body /\ b.cohort = head.cohort /\ Sound(b)
        /\ Succeeds(head, b) /\ Spares(head, b, OthersOut(c))
    BY <1>2, <1>5, <2>1, WithSound
  <2>3. /\ b.state = "INTAKE_OPEN" /\ b.roles[r].status = "dispatch_started"
        /\ b.roles[r].attempts = head.roles[r].attempts
    BY <1>2, <1>5, <2>1, WithBody DEF Inv
  <2>4. launches[r][head.roles[r].attempts] = 0
    BY <1>2, <1>5 DEF Inv, LaunchInv
  <2> HIDE DEF b
  <2>5. Promises([job[c] EXCEPT !.body = b, !.next = "launch"], b, probes, launches)
    <3>1. /\ [job[c] EXCEPT !.body = b, !.next = "launch"].next = "launch"
          /\ [job[c] EXCEPT !.body = b, !.next = "launch"].role = r
      BY DEF Inv, TypeOK, Job
    <3> QED
      BY <1>2, <2>3, <2>4, <3>1 DEF Promises
  <2> QED
    BY <1>1, <1>5, <2>2, <2>5, ProceedStep DEF Nexts
<1> QED
  BY <1>3, <1>4, <1>5 DEF Dispatch

LEMMA RecordStep ==
    ASSUME Inv, NEW c \in Controllers, Record(c)
    PROVE  Inv'
<1> DEFINE r == job[c].role
<1>1. /\ pc[c] = "decide" /\ job[c].cmd = "record" /\ UNCHANGED <<disk, launches, probes, kills>>
      /\ late' \subseteq Roles
  BY DEF Record, Decides, Inv, TypeOK
<1>2. gen > 0 /\ Out(c) /\ r \in Roles
  <2>1. Out(c)
    BY <1>1 DEF Out
  <2> QED
    BY <1>1, <2>1, Decided DEF Inv, OutInv, Deciding
<1>3. CASE Return(c)
  BY <1>1, <1>3, ReturnStep DEF Deciding
<1>4. CASE head.state \notin Terminal /\ Block(c)
  BY <1>1, <1>4, BlockStep
<1>5. CASE head.state \notin Terminal /\ Reject(c)
  BY <1>1, <1>5, RejectStep
<1>6. ASSUME NEW s \in {"result_frozen", "not_issued"}, head.state \notin Terminal,
             head.roles[r].status = "dispatch_started", Proceed(c, With(r, s), "exit")
      PROVE  Inv'
  <2> DEFINE b == With(r, s)
  <2>1. s \in Statuses
    BY DEF Statuses
  <2>2. /\ b \in Body /\ b.cohort = head.cohort /\ Sound(b)
        /\ Succeeds(head, b) /\ Spares(head, b, OthersOut(c))
    BY <1>2, <1>6, <2>1, WithSound
  <2> HIDE DEF b
  <2>3. Promises([job[c] EXCEPT !.body = b, !.next = "exit"], b, probes, launches)
    BY DEF Promises, Inv, TypeOK, Job
  <2>4. Proceed(c, b, "exit")
    BY <1>6 DEF b
  <2> QED
    BY <1>1, <2>2, <2>3, <2>4, ProceedStep DEF Nexts
<1>7. \/ Return(c)
      \/ head.state \notin Terminal /\ Block(c)
      \/ head.state \notin Terminal /\ Reject(c)
      \/ \E s \in {"result_frozen", "not_issued"} :
            /\ head.state \notin Terminal /\ head.roles[r].status = "dispatch_started"
            /\ Proceed(c, With(r, s), "exit")
  BY DEF Record
<1> QED
  BY <1>3, <1>4, <1>5, <1>6, <1>7

LEMMA VerifyStep ==
    ASSUME Inv, NEW c \in Controllers, Verify(c)
    PROVE  Inv'
<1> DEFINE b == In("INTAKE_FROZEN")
<1>1. /\ pc[c] = "decide" /\ UNCHANGED <<disk, launches, probes, kills>>
      /\ late' \subseteq Roles
  BY DEF Verify, Decides, Inv, TypeOK
<1>2. gen > 0
  BY <1>1, Decided DEF Deciding
<1>3. CASE Return(c)
  BY <1>1, <1>3, ReturnStep DEF Deciding
<1>4. CASE head.state \notin Terminal /\ Recheck(c)
  BY <1>1, <1>4, RecheckStep
<1>5. CASE /\ head.state \notin Terminal /\ Proceed(c, b, "exit")
           /\ \A r \in Roles : head.roles[r].status = "result_frozen"
  <2>1. /\ b \in Body /\ b.roles = head.roles /\ b.cohort = head.cohort
        /\ b.state = "INTAKE_FROZEN" /\ b.probe = head.probe /\ b.authority = head.authority
    BY InBody DEF Inv, States, Terminal
  <2>2. Sound(head) /\ head.state # "PREFLIGHT" /\ head \in Body
    BY <1>2 DEF Inv, LedgerInv, TypeOK
  <2>3. /\ Succeeds(head, b) /\ \A R : Spares(head, b, R)
        /\ IssuedOf(b) = IssuedOf(head) /\ (Frozen(b) <=> Frozen(head))
    BY <1>2, <1>5, <2>1, SameRoles
  <2>4. head.authority /\ probes = 1
    <3>1. head.roles[Verifier].attempts > 0
      BY <1>5, <2>2 DEF Sound, SoundFor, Roles
    <3>2. head.state # "BASELINE_FROZEN"
      BY <2>2, <3>1 DEF Sound, SoundFor, Roles
    <3>3. head.state \in {"ADMISSION_AUTHORIZED", "INTAKE_OPEN"}
      BY <1>5, <2>2, <3>2 DEF Body, States, Active
    <3> QED
      BY <2>2, <3>3 DEF Sound, SoundFor
  <2>5. Sound(b)
    BY <1>5, <2>1, <2>2, <2>3, <2>4 DEF Sound, SoundFor
  <2> HIDE DEF b
  <2>6. Promises([job[c] EXCEPT !.body = b, !.next = "exit"], b, probes, launches)
    BY DEF Promises, Inv, TypeOK, Job
  <2> QED
    BY <1>1, <1>5, <2>1, <2>3, <2>5, <2>6, ProceedStep DEF Nexts
<1> QED
  BY <1>3, <1>4, <1>5 DEF Verify

LEMMA LaunchStep ==
    ASSUME Inv, NEW c \in Controllers, Launch(c)
    PROVE  Inv'
<1> USE DEF Inv
<1> DEFINE r == job[c].role
           n == head.roles[r].attempts
<1>1. /\ pc[c] = "launch" /\ lock' = NoOne /\ Goto(c, "agent")
      /\ launches' = [launches EXCEPT ![r][n] = @ + 1]
      /\ UNCHANGED <<gen, head, arts, base, pending, snap, rejected, debris>>
      /\ UNCHANGED <<job, blamed, late, probes, kills>>
  BY DEF Launch, disk
<1>2. /\ gen > 0 /\ ~Damaged /\ pending.status # "pending"
      /\ r \in Roles /\ head.state = "INTAKE_OPEN"
      /\ head.roles[r].status = "dispatch_started" /\ launches[r][n] = 0
  BY <1>1 DEF WorkersInv, WorkInv, Deciding
<1>3. n \in Attempts
  <2>1. n > 0 /\ n \in 0 .. 2
    BY <1>2 DEF LedgerInv, Sound, SoundFor, TypeOK, Body, RoleRecord
  <2> QED
    BY <2>1 DEF Attempts
<1>4. "agent" \in Labels /\ "agent" \in Outside /\ "launch" \notin Outside
  BY DEF Labels, Outside
<1>5. /\ pc' \in [Controllers -> Labels] /\ pc'[c] = "agent" /\ Only(c)
  BY <1>1, <1>4, GoneTo DEF Only
<1> HIDE DEF r, n
<1>6. /\ launches' \in [Roles -> [Attempts -> Nat]] /\ launches'[r][n] = 1
      /\ \A q \in Roles, m \in Attempts : <<q, m>> # <<r, n>> => launches'[q][m] = launches[q][m]
  <2>1. launches \in [Roles -> [Attempts -> Nat]]
    BY DEF TypeOK
  <2> QED
    BY <1>1, <1>2, <1>3, <2>1
<1>7. TypeOK'
  BY <1>1, <1>5, <1>6 DEF TypeOK
<1>8. pending.body = head /\ pending.status = "committed"
  BY <1>2 DEF PendingInv, TypeOK, Pending
<1>9. \A q \in Roles : head.roles[q].status = "result_frozen" \/ head.roles[q].status = "packet_issued"
          => head.roles[q].attempts \in Attempts /\ q # r
  <2>1. \A q \in Roles : head.roles[q].attempts \in 0 .. 2
    BY DEF TypeOK, Body, RoleRecord
  <2>2. \A q \in Roles : head.roles[q].status # "not_issued" => head.roles[q].attempts > 0
    BY DEF LedgerInv, Sound, SoundFor
  <2> QED
    BY <1>2, <2>1, <2>2 DEF Attempts
<1>10. Sound(head)'
  <2>1. SoundFor(head, Explained, probes, launches)
    BY DEF LedgerInv, Sound
  <2>2. Explained' = Explained
    BY <1>1 DEF Explained, Damaged
  <2>3. \A q \in Roles : head.roles[q].status = "result_frozen"
                          => launches'[q][head.roles[q].attempts] = 1
    BY <1>6, <1>9, <2>1 DEF SoundFor
  <2>4. SoundFor(head, Explained, probes, launches')
    BY <2>1, <2>3 DEF SoundFor
  <2> QED
    BY <1>1, <2>2, <2>4 DEF Sound
<1>11. LedgerInv'
  BY <1>1, <1>8, <1>10 DEF LedgerInv, Sound, Explained, Damaged
<1>12. PendingInv'
  BY <1>1, <1>8 DEF PendingInv
<1>13. LaunchInv'
  <2> SUFFICES ASSUME NEW q \in Roles
               PROVE  /\ \A m \in Attempts :
                            /\ launches'[q][m] <= 1
                            /\ launches'[q][m] > 0 => m <= head.roles[q].attempts
                      /\ head.roles[q].status = "packet_issued"
                            => launches'[q][head.roles[q].attempts] = 0
    BY <1>1 DEF LaunchInv
  <2>1. ASSUME NEW m \in Attempts
        PROVE  launches'[q][m] <= 1 /\ (launches'[q][m] > 0 => m <= head.roles[q].attempts)
    <3>1. CASE q = r /\ m = n
      BY <1>3, <1>6, <3>1 DEF n, Attempts
    <3>2. CASE ~(q = r /\ m = n)
      BY <1>6, <3>2 DEF LaunchInv
    <3> QED
      BY <3>1, <3>2
  <2>2. head.roles[q].status = "packet_issued" => launches'[q][head.roles[q].attempts] = 0
    BY <1>6, <1>9 DEF LaunchInv
  <2> QED
    BY <2>1, <2>2
<1>14. \A d \in Controllers \ {c} : Out(d)' <=> Out(d)
  BY <1>1, <1>5 DEF Out, Only
<1>15. \A d \in Controllers \ {c} : Out(d) => job[d].role # r
  BY <1>2 DEF OutInv, Terminal, n
<1>16. OutInv'
  <2> SUFFICES ASSUME NEW d \in Controllers, Out(d)'
               PROVE  /\ job[d].role \in Roles
                      /\ head.state \in Terminal
                         \/ /\ head.roles[job[d].role].status = "dispatch_started"
                            /\ launches'[job[d].role][head.roles[job[d].role].attempts] = 1
                      /\ \A e \in Controllers \ {d} :
                            Out(e)' /\ job[d].role = job[e].role => head.state \in Terminal
    BY <1>1 DEF OutInv
  <2>1. CASE d = c
    <3>1. r = job[d].role
      BY <2>1 DEF r
    <3> QED
      BY <1>2, <1>6, <1>14, <1>15, <2>1, <3>1 DEF n
  <2>2. CASE d # c
    <3>1. Out(d) /\ job[d].role # r
      BY <1>14, <1>15, <2>2
    <3>2. \A e \in Controllers \ {d} :
             Out(e)' /\ job[d].role = job[e].role => head.state \in Terminal
      BY <1>14, <3>1 DEF OutInv, r
    <3>3. head.roles[job[d].role].attempts \in Attempts
          \/ head.roles[job[d].role].status # "dispatch_started"
      <4>1. job[d].role \in Roles
        BY <3>1 DEF OutInv
      <4> QED
        BY <4>1 DEF LedgerInv, Sound, SoundFor, TypeOK, Body, RoleRecord, Attempts
    <3> QED
      BY <1>6, <3>1, <3>2, <3>3 DEF OutInv
  <2> QED
    BY <2>1, <2>2
<1>17. WorkInv(c)'
  BY <1>4, <1>5, OutsideWork
<1>18. LockInv' /\ WorkersInv'
  BY <1>1, <1>4, <1>5, <1>17, HolderFrame
<1>19. NewInv'
  BY <1>1, <1>5, NewFrame DEF Preparing
<1> QED
  BY <1>7, <1>11, <1>12, <1>13, <1>16, <1>18, <1>19

(***************************************************************************)
(* Committing                                                              *)
(***************************************************************************)
LEMMA WritePendingStep ==
    ASSUME Inv, NEW c \in Controllers, WritePending(c)
    PROVE  Inv'
<1> USE DEF Inv
<1> DEFINE b == job[c].body
           n == IF job[c].cmd = "prepare" THEN 1 ELSE gen + 1
<1>1. /\ pc[c] = "pending" /\ Goto(c, "artifacts")
      /\ pending' = [status |-> "pending", body |-> b, gen |-> n]
      /\ UNCHANGED <<gen, head, arts, base, snap, rejected, debris, lock, job>>
      /\ UNCHANGED <<blamed, late, launches, probes, kills>>
  BY DEF WritePending, world
<1>2. "artifacts" \in Labels /\ "pending" \notin Outside
  BY DEF Labels, Outside, Writing
<1>3. /\ pc' \in [Controllers -> Labels] /\ pc'[c] = "artifacts" /\ Only(c)
      /\ job'[c] = job[c]
  BY <1>1, <1>2, GoneTo DEF Only
<1>4. b \in Body /\ gen \in Nat /\ n \in Nat /\ n > 0
  BY DEF TypeOK, Job
<1>5. pending' \in Pending
  BY <1>1, <1>4 DEF Pending
<1>6. TypeOK'
  BY <1>1, <1>3, <1>5 DEF TypeOK
<1>7. /\ Sound(b)
      /\ IF job[c].cmd = "prepare"
         THEN b = First(c) /\ job[c].next = "exit"
         ELSE /\ gen > 0 /\ ~Damaged /\ job[c].next # "load"
              /\ Succeeds(head, b) /\ Spares(head, b, OutRoles)
              /\ Promises(job[c], b, probes, launches)
  BY <1>1 DEF WorkersInv, WorkInv
<1>8. b.cohort # NoOne
  BY <1>7, Firsts, CohortAssumption DEF Succeeds
<1>9. pending'.status = "pending" /\ pending'.body = b /\ pending'.gen = n
  BY <1>1
<1>10. FewerOut
  BY <1>1, <1>3, <1>7 DEF FewerOut, Out, Only, Writing
<1> HIDE DEF b
<1>11. OutInv' /\ OutRoles' \subseteq OutRoles
  BY <1>1, <1>10, OutFrame
<1>12. Damaged' = Damaged /\ Explained' = Explained
  BY <1>1 DEF Damaged, Explained
<1>13. LedgerInv'
  BY <1>1, <1>7, <1>9, <1>12 DEF LedgerInv, Sound
<1>14. job[c].cmd = "prepare" /\ base # NoOne => Conflict(pending.gen, pending.body)'
  <2>1. job[c].cmd = "prepare" => base # c
    BY <1>1 DEF NewInv, Preparing
  <2>2. job[c].cmd = "prepare" => n = 1 /\ b.cohort = c
    BY <1>7, Firsts
  <2> QED
    BY <1>1, <1>9, <2>1, <2>2 DEF Conflict
<1>15. Conflict(pending.gen, pending.body)' \/ Fitting'
  <2>1. CASE job[c].cmd = "prepare" /\ base = NoOne
    <3>1. gen = 0 /\ head = Preflight /\ n = 1 /\ b = First(c)
      BY <1>7, <2>1 DEF LedgerInv, TypeOK
    <3>2. OutRoles \subseteq Roles
      BY DEF OutRoles, OutInv
    <3>3. Succeeds(head, b)
      BY <3>1, Firsts, Preflighted, CohortAssumption DEF Succeeds, RoleStep, Terminal
    <3>4. Spares(head, b, OutRoles')
      BY <1>11, <3>1, <3>2, Firsts DEF Spares
    <3> QED
      BY <1>1, <1>9, <3>1, <3>3, <3>4 DEF Fitting
  <2>2. CASE job[c].cmd # "prepare"
    <3>1. Spares(head, b, OutRoles')
      BY <1>7, <1>11, <2>2, SparesFrame
    <3> QED
      BY <1>1, <1>7, <1>9, <2>2, <3>1 DEF Fitting
  <2> QED
    BY <1>14, <2>1, <2>2
<1>16. PendingInv'
  BY <1>1, <1>4, <1>8, <1>9, <1>15 DEF PendingInv
<1>17. LaunchInv'
  BY <1>1 DEF LaunchInv
<1>18. Promises(job[c], b, probes, launches)
  BY <1>7 DEF Promises
<1>19. Damaged => Conflict(pending.gen, pending.body)'
  BY <1>7, <1>14 DEF LedgerInv
<1>20. WorkInv(c)'
  BY <1>1, <1>2, <1>3, <1>7, <1>9, <1>12, <1>18, <1>19, RoleKnown
     DEF WorkInv, Writing, Deciding
<1>21. LockInv' /\ WorkersInv'
  BY <1>1, <1>2, <1>3, <1>20, Alone, HolderFrame
<1>22. NewInv'
  BY <1>1, <1>3, <1>9, NewFrame DEF Preparing, b
<1> QED
  BY <1>6, <1>11, <1>13, <1>16, <1>17, <1>21, <1>22

LEMMA WriteArtifactsStep ==
    ASSUME Inv, NEW c \in Controllers, WriteArtifacts(c)
    PROVE  Inv'
<1> USE DEF Inv
<1>1. /\ pc[c] = "artifacts" /\ ~Conflict(pending.gen, pending.body) /\ Goto(c, "transition")
      /\ arts' = Max({arts, pending.gen}) /\ base' = pending.body.cohort
      /\ UNCHANGED <<gen, head, pending, snap, rejected, debris, lock, job>>
      /\ UNCHANGED <<blamed, late, launches, probes, kills>>
  BY DEF WriteArtifacts, world
<1>2. "transition" \in Labels /\ "artifacts" \notin Outside
  BY DEF Labels, Outside, Writing
<1>3. ControlOK' /\ Only(c) /\ pc'[c] = "transition" /\ job'[c] = job[c]
  BY <1>1, <1>2, Continued
<1>4. arts \in Nat /\ pending.gen \in Nat /\ pending.body.cohort \in Controllers \cup {NoOne}
  BY DEF TypeOK, Pending, Body
<1>5. arts' \in Nat /\ arts' >= arts /\ arts' >= pending.gen
  BY <1>1, <1>4, MaxOfTwo
<1>6. TypeOK'
  BY <1>1, <1>3, <1>4, <1>5 DEF TypeOK, ControlOK
<1>7. /\ pending.status = "pending" /\ ~Damaged /\ Fitting
      /\ job[c].cmd = "prepare" => job[c].next = "exit"
      /\ Promises(job[c], pending.body, probes, launches)
      /\ pending.body.cohort # NoOne
  BY <1>1 DEF WorkersInv, WorkInv, PendingInv, Writing
<1>8. FewerOut
  BY <1>1, <1>3 DEF FewerOut, Out, Only, Writing
<1>9. OutInv' /\ OutRoles' \subseteq OutRoles
  BY <1>1, <1>8, OutFrame
<1>10. Fitting'
  BY <1>1, <1>7, <1>9, SparesFrame DEF Fitting
<1>11. Damaged' = Damaged /\ Explained' = Explained
  BY <1>1 DEF Damaged, Explained
<1>12. LedgerInv'
  BY <1>1, <1>4, <1>5, <1>7, <1>11 DEF LedgerInv, Sound, TypeOK
<1>13. PendingInv' /\ LaunchInv'
  BY <1>1, <1>7, <1>10 DEF PendingInv, LaunchInv
<1>14. WorkInv(c)'
  BY <1>1, <1>2, <1>3, <1>5, <1>7, <1>10, <1>11, RoleKnown DEF WorkInv, Writing, Deciding
<1>15. LockInv' /\ WorkersInv'
  BY <1>1, <1>2, <1>3, <1>14, Alone, HolderFrame
<1>16. NewInv'
  BY <1>1, <1>3, NewFrame DEF Preparing
<1> QED
  BY <1>6, <1>9, <1>12, <1>13, <1>15, <1>16

\* The transaction that is written succeeds the ledger, or is its last already.
LEMMA LedgerAdvances ==
    ASSUME Inv, Fitting, pending.status = "pending", ~Damaged, base # NoOne, arts >= pending.gen,
           gen' = pending.gen, head' = pending.body,
           UNCHANGED <<arts, base, pending, snap, rejected, debris>>,
           UNCHANGED <<blamed, launches, probes>>,
           \A d \in Controllers : (Out(d)' => Out(d)) /\ job'[d].role = job[d].role
    PROVE  LedgerInv' /\ PendingInv' /\ LaunchInv' /\ OutInv'
<1> USE DEF Inv
<1>1. pending.gen > 0 /\ pending.body.cohort # NoOne /\ pending.gen \in Nat /\ gen \in Nat
  BY DEF PendingInv, TypeOK, Pending
<1>2. \/ gen' = gen /\ head' = head
      \/ gen' = gen + 1 /\ Succeeds(head, head') /\ Spares(head, head', OutRoles)
  BY DEF Fitting
<1>3. Damaged' = Damaged /\ Explained' = Explained
  BY DEF Damaged, Explained
<1>4. head'.state # "PREFLIGHT" /\ head'.cohort # NoOne /\ (head.probe => head'.probe)
  BY <1>1, <1>2 DEF LedgerInv, Succeeds
<1>5. LedgerInv'
  BY <1>1, <1>3, <1>4 DEF LedgerInv, Sound
<1>6. PendingInv'
  BY <1>1 DEF PendingInv, Fitting
<1>7. head \in Body /\ head' \in Body
  BY DEF TypeOK, Pending
<1>8. CASE head' = head
  <2>1. LaunchInv'
    BY <1>8 DEF LaunchInv
  <2>2. OutInv'
    BY <1>8 DEF OutInv
  <2> QED
    BY <1>5, <1>6, <2>1, <2>2
<1>9. CASE Succeeds(head, head') /\ Spares(head, head', OutRoles)
  <2>1. LaunchInv'
    <3> SUFFICES ASSUME NEW r \in Roles
                 PROVE  /\ \A n \in Attempts :
                              /\ launches[r][n] <= 1
                              /\ launches[r][n] > 0 => n <= head'.roles[r].attempts
                        /\ head'.roles[r].status = "packet_issued"
                              => launches[r][head'.roles[r].attempts] = 0
      BY DEF LaunchInv
    <3>1. RoleStep(head.roles[r], head'.roles[r])
      BY <1>9 DEF Succeeds
    <3>2. head.roles[r].attempts \in 0 .. 2 /\ head'.roles[r].attempts \in 0 .. 2
      BY <1>7 DEF Body, RoleRecord
    <3>3. \A n \in Attempts : n \in 1 .. 2 /\ launches[r][n] \in Nat
      BY DEF TypeOK, Attempts
    <3>4. \A n \in Attempts :
             launches[r][n] <= 1 /\ (launches[r][n] > 0 => n <= head.roles[r].attempts)
      BY DEF LaunchInv
    <3>5. CASE head'.roles[r] = head.roles[r]
      BY <3>4, <3>5 DEF LaunchInv
    <3>6. CASE /\ head.roles[r].status = "not_issued"
               /\ head'.roles[r].attempts = head.roles[r].attempts + 1
      <4>1. head'.roles[r].attempts \in Attempts
        BY <3>2, <3>6 DEF Attempts
      <4> QED
        BY <3>2, <3>3, <3>4, <3>6, <4>1
    <3>7. CASE /\ head'.roles[r].attempts = head.roles[r].attempts
               /\ head'.roles[r].status # "packet_issued"
      BY <3>4, <3>7
    <3> QED
      BY <3>1, <3>5, <3>6, <3>7 DEF RoleStep
  <2>2. OutInv'
    <3> SUFFICES ASSUME NEW d \in Controllers, Out(d)'
                 PROVE  /\ job[d].role \in Roles
                        /\ head'.state \in Terminal
                           \/ LET role == head'.roles[job[d].role] IN
                              /\ role.status = "dispatch_started"
                              /\ launches[job[d].role][role.attempts] = 1
                        /\ \A e \in Controllers \ {d} :
                              Out(e)' /\ job[d].role = job[e].role => head'.state \in Terminal
      BY DEF OutInv
    <3>1. Out(d) /\ head.state \notin Terminal
      BY <1>9 DEF Succeeds
    <3>2. job[d].role \in OutRoles
      BY <3>1 DEF OutRoles
    <3>3. head'.state \in Terminal \/ head'.roles[job[d].role] = head.roles[job[d].role]
      BY <1>9, <3>2 DEF Spares
    <3> QED
      BY <3>1, <3>3 DEF OutInv
  <2> QED
    BY <1>5, <1>6, <2>1, <2>2
<1> QED
  BY <1>2, <1>8, <1>9

LEMMA WriteTransitionStep ==
    ASSUME Inv, NEW c \in Controllers, WriteTransition(c)
    PROVE  Inv'
<1> USE DEF Inv
<1>1. /\ pc[c] = "transition" /\ Goto(c, "snapshot") /\ gen' = pending.gen /\ head' = pending.body
      /\ UNCHANGED <<arts, base, pending, snap, rejected, debris, lock, job>>
      /\ UNCHANGED <<blamed, late, launches, probes, kills>>
  BY DEF WriteTransition, world
<1>2. "snapshot" \in Labels /\ "transition" \notin Outside
  BY DEF Labels, Outside, Writing
<1>3. ControlOK' /\ Only(c) /\ pc'[c] = "snapshot" /\ job'[c] = job[c]
  BY <1>1, <1>2, Continued
<1>4. TypeOK'
  BY <1>1, <1>3 DEF TypeOK, ControlOK, Pending
<1>5. /\ pending.status = "pending" /\ ~Damaged /\ Fitting /\ base # NoOne /\ arts >= pending.gen
      /\ job[c].cmd = "prepare" => job[c].next = "exit"
      /\ Promises(job[c], pending.body, probes, launches)
  BY <1>1 DEF WorkersInv, WorkInv, Writing
<1>6. \A d \in Controllers : (Out(d)' => Out(d)) /\ job'[d].role = job[d].role
  BY <1>1, <1>3 DEF Out, Only, Writing
<1>7. LedgerInv' /\ PendingInv' /\ LaunchInv' /\ OutInv'
  BY <1>1, <1>5, <1>6, LedgerAdvances
<1>8. WorkInv(c)'
  BY <1>1, <1>2, <1>3, <1>5, RoleKnown DEF WorkInv, Writing, Deciding, Fitting, Damaged
<1>9. LockInv' /\ WorkersInv'
  BY <1>1, <1>2, <1>3, <1>8, Alone, HolderFrame
<1>10. NewInv'
  BY <1>1, <1>3, NewFrame DEF Preparing
<1> QED
  BY <1>4, <1>7, <1>9, <1>10

LEMMA WriteSnapshotStep ==
    ASSUME Inv, NEW c \in Controllers, WriteSnapshot(c)
    PROVE  Inv'
<1> USE DEF Inv
<1>1. /\ pc[c] = "snapshot" /\ Goto(c, "commit") /\ snap' = gen
      /\ UNCHANGED <<gen, head, arts, base, pending, rejected, debris, lock, job>>
      /\ UNCHANGED <<blamed, late, launches, probes, kills>>
  BY DEF WriteSnapshot, world
<1>2. "commit" \in Labels /\ "snapshot" \notin Outside
  BY DEF Labels, Outside, Writing
<1>3. ControlOK' /\ Only(c) /\ pc'[c] = "commit" /\ job'[c] = job[c]
  BY <1>1, <1>2, Continued
<1>4. TypeOK'
  BY <1>1, <1>3 DEF TypeOK, ControlOK
<1>5. FewerOut
  BY <1>1, <1>3 DEF FewerOut, Out, Only, Writing
<1>6. /\ pending.status = "pending" /\ ~Damaged /\ base # NoOne /\ arts >= pending.gen
      /\ pending.gen = gen /\ pending.body = head
      /\ job[c].cmd = "prepare" => job[c].next = "exit"
      /\ Promises(job[c], pending.body, probes, launches)
  BY <1>1 DEF WorkersInv, WorkInv, Writing
<1>7. WorkInv(c)'
  BY <1>1, <1>2, <1>3, <1>6, RoleKnown DEF WorkInv, Writing, Deciding, Fitting, Damaged
<1> QED
  BY <1>1, <1>2, <1>3, <1>4, <1>5, <1>7, GoStep DEF SameLedger, Preparing

LEMMA CommittedStep ==
    ASSUME Inv, NEW c \in Controllers, Committed(c)
    PROVE  Inv'
<1> USE DEF Inv
<1> DEFINE next == job[c].next
<1>1. /\ pc[c] = "commit" /\ pending' = [pending EXCEPT !.status = "committed"]
      /\ UNCHANGED <<gen, head, arts, base, snap, rejected, debris>>
      /\ UNCHANGED <<blamed, late, launches, probes, kills>>
      /\ IF next = "exit" THEN Exit(c) ELSE Goto(c, next) /\ UNCHANGED <<lock, job>>
  BY DEF Committed, world
<1>2. /\ pending.status = "pending" /\ ~Damaged /\ pending.gen = gen /\ pending.body = head
      /\ snap = gen /\ gen > 0
      /\ job[c].cmd = "prepare" => next = "exit"
      /\ Promises(job[c], head, probes, launches)
  BY <1>1 DEF WorkersInv, WorkInv, Writing, PendingInv
<1>3. pending' \in Pending /\ pending'.status = "committed" /\ pending'.gen = gen /\ pending'.body = head
  BY <1>1, <1>2 DEF TypeOK, Pending
<1>4. Sound(head)' /\ Explained' = Explained /\ Damaged' = Damaged
  BY <1>1 DEF LedgerInv, Sound, Explained, Damaged
<1>5. LedgerInv' /\ PendingInv' /\ LaunchInv'
  BY <1>1, <1>2, <1>3, <1>4 DEF LedgerInv, PendingInv, LaunchInv, Sound
<1>6. next \in Nexts /\ "commit" \notin Outside
  BY DEF TypeOK, Job, Nexts, Outside
<1>7. CASE next = "exit"
  <2>1. ControlOK' /\ Only(c) /\ pc'[c] = "idle" /\ lock' = NoOne
    BY <1>1, <1>7, Exited
  <2>2. TypeOK'
    BY <1>1, <1>3, <2>1 DEF TypeOK, ControlOK
  <2>3. FewerOut
    BY <2>1 DEF FewerOut, Out, Only, Writing
  <2>4. OutInv'
    BY <1>1, <2>3, OutFrame
  <2>5. WorkInv(c)'
    BY <2>1, OutsideWork DEF Outside
  <2>6. LockInv' /\ WorkersInv'
    BY <1>1, <1>6, <2>1, <2>5, HolderFrame DEF Outside
  <2>7. NewInv'
    BY <1>1, <1>2, <1>3, <2>1, NewFrame DEF Preparing
  <2> QED
    BY <1>5, <2>2, <2>4, <2>6, <2>7
<1>8. CASE next # "exit"
  <2>1. next \in Labels
    BY <1>6, <1>8 DEF Nexts, Labels, Deciding
  <2>2. ControlOK' /\ Only(c) /\ pc'[c] = next /\ job'[c] = job[c]
    BY <1>1, <1>8, <2>1, Continued
  <2>3. TypeOK'
    BY <1>1, <1>3, <2>2 DEF TypeOK, ControlOK
  <2>4. FewerOut
    BY <1>1, <1>6, <1>8, <2>2 DEF FewerOut, Out, Only, Writing, Nexts
  <2>5. OutInv'
    BY <1>1, <2>4, OutFrame
  <2>6. WorkInv(c)'
    BY <1>1, <1>2, <1>3, <1>4, <1>6, <1>8, <2>2, RoleKnown
       DEF WorkInv, Writing, Deciding, Outside, Nexts, Promises
  <2>7. LockInv' /\ WorkersInv'
    BY <1>1, <1>6, <1>8, <2>2, <2>6, Alone, HolderFrame
  <2>8. NewInv'
    BY <1>1, <1>2, <1>3, <1>6, <1>8, <2>2, NewFrame DEF Preparing, Nexts
  <2> QED
    BY <1>5, <2>3, <2>5, <2>7, <2>8
<1> QED
  BY <1>7, <1>8

(***************************************************************************)
(* Kills                                                                   *)
(***************************************************************************)
LEMMA KillStep ==
    ASSUME Inv, NEW c \in Controllers, Kill(c)
    PROVE  Inv'
<1> USE DEF Inv
<1>1. /\ UNCHANGED <<gen, head, arts, pending, snap, blamed, late, launches, probes>>
      /\ kills' = kills + 1 /\ Goto(c, "idle") /\ job' = [job EXCEPT ![c] = NoJob]
      /\ lock' = IF lock = c THEN NoOne ELSE lock
      /\ base' \in IF pc[c] = "artifacts" /\ ~Conflict(pending.gen, pending.body)
                   THEN {base, pending.body.cohort} ELSE {base}
  BY DEF Kill
<1>2. PICK left \in Left(c) : debris' = debris \cup left
                              /\ rejected' = (rejected \/ left = {"rejection"})
  BY DEF Kill
<1>3. /\ left \subseteq {"root", "artifact", "transitions", "transition", "rejection"}
      /\ left = {"rejection"} => pc[c] = "reject"
      /\ left \cap {"transitions", "transition"} # {} => pc[c] = "transition" /\ gen < pending.gen
      /\ pc[c] \in Outside => left = {}
  BY DEF Left, Outside
<1>4. "idle" \in Labels /\ "idle" \in Outside
  BY DEF Labels, Outside
<1>5. /\ pc' \in [Controllers -> Labels] /\ pc'[c] = "idle" /\ Only(c)
      /\ job' \in [Controllers -> Job]
  BY <1>1, <1>4, GoneTo, Preflighted DEF Only, TypeOK
<1>6. lock' \in Controllers \cup {NoOne} /\ kills' \in Nat
  BY <1>1 DEF TypeOK
<1>7. base' \in {base, pending.body.cohort}
      /\ (base' # base => pending.status = "pending" /\ Fitting /\ base' # NoOne)
  BY <1>1 DEF WorkersInv, WorkInv, Writing, PendingInv
<1>8. base' \in Controllers \cup {NoOne}
  BY <1>7 DEF TypeOK, Pending, Body
<1>9. rejected' \in BOOLEAN
        /\ debris' \subseteq {"root", "artifact", "transitions", "transition", "rejection"}
  BY <1>2, <1>3 DEF TypeOK
<1>10. TypeOK'
  BY <1>1, <1>5, <1>6, <1>8, <1>9 DEF TypeOK
<1>11. FewerOut
  BY <1>5 DEF FewerOut, Out, Only, Writing
<1>12. OutInv' /\ OutRoles' \subseteq OutRoles
  BY <1>1, <1>11, OutFrame
<1>13. (Damaged => Damaged') /\ (Explained => Explained')
  BY <1>1, <1>2 DEF Damaged, Explained
<1>14. Sound(head)' /\ Sound(pending.body)'
  BY <1>1, <1>13, SoundKept DEF LedgerInv, Sound
<1>15. rejected' => Explained'
  <2>1. CASE rejected
    BY <1>13, <2>1 DEF LedgerInv
  <2>2. CASE left = {"rejection"}
    BY <1>3, <1>13, <2>2 DEF WorkersInv, WorkInv, Explained
  <2> QED
    BY <1>2, <2>1, <2>2
<1>16. Damaged' => base' # NoOne /\ head.state \notin Terminal
  <2>1. CASE Damaged
    BY <1>7, <2>1 DEF LedgerInv
  <2>2. CASE left \cap {"transitions", "transition"} # {}
    <3>1. pc[c] = "transition" /\ gen < pending.gen
      BY <1>3, <2>2
    <3>2. Fitting /\ base # NoOne
      BY <3>1 DEF WorkersInv, WorkInv, Writing
    <3>3. head.state \notin Terminal
      BY <3>1, <3>2 DEF Fitting, Succeeds, TypeOK
    <3> QED
      BY <1>7, <3>2, <3>3
  <2> QED
    BY <1>2, <2>1, <2>2 DEF Damaged
<1>17. LedgerInv'
  BY <1>1, <1>7, <1>14, <1>15, <1>16 DEF LedgerInv
<1>18. Fitting => Fitting'
  BY <1>1, <1>12, SparesFrame DEF Fitting
<1>19. pending.status = "pending" /\ Conflict(pending.gen, pending.body)
          => Conflict(pending.gen, pending.body)' \/ Fitting'
  BY <1>1, <1>2, <1>7, <1>18 DEF Conflict
<1>20. PendingInv' /\ LaunchInv'
  BY <1>1, <1>7, <1>18, <1>19 DEF PendingInv, LaunchInv
<1>21. WorkInv(c)'
  BY <1>4, <1>5, OutsideWork
<1>22. LockInv' /\ WorkersInv'
  <2>1. CASE pc[c] \notin Outside
    BY <1>4, <1>5, <1>21, <2>1, HolderFrame
  <2>2. CASE pc[c] \in Outside
    <3>1. UNCHANGED <<disk, blamed, launches, probes>>
      <4>1. left = {} /\ pc[c] # "artifacts"
        BY <1>3, <2>2 DEF Outside
      <4>2. base' = base /\ debris' = debris
        BY <1>1, <1>2, <4>1
      <4>3. rejected' = rejected
        BY <1>2, <4>1 DEF TypeOK
      <4> QED
        BY <1>1, <4>2, <4>3 DEF disk
    <3>2. \A d \in Controllers \ {c} : WorkInv(d)'
      BY <1>5, <1>12, <3>1, WorkFrame DEF WorkersInv, Only
    <3>3. ASSUME NEW d \in Controllers, pc'[d] \notin Outside PROVE lock' = d
      <4>1. d # c /\ pc[d] \notin Outside
        BY <1>4, <1>5, <3>3 DEF Only
      <4>2. lock = d
        BY <4>1 DEF LockInv
      <4> QED
        BY <1>1, <4>1, <4>2
    <3> QED
      BY <1>21, <3>2, <3>3 DEF WorkersInv, LockInv
  <2> QED
    BY <2>1, <2>2
<1>23. NewInv'
  BY <1>1, <1>5, <1>7, NewFrame DEF Preparing
<1> QED
  BY <1>10, <1>12, <1>17, <1>20, <1>22, <1>23

(***************************************************************************)
(* Every step                                                              *)
(***************************************************************************)
LEMMA Stutters ==
    ASSUME Inv, UNCHANGED vars
    PROVE  Inv'
<1>1. UNCHANGED <<disk, lock, pc, job, blamed, launches, probes, kills>> /\ late' \subseteq Roles
  BY DEF vars, world, Inv, TypeOK
<1> QED
  BY <1>1, DeadlineStep

LEMMA InvNext == Inv /\ [Next]_vars => Inv'
<1> SUFFICES ASSUME Inv, [Next]_vars PROVE Inv'
  OBVIOUS
<1>1. ASSUME NEW c \in Controllers, Advance(c) PROVE Inv'
  <2>1. CASE \/ Prepare(c) \/ PrepareBusy(c) \/ LoadNothing(c) \/ LoadUnreadable(c)
             \/ PersistRejection(c) \/ Replay(c) \/ BlockAmbiguous(c) \/ Load(c)
    BY <2>1, PrepareStep, PrepareBusyStep, LoadNothingStep, LoadUnreadableStep,
       PersistRejectionStep, ReplayStep, BlockAmbiguousStep, LoadStep
  <2>2. CASE \/ WritePending(c) \/ WriteArtifacts(c) \/ WriteConflict(c)
             \/ WriteTransition(c) \/ WriteSnapshot(c) \/ Committed(c)
    BY <2>2, WritePendingStep, WriteArtifactsStep, WriteConflictStep, WriteTransitionStep,
       WriteSnapshotStep, CommittedStep
  <2>3. CASE \/ Status(c) \/ Admit(c) \/ ProbeStart(c) \/ Probe(c) \/ ProbeEnd(c)
             \/ Packet(c) \/ Dispatch(c) \/ Launch(c)
    BY <2>3, StatusStep, AdmitStep, ProbeStartStep, ProbeStep, ProbeEndStep, PacketStep,
       DispatchStep, LaunchStep
  <2>4. CASE \/ \E outcome \in {"valid", "invalid", "failed"} : AgentEnds(c, outcome)
             \/ Reenter(c) \/ LoseOutcome(c) \/ Record(c) \/ Verify(c)
    BY <2>4, AgentEndsStep, ReenterStep, LoseOutcomeStep, RecordStep, VerifyStep
  <2> QED
    BY <1>1, <2>1, <2>2, <2>3, <2>4 DEF Advance
<1>2. ASSUME NEW c \in Controllers, Ask(c) PROVE Inv'
  <2>1. CASE OpenNew(c)
    BY <2>1, OpenNewStep
  <2>2. CASE \E cmd \in {"status", "admit", "verify"} : Enter(c, cmd, NoRole)
    BY <2>2, EnterStep
  <2>3. CASE \E cmd \in {"packet", "dispatch"}, r \in Roles : Enter(c, cmd, r)
    BY <2>3, EnterStep
  <2> QED
    BY <1>2, <2>1, <2>2, <2>3 DEF Ask
<1>3. ASSUME NEW r \in Roles, Deadline(r) PROVE Inv'
  BY <1>3, DeadlineStep DEF Deadline, Inv, TypeOK
<1> QED
  BY <1>1, <1>2, <1>3, KillStep, Stutters DEF Next

LEMMA Invariance == Spec => []Inv
<1>1. Init => Inv
  BY InvInit
<1>2. Inv /\ [Next]_vars => Inv'
  BY InvNext
<1> QED
  BY <1>1, <1>2, PTL DEF Spec

(***************************************************************************)
(* Theorems                                                                *)
(***************************************************************************)

\* The ledger, the transaction and the jobs of the controllers keep their types.
THEOREM TypeCorrect == Spec => []TypeOK
<1>1. Inv => TypeOK
  BY DEF Inv
<1> QED
  BY <1>1, Invariance, PTL

\* A cohort is rejected for good only when a bound document changed, another
\* grant was presented, or a killed write damaged the ledger itself.
THEOREM RejectionsExplained == Spec => []RejectExplained
<1>1. Inv => RejectExplained
  BY DEF Inv, LedgerInv, Sound, SoundFor, Explained, Damaged, RejectExplained
<1> QED
  BY <1>1, Invariance, PTL

\* What is pending can be replayed, but for a file with two names and a second
\* preparation, and what is committed agrees with the ledger and run.json.
THEOREM PendingAlwaysFits == Spec => []PendingFits
<1>1. Inv => PendingFits
  BY DEF Inv, LedgerInv, PendingInv, Fitting, PendingFits, Ambiguous, TypeOK, Pending
<1> QED
  BY <1>1, Invariance, PTL

\* The probe and every attempt's agent are started at most once, within the
\* budget of calls, and the verifier after the intakes are frozen.
THEOREM AgentsAccountedFor == Spec => []AgentsAccounted
<1>1. Inv => AgentsAccounted
  <2> SUFFICES ASSUME Inv PROVE AgentsAccounted
    OBVIOUS
  <2> USE DEF Inv
  <2> DEFINE started == {i \in Roles \X Attempts : launches[i[1]][i[2]] > 0}
  <2>1. probes <= 1 /\ Sound(head)
    BY DEF LedgerInv
  <2>2. \A r \in Roles, n \in Attempts :
           launches[r][n] <= 1 /\ (launches[r][n] > 0 => n <= head.roles[r].attempts)
    BY DEF LaunchInv
  <2>3. started \subseteq IssuedOf(head)
    BY <2>2 DEF IssuedOf
  <2>4. IsFiniteSet(IssuedOf(head)) /\ Cardinality(IssuedOf(head)) \in Nat
    BY IssuedFinite
  <2>5. Cardinality(started) <= Cardinality(IssuedOf(head)) /\ Cardinality(started) \in Nat
    BY <2>3, <2>4, FS_Subset, FS_CardinalityType
  <2>6. Cardinality(IssuedOf(head)) <= MaxCalls
    BY <2>1 DEF Sound, SoundFor
  <2>7. Cardinality(started) <= MaxCalls
    BY <2>4, <2>5, <2>6, CohortAssumption
  <2>8. launches[Verifier][1] > 0 => IntakesFrozen
    <3>1. Verifier \in Roles /\ 1 \in Attempts
      BY DEF Roles, Attempts
    <3>2. head.roles[Verifier].attempts \in 0 .. 2
      BY <3>1 DEF TypeOK, Body, RoleRecord
    <3>3. launches[Verifier][1] > 0 => head.roles[Verifier].attempts > 0
      BY <2>2, <3>1, <3>2
    <3> QED
      BY <2>1, <3>3 DEF Sound, SoundFor, Frozen, IntakesFrozen
  <2> QED
    BY <2>1, <2>2, <2>7, <2>8 DEF AgentsAccounted
<1> QED
  BY <1>1, Invariance, PTL

\* A frozen intake was admitted by a probe under an authority, and each of its
\* results is that of the one agent started for the attempt.
THEOREM FrozenIntakeIsEarned == Spec => []FrozenIsEarned
<1>1. Inv => FrozenIsEarned
  BY DEF Inv, LedgerInv, Sound, SoundFor, FrozenIsEarned
<1> QED
  BY <1>1, Invariance, PTL

\* The pending record changes when a command writes it, or marks it committed.
LEMMA PendingChanges ==
    ASSUME Next, pending' # pending
    PROVE  \E c \in Controllers : WritePending(c) \/ Committed(c)
<1>1. ASSUME NEW c \in Controllers, Advance(c) PROVE WritePending(c) \/ Committed(c)
  BY <1>1 DEF Advance, Prepare, PrepareBusy, LoadNothing, LoadUnreadable, PersistRejection, Replay,
       BlockAmbiguous, Load, WriteArtifacts, WriteConflict, WriteTransition, WriteSnapshot,
       Status, Admit, ProbeStart, Probe, ProbeEnd, Packet, Dispatch, Launch, AgentEnds, Reenter,
       LoseOutcome, Record, Verify, Decides, disk
<1>2. \A c \in Controllers : ~Ask(c) /\ ~Kill(c)
  BY DEF Ask, OpenNew, Enter, Kill, disk
<1>3. \A r \in Roles : ~Deadline(r)
  BY DEF Deadline, disk
<1> QED
  BY <1>1, <1>2, <1>3 DEF Next

\* A recorded transaction reaches the ledger before the record is given up,
\* except for one that cannot be replayed and under a second preparation.
THEOREM TransactionsAreKept == Spec => TransactionKept
<1>1. Inv /\ [Next]_vars =>
        [pending.status = "pending" /\ pending' # pending
           => \/ pending.gen = gen /\ pending.body = head
              \/ Ambiguous
              \/ pending'.gen = 1]_vars
  <2> SUFFICES ASSUME Inv, Next, pending.status = "pending", pending' # pending
               PROVE  \/ pending.gen = gen /\ pending.body = head
                      \/ Ambiguous
                      \/ pending'.gen = 1
    BY DEF vars, disk
  <2>1. PICK c \in Controllers : WritePending(c) \/ Committed(c)
    BY PendingChanges
  <2>2. CASE WritePending(c)
    BY <2>2 DEF WritePending, Inv, WorkersInv, WorkInv
  <2>3. CASE Committed(c)
    BY <2>3 DEF Committed, Inv, WorkersInv, WorkInv
  <2> QED
    BY <2>1, <2>2, <2>3
<1> QED
  BY <1>1, Invariance, PTL DEF Spec, TransactionKept

\* The last body of the ledger and the rejection change in three steps only.
LEMMA LedgerChanges ==
    ASSUME Next, head' # head \/ rejected' # rejected
    PROVE  \E c \in Controllers :
              \/ WriteTransition(c)
              \/ PersistRejection(c) /\ head' = head
              \/ Kill(c) /\ head' = head
<1>1. ASSUME NEW c \in Controllers, Advance(c)
      PROVE  WriteTransition(c) \/ (PersistRejection(c) /\ head' = head)
  BY <1>1 DEF Advance, Prepare, PrepareBusy, LoadNothing, LoadUnreadable, PersistRejection, Replay,
       BlockAmbiguous, Load, WritePending, WriteArtifacts, WriteConflict, WriteSnapshot,
       Committed, Status, Admit, ProbeStart, Probe, ProbeEnd, Packet, Dispatch, Launch, AgentEnds,
       Reenter, LoseOutcome, Record, Verify, Decides, disk
<1>2. \A c \in Controllers : ~Ask(c) /\ (Kill(c) => head' = head)
  BY DEF Ask, OpenNew, Enter, Kill, disk
<1>3. \A r \in Roles : ~Deadline(r)
  BY DEF Deadline, disk
<1> QED
  BY <1>1, <1>2, <1>3 DEF Next

\* A terminal state and a frozen result are final, whatever agents report late
\* and wherever commands are killed.
THEOREM OutcomesAreFinal == Spec => OutcomesStand
<1>1. Inv /\ [Next]_vars =>
        [/\ head.state \in Terminal => head' = head /\ rejected' = rejected
         /\ \A r \in Roles : head.roles[r].status = "result_frozen"
                                => head'.roles[r] = head.roles[r]]_vars
  <2> SUFFICES ASSUME Inv, Next, head' # head \/ rejected' # rejected
               PROVE  /\ head.state \notin Terminal
                      /\ \A r \in Roles : head.roles[r].status = "result_frozen"
                                             => head'.roles[r] = head.roles[r]
    BY DEF vars, disk
  <2> USE DEF Inv
  <2>1. PICK c \in Controllers : \/ WriteTransition(c)
                                 \/ PersistRejection(c) /\ head' = head
                                 \/ Kill(c) /\ head' = head
    BY LedgerChanges
  <2>2. CASE WriteTransition(c)
    <3>1. Fitting /\ head' = pending.body /\ rejected' = rejected
      BY <2>2 DEF WriteTransition, WorkersInv, WorkInv, Writing
    <3>2. Succeeds(head, head')
      BY <2>2, <3>1 DEF Fitting
    <3> QED
      BY <3>2 DEF Succeeds, RoleStep
  <2>3. CASE PersistRejection(c) /\ head' = head
    BY <2>3 DEF PersistRejection, WorkersInv, WorkInv, LedgerInv
  <2>4. CASE Kill(c) /\ head' = head
    <3>1. PICK left \in Left(c) : rejected' = (rejected \/ left = {"rejection"})
      BY <2>4 DEF Kill
    <3>2. left = {"rejection"} => pc[c] = "reject"
      BY <3>1 DEF Left
    <3>3. pc[c] = "reject"
      BY <2>4, <3>1, <3>2 DEF TypeOK
    <3> QED
      BY <2>4, <3>3 DEF WorkersInv, WorkInv, LedgerInv
  <2> QED
    BY <2>1, <2>2, <2>3, <2>4
<1> QED
  BY <1>1, Invariance, PTL DEF Spec, OutcomesStand
=============================================================================

---------------------------- MODULE TriggerAgent ----------------------------
(***************************************************************************)
(* trigger-agent runs and the circuit breaker.                             *)
(*                                                                         *)
(* A run takes the wiki lock, asks the breaker, prepares a prompt, hands   *)
(* it to an agent and records the outcome in the breaker file.  Every      *)
(* change of that file loads it and later replaces it, and --reset-breaker *)
(* replaces it at any time, without the lock.  Time is an age: the time    *)
(* since a timestamp was taken, up to TTL, where it has expired; a missing *)
(* timestamp counts as expired, and a count of failures stops at Limit.    *)
(***************************************************************************)
EXTENDS Naturals

CONSTANTS
    Runs,           \* processes running trigger-agent
    Limit,          \* MAX_CONSECUTIVE_FAILURES
    TTL,            \* automatic recovery delay; 0: no automatic recovery
    MaxRunKills,    \* bound on the runs killed
    NoRun

ASSUME TriggerAssumption ==
    /\ NoRun \notin Runs
    /\ Limit \in Nat \ {0} /\ TTL \in Nat /\ MaxRunKills \in Nat

VARIABLES
    breaker,        \* the breaker file
    wikiLock,       \* holder of the wiki lock
    step,           \* where each run is
    saving,         \* the breaker state a run is about to save
    runKills,       \* runs killed so far
    sinceClaim,     \* age of the last recovery probe that was admitted
    streak          \* failures recorded since the last success

triggerVars == <<breaker, wikiLock, step, saving, runKills, sinceClaim, streak>>

Min2(a, b) == IF a < b THEN a ELSE b

Expired == TTL

Default == [failures |-> 0, state |-> "closed", failedAge |-> Expired, probeAge |-> Expired]

Reach(p, label) == step' = [step EXCEPT ![p] = label]

\* WikiLock: a busy lock makes the run a successful skip, so nothing happens.
Arrive(p) ==
    /\ step[p] = "idle"
    /\ wikiLock = NoRun
    /\ wikiLock' = p
    /\ Reach(p, "check")
    /\ UNCHANGED <<breaker, saving, runKills, sinceClaim, streak>>

Leave(p) == wikiLock' = NoRun /\ Reach(p, "idle")

\* Mutant of Blocks: an abandoned probe blocks for ever.
BlocksProbe ==
    \/ breaker.state = "half-open"
    \/ breaker.state = "open" /\ (TTL = 0 \/ breaker.failedAge < TTL)

\* An open breaker blocks until its last failure has expired, a half-open one
\* until its probe has.
Blocks ==
    \/ breaker.state = "half-open" /\ (TTL = 0 \/ breaker.probeAge < TTL)
    \/ breaker.state = "open" /\ (TTL = 0 \/ breaker.failedAge < TTL)

Blocked(p) ==
    /\ step[p] = "check"
    /\ Blocks
    /\ Leave(p)
    /\ UNCHANGED <<breaker, saving, runKills, sinceClaim, streak>>

Admitted(p) ==
    /\ step[p] = "check"
    /\ breaker.state = "closed"
    /\ Reach(p, "prepare")
    /\ UNCHANGED <<breaker, wikiLock, saving, runKills, sinceClaim, streak>>

\* Mutant of Claim: the probe is dated and the breaker stays open.
ClaimUnmarked(p) ==
    /\ step[p] = "check"
    /\ breaker.state # "closed" /\ ~Blocks
    /\ saving' = [saving EXCEPT ![p] = [breaker EXCEPT !.probeAge = 0]]
    /\ Reach(p, "claim")
    /\ UNCHANGED <<breaker, wikiLock, runKills, sinceClaim, streak>>

Claim(p) ==
    /\ step[p] = "check"
    /\ breaker.state # "closed" /\ ~Blocks
    /\ saving' = [saving EXCEPT ![p] = [breaker EXCEPT !.state = "half-open", !.probeAge = 0]]
    /\ Reach(p, "claim")
    /\ UNCHANGED <<breaker, wikiLock, runKills, sinceClaim, streak>>

SaveClaim(p) ==
    /\ step[p] = "claim"
    /\ breaker' = saving[p]
    /\ sinceClaim' = saving[p].probeAge
    /\ Reach(p, "prepare")
    /\ UNCHANGED <<wikiLock, saving, runKills, streak>>

\* Nothing changed, nothing selected, or a diff or a prompt beyond its limit.
Skip(p) ==
    /\ step[p] = "prepare"
    /\ Leave(p)
    /\ UNCHANGED <<breaker, saving, runKills, sinceClaim, streak>>

StartAgent(p) ==
    /\ step[p] = "prepare"
    /\ Reach(p, "agent")
    /\ UNCHANGED <<breaker, wikiLock, saving, runKills, sinceClaim, streak>>

\* Mutant of AfterSuccess: success closes the breaker and keeps the count.
AfterSuccessCounted == [Default EXCEPT !.failures = breaker.failures]

AfterSuccess == Default

\* record_success replaces every field.
Succeed(p) ==
    /\ step[p] = "agent"
    /\ breaker' = AfterSuccess
    /\ streak' = 0
    /\ Leave(p)
    /\ UNCHANGED <<saving, runKills, sinceClaim>>

\* Preparation raised, the agent failed, timed out or could not be started:
\* record_failure loads the breaker ...
Fail(p) ==
    /\ step[p] \in {"prepare", "agent"}
    /\ LET failures == Min2(breaker.failures + 1, Limit)
           opens == breaker.state = "half-open" \/ failures >= Limit
       IN  saving' = [saving EXCEPT ![p] =
               [failures |-> failures, failedAge |-> 0, probeAge |-> Expired,
                state |-> IF opens THEN "open" ELSE breaker.state]]
    /\ Reach(p, "fail")
    /\ UNCHANGED <<breaker, wikiLock, runKills, sinceClaim, streak>>

\* ... and saves it.
SaveFailure(p) ==
    /\ step[p] = "fail"
    /\ breaker' = saving[p]
    /\ streak' = Min2(streak + 1, Limit)
    /\ Leave(p)
    /\ UNCHANGED <<saving, runKills, sinceClaim>>

\* The process dies or is interrupted from the keyboard, and the lock with it.
KillRun(p) ==
    /\ step[p] # "idle" /\ runKills < MaxRunKills
    /\ runKills' = runKills + 1
    /\ Leave(p)
    /\ UNCHANGED <<breaker, saving, sinceClaim, streak>>

\* trigger-agent --reset-breaker, without the lock.
ResetBreaker ==
    /\ breaker' = Default
    /\ UNCHANGED <<wikiLock, step, saving, runKills, sinceClaim, streak>>

Older(age) == Min2(age + 1, Expired)

Aged(b) == [b EXCEPT !.failedAge = Older(@), !.probeAge = Older(@)]

Tick ==
    /\ breaker' = Aged(breaker)
    /\ saving' = [p \in Runs |-> Aged(saving[p])]
    /\ sinceClaim' = Older(sinceClaim)
    /\ UNCHANGED <<wikiLock, step, runKills, streak>>

TriggerInit ==
    /\ breaker = Default
    /\ wikiLock = NoRun
    /\ step = [p \in Runs |-> "idle"]
    /\ saving = [p \in Runs |-> Default]
    /\ runKills = 0
    /\ sinceClaim = Expired
    /\ streak = 0

Progress(p) ==
    \/ Blocked(p) \/ Admitted(p) \/ Claim(p) \/ SaveClaim(p)
    \/ Skip(p) \/ StartAgent(p) \/ Succeed(p) \/ Fail(p) \/ SaveFailure(p)

TriggerNext ==
    \/ \E p \in Runs : Arrive(p) \/ Progress(p) \/ KillRun(p)
    \/ ResetBreaker
    \/ Tick

TriggerSpec == TriggerInit /\ [][TriggerNext]_triggerVars

\* Somebody keeps triggering, a run that started goes on, and time passes.
Triggering ==
    /\ \A p \in Runs : SF_triggerVars(Arrive(p)) /\ WF_triggerVars(Progress(p))
    /\ WF_triggerVars(Tick)

TriggerFairSpec == TriggerSpec /\ Triggering

(***************************************************************************)
(* Properties                                                              *)
(***************************************************************************)

Ages == 0 .. TTL

BreakerState ==
    [failures : 0 .. Limit, state : {"closed", "open", "half-open"},
     failedAge : Ages, probeAge : Ages]

\* Type invariant of the model.
TriggerTypeOK ==
    /\ breaker \in BreakerState
    /\ wikiLock \in Runs \cup {NoRun}
    /\ step \in [Runs -> {"idle", "check", "claim", "prepare", "agent", "fail"}]
    /\ saving \in [Runs -> BreakerState]
    /\ runKills \in 0 .. MaxRunKills
    /\ sinceClaim \in Ages
    /\ streak \in 0 .. Limit

\* Recovery probes start at least TTL apart, whatever is reset, skipped, killed
\* or recorded between them; with TTL 0 there is none.
ProbesSpaced ==
    [][\A p \in Runs : step[p] = "check" /\ step'[p] = "claim"
          => TTL > 0 /\ sinceClaim = TTL]_triggerVars

\* Only Limit failed runs without a success between them make the breaker block,
\* and a reset that races a run's recording cannot add to them.
OpenOnlyAfterFailures == breaker.state # "closed" => streak = Limit

\* The breaker never blocks for good: as long as runs are triggered it closes
\* or admits one, also after the probe that was to decide has been killed.
NeverWedged ==
    []<>(breaker.state = "closed" \/ \E p \in Runs : step[p] \in {"prepare", "agent"})
=============================================================================

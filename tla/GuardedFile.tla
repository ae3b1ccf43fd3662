---------------------------- MODULE GuardedFile ----------------------------
(***************************************************************************)
(* The guarded file operations of filesystem_guard (POSIX): create,        *)
(* replace, overwrite and unlink of one target name, run by processes that *)
(* share no lock with each other or with the editors of the file.          *)
(*                                                                         *)
(* An operation with expected bytes never checks and then replaces: it     *)
(* renames the target to a private quarantine name, reads what it claimed, *)
(* and only then links its staged file to the free target name.  The model *)
(* keeps inodes, because what matters is which file a name refers to and   *)
(* how many names a file has.  Names left behind by a dead process or by a *)
(* restore that found the target taken stay in the directory for good.     *)
(***************************************************************************)
EXTENDS FiniteSets, Naturals

CONSTANTS
    Procs,      \* processes that run guarded operations
    Inodes,     \* files
    Contents,   \* what a file may contain
    Singles,    \* values of require_single_link in use
    MaxEdits,   \* bound on the steps of editors
    MaxDeaths,  \* bound on the processes killed
    None

ASSUME FileAssumption ==
    /\ None \notin Inodes /\ None \notin Contents
    /\ Singles \subseteq BOOLEAN
    /\ MaxEdits \in Nat /\ MaxDeaths \in Nat

VARIABLES
    content,    \* what each file contains
    target,     \* the file the target name refers to, or None
    temp,       \* the staged file of each process
    quar,       \* the file each process has claimed
    left,       \* files that an abandoned private name refers to
    pc, op,     \* where each process is, and in which operation
    edits, deaths,
    owed,       \* files put at the target that nobody chose to give up
    wanted      \* is the target meant to exist, by what was last done to it

vars == <<content, target, temp, quar, left, pc, op, edits, deaths, owed, wanted>>

Names(i) ==
    (IF target = i THEN {<<"target">>} ELSE {}) \cup (IF i \in left THEN {<<"left">>} ELSE {})
      \cup {<<"temp", p>> : p \in {r \in Procs : temp[r] = i}}
      \cup {<<"quar", p>> : p \in {r \in Procs : quar[r] = i}}

Links(i) == Cardinality(Names(i))

Free == {i \in Inodes : Names(i) = {} /\ i \notin owed}

NoOp == [kind |-> "none", expected |-> None, data |-> None, single |-> FALSE, file |-> None]

Goto(p, label) == pc' = [pc EXCEPT ![p] = label]

\* Some caller reads the target, or misses it, and decides what to do with it.
Begin(p) ==
    /\ pc[p] = "idle"
    /\ \E s \in Singles, d \in Contents :
         LET seen == IF target = None THEN None ELSE content[target]
             Do(kind, expected) ==
                op' = [op EXCEPT ![p] = [kind |-> kind, expected |-> expected, data |-> d,
                                         single |-> s, file |-> None]]
         IN  \/ Do("overwrite", None) /\ Goto(p, "inspect")
             \/ seen = None /\ Do("create", None) /\ Goto(p, "inspect")
             \/ seen # None /\ Do("replace", seen) /\ Goto(p, "inspect")
             \/ seen # None /\ Do("unlink", seen) /\ Goto(p, "claim")
    /\ UNCHANGED <<content, target, temp, quar, left, edits, deaths, owed, wanted>>

\* The checks before anything is written.
Acceptable(p) ==
    /\ target # None /\ op[p].single => Links(target) = 1
    /\ op[p].kind = "create" => target = None
    /\ op[p].kind = "replace" => target # None /\ content[target] = op[p].expected

Inspect(p) ==
    /\ pc[p] = "inspect"
    /\ Goto(p, IF Acceptable(p) THEN "stage" ELSE "fail")
    /\ UNCHANGED <<content, target, temp, quar, left, op, edits, deaths, owed, wanted>>

Stage(p) ==
    /\ pc[p] = "stage"
    /\ \E i \in Free :
          /\ content' = [content EXCEPT ![i] = op[p].data]
          /\ temp' = [temp EXCEPT ![p] = i]
          /\ op' = [op EXCEPT ![p].file = i]
    /\ Goto(p, CASE op[p].kind = "create" -> "link"
                 [] op[p].kind = "replace" -> "claim"
                 [] OTHER -> "rename")
    /\ UNCHANGED <<target, quar, left, edits, deaths, owed, wanted>>

\* Without expected bytes: whatever is at the target is replaced.
Rename(p) ==
    /\ pc[p] = "rename"
    /\ target' = temp[p]
    /\ temp' = [temp EXCEPT ![p] = None]
    /\ owed' = (owed \ {target}) \cup {temp[p]}
    /\ wanted' = TRUE
    /\ Goto(p, "confirm")
    /\ UNCHANGED <<content, quar, left, op, edits, deaths>>

\* Mutant of Claim: the target is taken to be what was inspected.
ClaimUnverified(p) ==
    /\ pc[p] = "claim"
    /\ IF target = None
       THEN Goto(p, "fail") /\ UNCHANGED <<target, quar>>
       ELSE /\ target' = None
            /\ quar' = [quar EXCEPT ![p] = target]
            /\ Goto(p, IF op[p].kind = "unlink" THEN "discard" ELSE "link")
    /\ UNCHANGED <<content, temp, left, op, edits, deaths, owed, wanted>>

Claim(p) ==
    /\ pc[p] = "claim"
    /\ IF target = None
       THEN Goto(p, "fail") /\ UNCHANGED <<target, quar>>
       ELSE /\ target' = None
            /\ quar' = [quar EXCEPT ![p] = target]
            /\ Goto(p, "verify")
    /\ UNCHANGED <<content, temp, left, op, edits, deaths, owed, wanted>>

Verify(p) ==
    /\ pc[p] = "verify"
    /\ LET as_expected ==
              /\ content[quar[p]] = op[p].expected
              /\ op[p].kind = "replace" /\ op[p].single => Links(quar[p]) = 1
       IN  Goto(p, CASE ~as_expected -> "fail"
                     [] as_expected /\ op[p].kind = "unlink" -> "discard"
                     [] OTHER -> "link")
    /\ UNCHANGED <<content, target, temp, quar, left, op, edits, deaths, owed, wanted>>

\* os.link: an entry that appeared meanwhile makes the operation fail.
Link(p) ==
    /\ pc[p] = "link"
    /\ IF target = None
       THEN /\ target' = temp[p]
            /\ owed' = owed \cup {temp[p]}
            /\ wanted' = TRUE
            /\ Goto(p, "unstage")
       ELSE UNCHANGED <<target, owed, wanted>> /\ Goto(p, "fail")
    /\ UNCHANGED <<content, temp, quar, left, op, edits, deaths>>

Unstage(p) ==
    /\ pc[p] = "unstage"
    /\ temp' = [temp EXCEPT ![p] = None]
    /\ Goto(p, "confirm")
    /\ UNCHANGED <<content, target, quar, left, op, edits, deaths, owed, wanted>>

Confirm(p) ==
    /\ pc[p] = "confirm"
    /\ LET installed == target = op[p].file /\ (op[p].single => Links(target) = 1)
       IN  Goto(p, IF installed THEN "discard" ELSE "fail")
    /\ UNCHANGED <<content, target, temp, quar, left, op, edits, deaths, owed, wanted>>

\* The claimed file, verified, is given up; the operation has succeeded.
Discard(p) ==
    /\ pc[p] = "discard"
    /\ owed' = IF quar[p] # None /\ content[quar[p]] = op[p].expected
               THEN owed \ {quar[p]} ELSE owed
    /\ wanted' = IF op[p].kind = "unlink" THEN target # None ELSE wanted
    /\ quar' = [quar EXCEPT ![p] = None]
    /\ op' = [op EXCEPT ![p] = NoOp]
    /\ Goto(p, "idle")
    /\ UNCHANGED <<content, target, temp, left, edits, deaths>>

\* Cleanup of a failed operation: the staged file goes first ...
Fail(p) ==
    /\ pc[p] = "fail"
    /\ temp' = [temp EXCEPT ![p] = None]
    /\ Goto(p, "restore")
    /\ UNCHANGED <<content, target, quar, left, op, edits, deaths, owed, wanted>>

\* Mutant of Restore: the claimed file is put back over whatever is there.
RestoreReplacing(p) ==
    /\ pc[p] = "restore"
    /\ target' = IF quar[p] = None THEN target ELSE quar[p]
    /\ wanted' = (wanted \/ quar[p] # None)
    /\ Goto(p, "release")
    /\ UNCHANGED <<content, temp, quar, left, op, edits, deaths, owed>>

\* Mutant of Restore: the claimed file stays under its private name.
RestoreNothing(p) ==
    /\ pc[p] = "restore"
    /\ left' = left \cup ({quar[p]} \ {None})
    /\ Goto(p, "release")
    /\ UNCHANGED <<content, target, temp, quar, op, edits, deaths, owed, wanted>>

\* ... and the claimed one is linked back, or kept if the target is taken.
Restore(p) ==
    /\ pc[p] = "restore"
    /\ IF quar[p] # None /\ target = None
       THEN target' = quar[p] /\ wanted' = TRUE /\ UNCHANGED left
       ELSE left' = left \cup ({quar[p]} \ {None}) /\ UNCHANGED <<target, wanted>>
    /\ Goto(p, "release")
    /\ UNCHANGED <<content, temp, quar, op, edits, deaths, owed>>

Release(p) ==
    /\ pc[p] = "release"
    /\ quar' = [quar EXCEPT ![p] = None]
    /\ op' = [op EXCEPT ![p] = NoOp]
    /\ Goto(p, "idle")
    /\ UNCHANGED <<content, target, temp, left, edits, deaths, owed, wanted>>

\* Any call of an operation may fail, or the process be interrupted.
Interrupt(p) ==
    /\ pc[p] \in {"inspect", "stage", "rename", "claim", "verify", "link", "unstage",
                  "confirm", "discard"}
    /\ Goto(p, "fail")
    /\ UNCHANGED <<content, target, temp, quar, left, op, edits, deaths, owed, wanted>>

\* The process is killed and its private names stay in the directory.
Die(p) ==
    /\ pc[p] # "idle" /\ deaths < MaxDeaths
    /\ deaths' = deaths + 1
    /\ left' = left \cup ({temp[p], quar[p]} \ {None})
    /\ temp' = [temp EXCEPT ![p] = None]
    /\ quar' = [quar EXCEPT ![p] = None]
    /\ op' = [op EXCEPT ![p] = NoOp]
    /\ Goto(p, "idle")
    /\ UNCHANGED <<content, target, edits, owed, wanted>>

\* An editor saves over the target by a rename of its own ...
SaveByRename ==
    \E i \in Free, c \in Contents :
       /\ content' = [content EXCEPT ![i] = c]
       /\ target' = i
       /\ owed' = (owed \ {target}) \cup {i}
       /\ wanted' = TRUE

\* ... or in place ...
SaveInPlace ==
    /\ target # None
    /\ \E c \in Contents : content' = [content EXCEPT ![target] = c]
    /\ UNCHANGED <<target, owed, wanted>>

\* ... or removes the target.
Remove ==
    /\ target # None
    /\ target' = None
    /\ owed' = owed \ {target}
    /\ wanted' = FALSE
    /\ UNCHANGED content

Edit ==
    /\ edits < MaxEdits
    /\ edits' = edits + 1
    /\ SaveByRename \/ SaveInPlace \/ Remove
    /\ UNCHANGED <<temp, quar, left, pc, op, deaths>>

Init ==
    /\ content \in {[i \in Inodes |-> c] : c \in Contents}
    /\ \E i \in Inodes : target = i /\ owed = {i}
    /\ temp = [p \in Procs |-> None] /\ quar = [p \in Procs |-> None]
    /\ left = {}
    /\ pc = [p \in Procs |-> "idle"]
    /\ op = [p \in Procs |-> NoOp]
    /\ edits = 0 /\ deaths = 0
    /\ wanted = TRUE

Work(p) ==
    \/ Inspect(p) \/ Stage(p) \/ Rename(p) \/ Claim(p) \/ Verify(p) \/ Link(p)
    \/ Unstage(p) \/ Confirm(p) \/ Discard(p) \/ Fail(p) \/ Restore(p) \/ Release(p)

Next ==
    \/ \E p \in Procs : Begin(p) \/ Work(p) \/ Interrupt(p) \/ Die(p)
    \/ Edit

Spec == Init /\ [][Next]_vars

(***************************************************************************)
(* Properties                                                              *)
(***************************************************************************)

Labels == {"idle", "inspect", "stage", "rename", "claim", "verify", "link", "unstage",
           "confirm", "discard", "fail", "restore", "release"}

Operation ==
    [kind : {"none", "create", "replace", "overwrite", "unlink"},
     expected : Contents \cup {None}, data : Contents \cup {None},
     single : BOOLEAN, file : Inodes \cup {None}]

\* Type invariant of the model.
TypeOK ==
    /\ content \in [Inodes -> Contents]
    /\ target \in Inodes \cup {None}
    /\ temp \in [Procs -> Inodes \cup {None}]
    /\ quar \in [Procs -> Inodes \cup {None}]
    /\ left \in SUBSET Inodes
    /\ pc \in [Procs -> Labels]
    /\ op \in [Procs -> Operation]
    /\ edits \in 0 .. MaxEdits /\ deaths \in 0 .. MaxDeaths
    /\ owed \in SUBSET Inodes /\ wanted \in BOOLEAN

\* Nothing that was ever saved at the target is erased unless an editor or an
\* overwrite replaced it there, or an operation that expected exactly its bytes
\* completed: what a race or a failure displaces is still in the directory.
NothingErased == \A i \in owed : Names(i) # {}

\* When nobody is at work and nobody was killed, the target is missing only
\* if it was deleted: every failed operation puts back what it claimed.
FailurePutsBack ==
    deaths = 0 /\ wanted /\ (\A p \in Procs : pc[p] = "idle") => target # None
=============================================================================

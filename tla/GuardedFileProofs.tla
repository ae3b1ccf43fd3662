------------------------- MODULE GuardedFileProofs -------------------------
(***************************************************************************)
(* Proofs that guarded file operations erase nothing, and that one which   *)
(* fails puts the target back, for any number of processes, files, saves   *)
(* by editors and kills.                                                   *)
(***************************************************************************)
EXTENDS GuardedFile, TLAPS

\* Where a process is in the life of its staged and of its claimed file.
Deciding == {"idle", "inspect", "stage", "rename", "claim"}
Unpublished == {"rename", "claim", "verify", "link"}
Verified == {"link", "unstage", "confirm", "discard"}

\* An operation claims once, and has staged before it publishes.
Orderly ==
    \A p \in Procs :
       /\ pc[p] \in Deciding => quar[p] = None
       /\ pc[p] \in {"idle", "inspect", "stage", "confirm", "discard", "restore", "release"}
            => temp[p] = None
       /\ pc[p] \in {"claim", "verify"} /\ op[p].kind = "unlink" => temp[p] = None
       /\ pc[p] \in {"inspect", "stage"} => op[p].data \in Contents
       /\ pc[p] \in {"inspect", "stage"} => op[p].kind # "unlink"
       /\ pc[p] \in {"claim", "verify"} => op[p].kind \in {"replace", "unlink"}
       /\ pc[p] \in {"claim", "verify"} /\ op[p].kind = "replace" => temp[p] # None
       /\ pc[p] \in {"rename", "link"} => temp[p] # None

\* A staged file that is not published yet has no other name, and no two
\* processes stage the same one.
TempsPrivate ==
    \A p, q \in Procs :
       temp[p] # None =>
          /\ p # q => temp[p] # temp[q]
          /\ pc[p] \in Unpublished => temp[p] # target /\ temp[p] # quar[q]

\* A claimed file is nobody else's and not at the target, up to its restoration.
ClaimsExclusive ==
    \A p, q \in Procs :
       quar[p] # None /\ pc[p] # "release" =>
          /\ quar[p] # target
          /\ p # q /\ pc[q] # "release" => quar[p] # quar[q]

\* What was verified stays as it was verified.
ClaimsVerified ==
    \A p \in Procs :
       pc[p] \in Verified /\ quar[p] # None => content[quar[p]] = op[p].expected

\* Every file owed to somebody has a name that its owner is not about to drop.
Kept(i) ==
    \/ target = i
    \/ i \in left
    \/ \E p \in Procs : quar[p] = i /\ pc[p] # "release"

OwedKept == \A i \in owed : Kept(i)

IInv ==
    /\ TypeOK /\ Orderly /\ TempsPrivate /\ ClaimsExclusive /\ ClaimsVerified /\ OwedKept

\* A file that may be staged has no name and is owed to nobody.
LEMMA FreeNameless ==
    ASSUME NEW i \in Free
    PROVE  /\ i \in Inodes /\ i \notin owed /\ target # i /\ i \notin left
           /\ \A p \in Procs : temp[p] # i /\ quar[p] # i
<1>1. Names(i) = {} /\ i \in Inodes /\ i \notin owed
  BY DEF Free
<1>2. target # i /\ i \notin left
  BY <1>1 DEF Names
<1>3. ASSUME NEW p \in Procs, temp[p] = i PROVE FALSE
  <2>1. <<"temp", p>> \in Names(i)
    BY <1>3 DEF Names
  <2> QED
    BY <1>1, <2>1
<1>4. ASSUME NEW p \in Procs, quar[p] = i PROVE FALSE
  <2>1. <<"quar", p>> \in Names(i)
    BY <1>4 DEF Names
  <2> QED
    BY <1>1, <2>1
<1> QED
  BY <1>1, <1>2, <1>3, <1>4

\* Staging, as the proofs use it.
LEMMA StageDoes ==
    ASSUME TypeOK, NEW p \in Procs, Stage(p)
    PROVE  \E i \in Free :
              /\ content' = [content EXCEPT ![i] = op[p].data]
              /\ temp' = [temp EXCEPT ![p] = i]
              /\ \A q \in Procs : /\ op'[q].kind = op[q].kind
                                  /\ op'[q].expected = op[q].expected
                                  /\ op'[q].data = op[q].data
<1>1. PICK i \in Free : /\ content' = [content EXCEPT ![i] = op[p].data]
                        /\ temp' = [temp EXCEPT ![p] = i]
                        /\ op' = [op EXCEPT ![p].file = i]
  BY DEF Stage
<1>2. \A q \in Procs : op[q] \in Operation
  BY DEF TypeOK
<1>3. \A q \in Procs : q # p => op'[q] = op[q]
  BY <1>1 DEF TypeOK
<1>4. op'[p] = [op[p] EXCEPT !.file = i]
  BY <1>1 DEF TypeOK
<1>5. /\ op'[p].kind = op[p].kind /\ op'[p].expected = op[p].expected
      /\ op'[p].data = op[p].data
  BY <1>2, <1>4 DEF Operation
<1> QED
  BY <1>1, <1>3, <1>5

LEMMA InvInit == Init => IInv
<1> SUFFICES ASSUME Init PROVE IInv
  OBVIOUS
<1> USE FileAssumption DEF Init
<1>1. NoOp \in Operation
  BY DEF NoOp, Operation
<1>2. TypeOK
  BY <1>1 DEF TypeOK, Labels
<1>3. Orderly
  BY DEF Orderly, Deciding
<1>4. TempsPrivate
  BY DEF TempsPrivate
<1>5. ClaimsExclusive
  BY DEF ClaimsExclusive
<1>6. ClaimsVerified
  BY DEF ClaimsVerified
<1>7. OwedKept
  BY DEF OwedKept, Kept
<1> QED
  BY <1>2, <1>3, <1>4, <1>5, <1>6, <1>7 DEF IInv

LEMMA TypeStep == TypeOK /\ Orderly /\ [Next]_vars => TypeOK'
<1> SUFFICES ASSUME TypeOK, Orderly, [Next]_vars PROVE TypeOK'
  OBVIOUS
<1> USE FileAssumption DEF TypeOK, Goto, Labels
<1>0. NoOp \in Operation
  BY DEF NoOp, Operation
<1>1. ASSUME NEW p \in Procs, Begin(p) PROVE TypeOK'
  <2>1. op'[p] \in Operation
    BY <1>1 DEF Begin, Operation
  <2>2. \E o : op' = [op EXCEPT ![p] = o]
    BY <1>1 DEF Begin
  <2>3. op' \in [Procs -> Operation]
    BY <2>1, <2>2
  <2>4. pc' \in [Procs -> Labels]
    BY <1>1 DEF Begin
  <2> QED
    BY <1>1, <2>3, <2>4 DEF Begin
<1>2. ASSUME NEW p \in Procs, Stage(p) PROVE TypeOK'
  <2>1. PICK i \in Free : /\ content' = [content EXCEPT ![i] = op[p].data]
                          /\ temp' = [temp EXCEPT ![p] = i]
                          /\ op' = [op EXCEPT ![p].file = i]
    BY <1>2 DEF Stage
  <2>2. i \in Inodes /\ op[p].data \in Contents
    BY <1>2 DEF Free, Stage, Orderly
  <2>3. op[p] \in Operation
    OBVIOUS
  <2>4. [op[p] EXCEPT !.file = i] \in Operation
    BY <2>2, <2>3 DEF Operation
  <2>5. op' \in [Procs -> Operation]
    BY <2>1, <2>4
  <2> QED
    BY <1>2, <2>1, <2>2, <2>5 DEF Stage
<1>3. ASSUME NEW p \in Procs, Inspect(p) \/ Verify(p) \/ Confirm(p) \/ Interrupt(p)
      PROVE  TypeOK'
  BY <1>3 DEF Inspect, Verify, Confirm, Interrupt
<1>4. ASSUME NEW p \in Procs, Rename(p) \/ Link(p) PROVE TypeOK'
  <2>1. temp[p] \in Inodes
    BY <1>4 DEF Rename, Link, Orderly
  <2>2. CASE Rename(p)
    BY <2>1, <2>2 DEF Rename
  <2>3. CASE Link(p)
    BY <2>1, <2>3 DEF Link
  <2> QED
    BY <1>4, <2>2, <2>3
<1>5. ASSUME NEW p \in Procs, Claim(p) \/ Unstage(p) \/ Fail(p) PROVE TypeOK'
  BY <1>5 DEF Claim, Unstage, Fail
<1>6. ASSUME NEW p \in Procs, Discard(p) PROVE TypeOK'
  BY <1>0, <1>6 DEF Discard
<1>7. ASSUME NEW p \in Procs, Restore(p) PROVE TypeOK'
  BY <1>7 DEF Restore
<1>8. ASSUME NEW p \in Procs, Release(p) PROVE TypeOK'
  BY <1>0, <1>8 DEF Release
<1>9. ASSUME NEW p \in Procs, Die(p) PROVE TypeOK'
  BY <1>0, <1>9 DEF Die
<1>10. CASE Edit
  <2>1. CASE SaveByRename
    <3>1. edits' \in 0 .. MaxEdits
      BY <1>10 DEF Edit
    <3> QED
      BY <1>10, <2>1, <3>1 DEF Edit, SaveByRename, Free
  <2>2. CASE SaveInPlace
    <3>1. content' \in [Inodes -> Contents]
      BY <2>2 DEF SaveInPlace
    <3>2. /\ edits' \in 0 .. MaxEdits
          /\ UNCHANGED <<temp, quar, left, pc, op, deaths, target, owed, wanted>>
      BY <1>10, <2>2 DEF Edit, SaveInPlace
    <3> QED
      BY <3>1, <3>2
  <2>3. CASE Remove
    <3>1. edits' \in 0 .. MaxEdits /\ UNCHANGED <<temp, quar, left, pc, op, deaths>>
      BY <1>10 DEF Edit
    <3>2. owed' \in SUBSET Inodes
      BY <2>3 DEF Remove
    <3> QED
      BY <2>3, <3>1, <3>2 DEF Remove
  <2> QED
    BY <1>10, <2>1, <2>2, <2>3 DEF Edit
<1>11. CASE UNCHANGED vars
  BY <1>11 DEF vars
<1> QED
  BY <1>1, <1>2, <1>3, <1>4, <1>5, <1>6, <1>7, <1>8, <1>9, <1>10, <1>11 DEF Next, Work


\* Every label finds the claimed and the staged file it needs.
LEMMA OrderlyStep == TypeOK /\ Orderly /\ [Next]_vars => Orderly'
<1> SUFFICES ASSUME TypeOK, Orderly, [Next]_vars PROVE Orderly'
  OBVIOUS
<1> USE FileAssumption DEF TypeOK, Goto, Orderly, Deciding
<1>1. ASSUME NEW r \in Procs, Begin(r) PROVE Orderly'
  BY <1>1 DEF Begin
<1>2. ASSUME NEW r \in Procs, Inspect(r) PROVE Orderly'
  BY <1>2 DEF Inspect
<1>3. ASSUME NEW r \in Procs, Stage(r) PROVE Orderly'
  <2>1. PICK i \in Free :
             /\ content' = [content EXCEPT ![i] = op[r].data]
             /\ temp' = [temp EXCEPT ![r] = i]
             /\ \A q \in Procs : /\ op'[q].kind = op[q].kind
                                 /\ op'[q].expected = op[q].expected
                                 /\ op'[q].data = op[q].data
    BY <1>3, StageDoes
  <2>2. /\ pc[r] = "stage" /\ UNCHANGED <<target, quar, left, owed>>
        /\ pc' = [pc EXCEPT ![r] = CASE op[r].kind = "create" -> "link"
                                     [] op[r].kind = "replace" -> "claim"
                                     [] OTHER -> "rename"]
    BY <1>3 DEF Stage
  <2>3. /\ i \in Inodes /\ i \notin owed /\ target # i /\ i \notin left
        /\ \A p \in Procs : temp[p] # i /\ quar[p] # i
    BY FreeNameless
  <2> QED
    BY <2>1, <2>2, <2>3
<1>4. ASSUME NEW r \in Procs, Rename(r) PROVE Orderly'
  BY <1>4 DEF Rename
<1>5. ASSUME NEW r \in Procs, Claim(r) PROVE Orderly'
  BY <1>5 DEF Claim
<1>6. ASSUME NEW r \in Procs, Verify(r) PROVE Orderly'
  BY <1>6 DEF Verify
<1>7. ASSUME NEW r \in Procs, Link(r) PROVE Orderly'
  BY <1>7 DEF Link
<1>8. ASSUME NEW r \in Procs, Unstage(r) PROVE Orderly'
  BY <1>8 DEF Unstage
<1>9. ASSUME NEW r \in Procs, Confirm(r) PROVE Orderly'
  BY <1>9 DEF Confirm
<1>10. ASSUME NEW r \in Procs, Discard(r) PROVE Orderly'
  BY <1>10 DEF Discard
<1>11. ASSUME NEW r \in Procs, Fail(r) PROVE Orderly'
  BY <1>11 DEF Fail
<1>12. ASSUME NEW r \in Procs, Restore(r) PROVE Orderly'
  BY <1>12 DEF Restore
<1>13. ASSUME NEW r \in Procs, Release(r) PROVE Orderly'
  BY <1>13 DEF Release
<1>14. ASSUME NEW r \in Procs, Interrupt(r) PROVE Orderly'
  BY <1>14 DEF Interrupt
<1>15. ASSUME NEW r \in Procs, Die(r) PROVE Orderly'
  BY <1>15 DEF Die
<1>16. CASE Edit /\ SaveByRename
  BY <1>16 DEF Edit, SaveByRename
<1>17. CASE Edit /\ SaveInPlace
  BY <1>17 DEF Edit, SaveInPlace
<1>18. CASE Edit /\ Remove
  BY <1>18 DEF Edit, Remove
<1>19. CASE UNCHANGED vars
  BY <1>19 DEF vars
<1> QED
  BY <1>1, <1>2, <1>3, <1>4, <1>5, <1>6, <1>7, <1>8, <1>9, <1>10, <1>11, <1>12, <1>13, <1>14, <1>15, <1>16, <1>17, <1>18, <1>19 DEF Next, Work, Edit

\* A staged file stays private until its own process publishes it.
LEMMA TempsStep == TypeOK /\ Orderly /\ TempsPrivate /\ [Next]_vars => TempsPrivate'
<1> SUFFICES ASSUME TypeOK, Orderly, TempsPrivate, [Next]_vars PROVE TempsPrivate'
  OBVIOUS
<1> USE FileAssumption DEF TypeOK, Goto, Orderly, Deciding, TempsPrivate, Unpublished
<1>1. ASSUME NEW r \in Procs, Begin(r) PROVE TempsPrivate'
  BY <1>1 DEF Begin
<1>2. ASSUME NEW r \in Procs, Inspect(r) PROVE TempsPrivate'
  BY <1>2 DEF Inspect
<1>3. ASSUME NEW r \in Procs, Stage(r) PROVE TempsPrivate'
  <2>1. PICK i \in Free :
             /\ content' = [content EXCEPT ![i] = op[r].data]
             /\ temp' = [temp EXCEPT ![r] = i]
             /\ \A q \in Procs : /\ op'[q].kind = op[q].kind
                                 /\ op'[q].expected = op[q].expected
                                 /\ op'[q].data = op[q].data
    BY <1>3, StageDoes
  <2>2. /\ pc[r] = "stage" /\ UNCHANGED <<target, quar, left, owed>>
        /\ pc' = [pc EXCEPT ![r] = CASE op[r].kind = "create" -> "link"
                                     [] op[r].kind = "replace" -> "claim"
                                     [] OTHER -> "rename"]
    BY <1>3 DEF Stage
  <2>3. /\ i \in Inodes /\ i \notin owed /\ target # i /\ i \notin left
        /\ \A p \in Procs : temp[p] # i /\ quar[p] # i
    BY FreeNameless
  <2> QED
    BY <2>1, <2>2, <2>3
<1>4. ASSUME NEW r \in Procs, Rename(r) PROVE TempsPrivate'
  BY <1>4 DEF Rename
<1>5. ASSUME NEW r \in Procs, Claim(r) PROVE TempsPrivate'
  BY <1>5 DEF Claim
<1>6. ASSUME NEW r \in Procs, Verify(r) PROVE TempsPrivate'
  BY <1>6 DEF Verify
<1>7. ASSUME NEW r \in Procs, Link(r) PROVE TempsPrivate'
  BY <1>7 DEF Link
<1>8. ASSUME NEW r \in Procs, Unstage(r) PROVE TempsPrivate'
  BY <1>8 DEF Unstage
<1>9. ASSUME NEW r \in Procs, Confirm(r) PROVE TempsPrivate'
  BY <1>9 DEF Confirm
<1>10. ASSUME NEW r \in Procs, Discard(r) PROVE TempsPrivate'
  BY <1>10 DEF Discard
<1>11. ASSUME NEW r \in Procs, Fail(r) PROVE TempsPrivate'
  BY <1>11 DEF Fail
<1>12. ASSUME NEW r \in Procs, Restore(r) PROVE TempsPrivate'
  BY <1>12 DEF Restore
<1>13. ASSUME NEW r \in Procs, Release(r) PROVE TempsPrivate'
  BY <1>13 DEF Release
<1>14. ASSUME NEW r \in Procs, Interrupt(r) PROVE TempsPrivate'
  BY <1>14 DEF Interrupt
<1>15. ASSUME NEW r \in Procs, Die(r) PROVE TempsPrivate'
  BY <1>15 DEF Die
<1>16. CASE Edit /\ SaveByRename
  BY <1>16, FreeNameless DEF Edit, SaveByRename
<1>17. CASE Edit /\ SaveInPlace
  BY <1>17 DEF Edit, SaveInPlace
<1>18. CASE Edit /\ Remove
  BY <1>18 DEF Edit, Remove
<1>19. CASE UNCHANGED vars
  BY <1>19 DEF vars
<1> QED
  BY <1>1, <1>2, <1>3, <1>4, <1>5, <1>6, <1>7, <1>8, <1>9, <1>10, <1>11, <1>12, <1>13, <1>14, <1>15, <1>16, <1>17, <1>18, <1>19 DEF Next, Work, Edit

\* A claim stays exclusive until the file is restored.
LEMMA ClaimsStep == TypeOK /\ Orderly /\ TempsPrivate /\ ClaimsExclusive /\ [Next]_vars => ClaimsExclusive'
<1> SUFFICES ASSUME TypeOK, Orderly, TempsPrivate, ClaimsExclusive, [Next]_vars PROVE ClaimsExclusive'
  OBVIOUS
<1> USE FileAssumption DEF TypeOK, Goto, Orderly, Deciding, TempsPrivate, Unpublished, ClaimsExclusive
<1>1. ASSUME NEW r \in Procs, Begin(r) PROVE ClaimsExclusive'
  BY <1>1 DEF Begin
<1>2. ASSUME NEW r \in Procs, Inspect(r) PROVE ClaimsExclusive'
  BY <1>2 DEF Inspect
<1>3. ASSUME NEW r \in Procs, Stage(r) PROVE ClaimsExclusive'
  <2>1. PICK i \in Free :
             /\ content' = [content EXCEPT ![i] = op[r].data]
             /\ temp' = [temp EXCEPT ![r] = i]
             /\ \A q \in Procs : /\ op'[q].kind = op[q].kind
                                 /\ op'[q].expected = op[q].expected
                                 /\ op'[q].data = op[q].data
    BY <1>3, StageDoes
  <2>2. /\ pc[r] = "stage" /\ UNCHANGED <<target, quar, left, owed>>
        /\ pc' = [pc EXCEPT ![r] = CASE op[r].kind = "create" -> "link"
                                     [] op[r].kind = "replace" -> "claim"
                                     [] OTHER -> "rename"]
    BY <1>3 DEF Stage
  <2>3. /\ i \in Inodes /\ i \notin owed /\ target # i /\ i \notin left
        /\ \A p \in Procs : temp[p] # i /\ quar[p] # i
    BY FreeNameless
  <2> QED
    BY <2>1, <2>2, <2>3
<1>4. ASSUME NEW r \in Procs, Rename(r) PROVE ClaimsExclusive'
  BY <1>4 DEF Rename
<1>5. ASSUME NEW r \in Procs, Claim(r) PROVE ClaimsExclusive'
  BY <1>5 DEF Claim
<1>6. ASSUME NEW r \in Procs, Verify(r) PROVE ClaimsExclusive'
  BY <1>6 DEF Verify
<1>7. ASSUME NEW r \in Procs, Link(r) PROVE ClaimsExclusive'
  BY <1>7 DEF Link
<1>8. ASSUME NEW r \in Procs, Unstage(r) PROVE ClaimsExclusive'
  BY <1>8 DEF Unstage
<1>9. ASSUME NEW r \in Procs, Confirm(r) PROVE ClaimsExclusive'
  BY <1>9 DEF Confirm
<1>10. ASSUME NEW r \in Procs, Discard(r) PROVE ClaimsExclusive'
  BY <1>10 DEF Discard
<1>11. ASSUME NEW r \in Procs, Fail(r) PROVE ClaimsExclusive'
  BY <1>11 DEF Fail
<1>12. ASSUME NEW r \in Procs, Restore(r) PROVE ClaimsExclusive'
  BY <1>12 DEF Restore
<1>13. ASSUME NEW r \in Procs, Release(r) PROVE ClaimsExclusive'
  BY <1>13 DEF Release
<1>14. ASSUME NEW r \in Procs, Interrupt(r) PROVE ClaimsExclusive'
  BY <1>14 DEF Interrupt
<1>15. ASSUME NEW r \in Procs, Die(r) PROVE ClaimsExclusive'
  BY <1>15 DEF Die
<1>16. CASE Edit /\ SaveByRename
  BY <1>16, FreeNameless DEF Edit, SaveByRename
<1>17. CASE Edit /\ SaveInPlace
  BY <1>17 DEF Edit, SaveInPlace
<1>18. CASE Edit /\ Remove
  BY <1>18 DEF Edit, Remove
<1>19. CASE UNCHANGED vars
  BY <1>19 DEF vars
<1> QED
  BY <1>1, <1>2, <1>3, <1>4, <1>5, <1>6, <1>7, <1>8, <1>9, <1>10, <1>11, <1>12, <1>13, <1>14, <1>15, <1>16, <1>17, <1>18, <1>19 DEF Next, Work, Edit

\* Nothing changes a verified file: nobody else has a name for it.
LEMMA VerifiedStep == TypeOK /\ Orderly /\ ClaimsExclusive /\ ClaimsVerified /\ [Next]_vars => ClaimsVerified'
<1> SUFFICES ASSUME TypeOK, Orderly, ClaimsExclusive, ClaimsVerified, [Next]_vars PROVE ClaimsVerified'
  OBVIOUS
<1> USE FileAssumption DEF TypeOK, Goto, Orderly, Deciding, ClaimsExclusive, ClaimsVerified, Verified
<1>1. ASSUME NEW r \in Procs, Begin(r) PROVE ClaimsVerified'
  BY <1>1 DEF Begin
<1>2. ASSUME NEW r \in Procs, Inspect(r) PROVE ClaimsVerified'
  BY <1>2 DEF Inspect
<1>3. ASSUME NEW r \in Procs, Stage(r) PROVE ClaimsVerified'
  <2>1. PICK i \in Free :
             /\ content' = [content EXCEPT ![i] = op[r].data]
             /\ temp' = [temp EXCEPT ![r] = i]
             /\ \A q \in Procs : /\ op'[q].kind = op[q].kind
                                 /\ op'[q].expected = op[q].expected
                                 /\ op'[q].data = op[q].data
    BY <1>3, StageDoes
  <2>2. /\ pc[r] = "stage" /\ UNCHANGED <<target, quar, left, owed>>
        /\ pc' = [pc EXCEPT ![r] = CASE op[r].kind = "create" -> "link"
                                     [] op[r].kind = "replace" -> "claim"
                                     [] OTHER -> "rename"]
    BY <1>3 DEF Stage
  <2>3. /\ i \in Inodes /\ i \notin owed /\ target # i /\ i \notin left
        /\ \A p \in Procs : temp[p] # i /\ quar[p] # i
    BY FreeNameless
  <2> QED
    BY <2>1, <2>2, <2>3
<1>4. ASSUME NEW r \in Procs, Rename(r) PROVE ClaimsVerified'
  BY <1>4 DEF Rename
<1>5. ASSUME NEW r \in Procs, Claim(r) PROVE ClaimsVerified'
  BY <1>5 DEF Claim
<1>6. ASSUME NEW r \in Procs, Verify(r) PROVE ClaimsVerified'
  BY <1>6 DEF Verify
<1>7. ASSUME NEW r \in Procs, Link(r) PROVE ClaimsVerified'
  BY <1>7 DEF Link
<1>8. ASSUME NEW r \in Procs, Unstage(r) PROVE ClaimsVerified'
  BY <1>8 DEF Unstage
<1>9. ASSUME NEW r \in Procs, Confirm(r) PROVE ClaimsVerified'
  BY <1>9 DEF Confirm
<1>10. ASSUME NEW r \in Procs, Discard(r) PROVE ClaimsVerified'
  BY <1>10 DEF Discard
<1>11. ASSUME NEW r \in Procs, Fail(r) PROVE ClaimsVerified'
  BY <1>11 DEF Fail
<1>12. ASSUME NEW r \in Procs, Restore(r) PROVE ClaimsVerified'
  BY <1>12 DEF Restore
<1>13. ASSUME NEW r \in Procs, Release(r) PROVE ClaimsVerified'
  BY <1>13 DEF Release
<1>14. ASSUME NEW r \in Procs, Interrupt(r) PROVE ClaimsVerified'
  BY <1>14 DEF Interrupt
<1>15. ASSUME NEW r \in Procs, Die(r) PROVE ClaimsVerified'
  BY <1>15 DEF Die
<1>16. CASE Edit /\ SaveByRename
  BY <1>16, FreeNameless DEF Edit, SaveByRename
<1>17. CASE Edit /\ SaveInPlace
  BY <1>17 DEF Edit, SaveInPlace
<1>18. CASE Edit /\ Remove
  BY <1>18 DEF Edit, Remove
<1>19. CASE UNCHANGED vars
  BY <1>19 DEF vars
<1> QED
  BY <1>1, <1>2, <1>3, <1>4, <1>5, <1>6, <1>7, <1>8, <1>9, <1>10, <1>11, <1>12, <1>13, <1>14, <1>15, <1>16, <1>17, <1>18, <1>19 DEF Next, Work, Edit

\* What is owed moves from name to name.
LEMMA OwedStep == TypeOK /\ Orderly /\ ClaimsVerified /\ OwedKept /\ [Next]_vars => OwedKept'
<1> SUFFICES ASSUME TypeOK, Orderly, ClaimsVerified, OwedKept, [Next]_vars PROVE OwedKept'
  OBVIOUS
<1> USE FileAssumption DEF TypeOK, Goto, Orderly, Deciding, ClaimsVerified, Verified, OwedKept, Kept
<1>1. ASSUME NEW r \in Procs, Begin(r) PROVE OwedKept'
  BY <1>1 DEF Begin
<1>2. ASSUME NEW r \in Procs, Inspect(r) PROVE OwedKept'
  BY <1>2 DEF Inspect
<1>3. ASSUME NEW r \in Procs, Stage(r) PROVE OwedKept'
  <2>1. PICK i \in Free :
             /\ content' = [content EXCEPT ![i] = op[r].data]
             /\ temp' = [temp EXCEPT ![r] = i]
             /\ \A q \in Procs : /\ op'[q].kind = op[q].kind
                                 /\ op'[q].expected = op[q].expected
                                 /\ op'[q].data = op[q].data
    BY <1>3, StageDoes
  <2>2. /\ pc[r] = "stage" /\ UNCHANGED <<target, quar, left, owed>>
        /\ pc' = [pc EXCEPT ![r] = CASE op[r].kind = "create" -> "link"
                                     [] op[r].kind = "replace" -> "claim"
                                     [] OTHER -> "rename"]
    BY <1>3 DEF Stage
  <2>3. /\ i \in Inodes /\ i \notin owed /\ target # i /\ i \notin left
        /\ \A p \in Procs : temp[p] # i /\ quar[p] # i
    BY FreeNameless
  <2> QED
    BY <2>1, <2>2, <2>3
<1>4. ASSUME NEW r \in Procs, Rename(r) PROVE OwedKept'
  BY <1>4 DEF Rename
<1>5. ASSUME NEW r \in Procs, Claim(r) PROVE OwedKept'
  BY <1>5 DEF Claim
<1>6. ASSUME NEW r \in Procs, Verify(r) PROVE OwedKept'
  BY <1>6 DEF Verify
<1>7. ASSUME NEW r \in Procs, Link(r) PROVE OwedKept'
  BY <1>7 DEF Link
<1>8. ASSUME NEW r \in Procs, Unstage(r) PROVE OwedKept'
  BY <1>8 DEF Unstage
<1>9. ASSUME NEW r \in Procs, Confirm(r) PROVE OwedKept'
  BY <1>9 DEF Confirm
<1>10. ASSUME NEW r \in Procs, Discard(r) PROVE OwedKept'
  BY <1>10 DEF Discard
<1>11. ASSUME NEW r \in Procs, Fail(r) PROVE OwedKept'
  BY <1>11 DEF Fail
<1>12. ASSUME NEW r \in Procs, Restore(r) PROVE OwedKept'
  BY <1>12 DEF Restore
<1>13. ASSUME NEW r \in Procs, Release(r) PROVE OwedKept'
  BY <1>13 DEF Release
<1>14. ASSUME NEW r \in Procs, Interrupt(r) PROVE OwedKept'
  BY <1>14 DEF Interrupt
<1>15. ASSUME NEW r \in Procs, Die(r) PROVE OwedKept'
  BY <1>15 DEF Die
<1>16. CASE Edit /\ SaveByRename
  BY <1>16, FreeNameless DEF Edit, SaveByRename
<1>17. CASE Edit /\ SaveInPlace
  BY <1>17 DEF Edit, SaveInPlace
<1>18. CASE Edit /\ Remove
  BY <1>18 DEF Edit, Remove
<1>19. CASE UNCHANGED vars
  BY <1>19 DEF vars
<1> QED
  BY <1>1, <1>2, <1>3, <1>4, <1>5, <1>6, <1>7, <1>8, <1>9, <1>10, <1>11, <1>12, <1>13, <1>14, <1>15, <1>16, <1>17, <1>18, <1>19 DEF Next, Work, Edit

LEMMA InvStep == IInv /\ [Next]_vars => IInv'
BY TypeStep, OrderlyStep, TempsStep, ClaimsStep, VerifiedStep, OwedStep DEF IInv

LEMMA KeptNamed == IInv => NothingErased
<1> SUFFICES ASSUME IInv, NEW i \in owed PROVE Names(i) # {}
  BY DEF NothingErased
<1>1. Kept(i)
  BY DEF IInv, OwedKept
<1>2. CASE target = i
  BY <1>2 DEF Names
<1>3. CASE i \in left
  BY <1>3 DEF Names
<1>4. CASE \E p \in Procs : quar[p] = i
  <2>1. PICK p \in Procs : quar[p] = i
    BY <1>4
  <2>2. p \in {r \in Procs : quar[r] = i}
    BY <2>1
  <2>3. <<"quar", p>> \in Names(i)
    BY <2>2 DEF Names
  <2> QED
    BY <2>3
<1> QED
  BY <1>1, <1>2, <1>3, <1>4 DEF Kept

\* The names, the files and the labels of guarded operations stay typed.
THEOREM TypeCorrect == Spec => []TypeOK
<1>1. IInv => TypeOK
  BY DEF IInv
<1> QED
  BY InvInit, InvStep, <1>1, PTL DEF Spec

\* No interleaving, failure or kill of guarded operations erases a file that
\* an editor saved or an operation installed, unless an editor or an overwrite
\* replaced it or an operation that expected its bytes completed.
THEOREM GuardedErasesNothing == Spec => []NothingErased
BY InvInit, InvStep, KeptNamed, PTL DEF Spec

(***************************************************************************)
(* A missing target is being put back                                      *)
(***************************************************************************)

\* A process with a claimed file that will replace the target, put the file
\* back, or complete a deletion.
Restoring(r) ==
    /\ quar[r] # None
    /\ pc[r] \in {"verify", "link", "fail", "restore"} \/ (pc[r] = "discard" /\ op[r].kind = "unlink")

BeingPutBack == deaths = 0 /\ wanted /\ target = None => \E r \in Procs : Restoring(r)

\* Whoever claims the target answers for it: one step per action that could
\* leave the target missing or end a restoration.
LEMMA PutBackStep ==
    TypeOK /\ Orderly /\ BeingPutBack /\ [Next]_vars => BeingPutBack'
<1> SUFFICES ASSUME TypeOK, Orderly, BeingPutBack, [Next]_vars,
                    deaths' = 0, wanted', target' = None
             PROVE  \E r \in Procs : Restoring(r)'
  BY DEF BeingPutBack
<1> USE FileAssumption DEF TypeOK
\* Nobody else is disturbed by the step of a process that is not restoring.
<1>1. ASSUME NEW p \in Procs, UNCHANGED <<deaths, target>>, wanted' => wanted,
             \A r \in Procs : r # p => /\ pc'[r] = pc[r] /\ quar'[r] = quar[r]
                                       /\ op'[r].kind = op[r].kind,
             Restoring(p) => Restoring(p)'
      PROVE  \E r \in Procs : Restoring(r)'
  BY <1>1 DEF BeingPutBack, Restoring
<1>2. ASSUME NEW p \in Procs, Begin(p) PROVE \E r \in Procs : Restoring(r)'
  <2>1. /\ UNCHANGED <<deaths, target, wanted, quar>> /\ pc[p] = "idle"
        /\ \A r \in Procs : r # p => pc'[r] = pc[r] /\ op'[r] = op[r]
    BY <1>2 DEF Begin, Goto
  <2> QED
    BY <1>1, <2>1 DEF Restoring
<1>3. ASSUME NEW p \in Procs, Inspect(p) \/ Unstage(p) \/ Confirm(p) \/ Release(p)
      PROVE  \E r \in Procs : Restoring(r)'
  <2>1. /\ UNCHANGED <<deaths, target, wanted>>
        /\ pc[p] \in {"inspect", "unstage", "confirm", "release"}
        /\ \A r \in Procs : r # p => pc'[r] = pc[r] /\ op'[r] = op[r] /\ quar'[r] = quar[r]
    BY <1>3 DEF Inspect, Unstage, Confirm, Release, Goto
  <2> QED
    BY <1>1, <2>1 DEF Restoring
<1>4. ASSUME NEW p \in Procs, Stage(p) PROVE \E r \in Procs : Restoring(r)'
  <2>1. /\ UNCHANGED <<deaths, target, wanted, quar>> /\ pc[p] = "stage"
        /\ \A r \in Procs : r # p => pc'[r] = pc[r] /\ op'[r].kind = op[r].kind
    BY <1>4, StageDoes DEF Stage, Goto
  <2> QED
    BY <1>1, <2>1 DEF Restoring
<1>5. ASSUME NEW p \in Procs, Rename(p) PROVE FALSE
  BY <1>5 DEF Rename, Orderly
<1>6. ASSUME NEW p \in Procs, Claim(p) PROVE \E r \in Procs : Restoring(r)'
  <2>1. CASE target # None
    BY <1>6, <2>1 DEF Claim, Goto, Restoring
  <2>2. CASE target = None
    <3>1. /\ UNCHANGED <<deaths, target, wanted, quar, op>> /\ pc[p] = "claim"
          /\ \A r \in Procs : r # p => pc'[r] = pc[r]
      BY <1>6, <2>2 DEF Claim, Goto
    <3> QED
      BY <1>1, <3>1 DEF Restoring
  <2> QED
    BY <2>1, <2>2
<1>7. ASSUME NEW p \in Procs, Verify(p) PROVE \E r \in Procs : Restoring(r)'
  <2>1. /\ UNCHANGED <<deaths, target, wanted, quar, op>>
        /\ \A r \in Procs : r # p => pc'[r] = pc[r]
        /\ pc'[p] \in {"fail", "link"} \/ (pc'[p] = "discard" /\ op[p].kind = "unlink")
    BY <1>7 DEF Verify, Goto
  <2> QED
    BY <1>1, <2>1 DEF Restoring
<1>8. ASSUME NEW p \in Procs, Link(p) PROVE \E r \in Procs : Restoring(r)'
  BY <1>8 DEF Link, Orderly
<1>9. ASSUME NEW p \in Procs, Discard(p) PROVE \E r \in Procs : Restoring(r)'
  <2>1. /\ UNCHANGED <<deaths, target>> /\ pc[p] = "discard" /\ op[p].kind # "unlink"
        /\ wanted' = wanted
        /\ \A r \in Procs : r # p => pc'[r] = pc[r] /\ quar'[r] = quar[r] /\ op'[r] = op[r]
    BY <1>9 DEF Discard, Goto
  <2> QED
    BY <1>1, <2>1 DEF Restoring
<1>10. ASSUME NEW p \in Procs, Fail(p) PROVE \E r \in Procs : Restoring(r)'
  <2>1. /\ UNCHANGED <<deaths, target, wanted, quar, op>> /\ pc'[p] = "restore"
        /\ \A r \in Procs : r # p => pc'[r] = pc[r]
    BY <1>10 DEF Fail, Goto
  <2> QED
    BY <1>1, <2>1 DEF Restoring
<1>11. ASSUME NEW p \in Procs, Restore(p) PROVE \E r \in Procs : Restoring(r)'
  <2>1. quar[p] = None
    BY <1>11 DEF Restore
  <2>2. /\ UNCHANGED <<deaths, target, wanted, quar, op>>
        /\ \A r \in Procs : r # p => pc'[r] = pc[r]
    BY <1>11, <2>1 DEF Restore, Goto
  <2> QED
    BY <1>1, <2>1, <2>2 DEF Restoring
<1>12. ASSUME NEW p \in Procs, Interrupt(p) PROVE \E r \in Procs : Restoring(r)'
  <2>1. /\ UNCHANGED <<deaths, target, wanted, quar, op>> /\ pc'[p] = "fail"
        /\ \A r \in Procs : r # p => pc'[r] = pc[r]
    BY <1>12 DEF Interrupt, Goto
  <2> QED
    BY <1>1, <2>1 DEF Restoring
<1>13. ASSUME NEW p \in Procs, Die(p) PROVE FALSE
  BY <1>13 DEF Die
<1>14. CASE Edit
  <2>1. /\ UNCHANGED <<deaths, target, wanted, quar, op, pc>>
    BY <1>14, FreeNameless DEF Edit, SaveByRename, SaveInPlace, Remove
  <2> QED
    BY <2>1 DEF BeingPutBack, Restoring
<1>15. CASE UNCHANGED vars
  BY <1>15 DEF BeingPutBack, Restoring, vars
<1> QED
  BY <1>2, <1>3, <1>4, <1>5, <1>6, <1>7, <1>8, <1>9, <1>10, <1>11, <1>12, <1>13, <1>14, <1>15
     DEF Next, Work

\* While nobody was killed, a target that is meant to exist is missing only in
\* the hands of an operation that will put something there.
THEOREM FailuresPutBack == Spec => []FailurePutsBack
<1>1. Init => BeingPutBack
  BY FileAssumption DEF Init, BeingPutBack
<1>2. IInv /\ BeingPutBack /\ [Next]_vars => BeingPutBack'
  BY PutBackStep DEF IInv
<1>3. BeingPutBack => FailurePutsBack
  BY DEF BeingPutBack, Restoring, FailurePutsBack
<1> QED
  BY InvInit, InvStep, <1>1, <1>2, <1>3, PTL DEF Spec
=============================================================================

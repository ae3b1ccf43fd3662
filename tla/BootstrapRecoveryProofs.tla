---------------------- MODULE BootstrapRecoveryProofs ----------------------
(***************************************************************************)
(* Proofs about a bootstrap and its recovery, for any names, contents and  *)
(* edits, and any number of interruptions and kills.                       *)
(***************************************************************************)
EXTENDS BootstrapRecovery, TLAPS

RecordType == [there : BOOLEAN,
               status : {"none", "writing", "complete", "restored", "abandoned"},
               pre : Tree, others : SUBSET Contents]
ImagesType == [Names -> SUBSET (Contents \cup {Absent})]
JournalType == [there : BOOLEAN, images : ImagesType]

(***************************************************************************)
(* The invariant                                                           *)
(***************************************************************************)

Publishing == {"open", "write", "journal", "journaling", "stage", "replace", "after"}

\* Which status the record has while the command is where.
Phases ==
    /\ record.status = "writing" /\ pc \notin Saving => record.there
    /\ pc \notin {"idle", "preflight", "capture", "open"} => record.status = "writing"
    /\ pc \in {"preflight", "capture", "open"} => record.status # "writing"
    /\ held # Absent => pc = "restoring"
    /\ pc \in {"journal", "journaling", "stage"} => todo[cur] \in Generated
    /\ pc = "replace" => temp = todo[cur] /\ temp \in Generated
    /\ pc = "complete" => finished

\* Wherever the record is not "writing" there is no output to account for.
Accounted ==
    /\ \A n \in Names : record.pre[n] \notin Generated
    /\ pc \in {"abandon", "restored", "capture", "open"} => Output = {}
    /\ Output # {} /\ ~finished => record.status = "writing"

Begun == record.status = "writing" \/ pc = "open"

\* The images on record of a name, also while the journal is claimed.
Recorded(n) ==
    IF journal.there \/ pc = "journaling" THEN journal.images[n] ELSE {record.pre[n]}

\* Images are the preimage and what was published, and the basis knows them all.
Known ==
    /\ Begun => \A n \in Names : /\ record.pre[n] \in Recorded(n)
                                 /\ Recorded(n) \subseteq {record.pre[n]} \cup Generated
    /\ pc \in Publishing => \A n \in Names :
           /\ Recorded(n) \subseteq images[n]
           /\ images[n] \subseteq {record.pre[n]} \cup Generated
    /\ pc \in {"journal", "journaling"} => todo[cur] \in images[cur]

\* Without kills the journal names all that was published and is about to be.
Ahead ==
    ~killed /\ Begun =>
        /\ \A n \in Output : files[n] \in Recorded(n)
        /\ held \in Generated => held \in Recorded(cur)
        /\ pc \in {"stage", "replace"} => todo[cur] \in Recorded(cur)

\* What a recovery validated it may replace.
Validated ==
    /\ pc \in {"restore", "restoring"} =>
           \A n \in Names : seen[n] \in {record.pre[n]} \cup Generated
    /\ pc = "restoring" => seen[cur] # record.pre[cur]

\* Without edits and kills the wiki is as recorded, and as a recovery saw it.
QuietWiki ==
    /\ strays = {} /\ pc # "refused"
    /\ Begun => /\ record.others = {}
                /\ \A n \in Names : \/ files[n] \in Recorded(n)
                                    \/ pc = "restoring" /\ n = cur
    /\ pc \in {"restore", "restoring"} =>
           \A n \in Names : /\ seen[n] \in Recorded(n)
                            /\ files[n] # seen[n] => pc = "restoring" /\ n = cur
    /\ pc = "restoring" => held = seen[cur] /\ files[cur] = Absent

Quiet == Untouched => QuietWiki

Inv == TypeOK /\ Phases /\ Accounted /\ Known /\ Ahead /\ Validated /\ Quiet

(***************************************************************************)
(* Type correctness                                                        *)
(***************************************************************************)

LEMMA ConstantTypes ==
    /\ Empty \in Tree /\ Initial \in Tree /\ Empty \in [Names -> Generated \cup {Absent}]
    /\ NoRecord \in RecordType /\ NoJournal \in JournalType
    /\ [n \in Names |-> {}] \in ImagesType
    /\ 0 \in 0 .. MaxEdits /\ 0 \in 0 .. MaxFaults
    /\ Absent \notin Contents /\ Manifest \in Names
<1>1. Empty \in Tree /\ Initial \in Tree /\ Empty \in [Names -> Generated \cup {Absent}]
  BY DEF Empty, Initial, Tree, Contents
<1>2. [n \in Names |-> {}] \in ImagesType
  BY DEF ImagesType
<1> QED
  BY <1>1, <1>2, BootstrapAssumption
     DEF NoRecord, RecordType, NoJournal, JournalType, Contents

\* A write is refused, or takes a name whose content the journal may not know.
LEMMA BeforeWriteIs ==
    ASSUME BeforeWrite
    PROVE  /\ pc = "write" /\ UNCHANGED <<wiki, record, journal, finished, bounds>>
           /\ \/ pc' = "idle" /\ Forget
              \/ /\ UNCHANGED <<seen, expected, todo>> /\ cur' \in Names
                 /\ todo[cur'] # Absent
                 /\ \/ pc' = "stage" /\ files[cur'] = todo[cur'] /\ images' = images
                    \/ /\ pc' = "journal"
                       /\ images' = [images EXCEPT ![cur'] = @ \cup {todo[cur']}]
<1>1. PICK n \in Names :
          /\ todo[n] # Absent
          /\ \/ pc' = "idle" /\ Forget
             \/ /\ cur' = n /\ UNCHANGED <<seen, expected, todo>>
                /\ \/ pc' = "stage" /\ files[n] = todo[n] /\ images' = images
                   \/ /\ pc' = "journal"
                      /\ images' = [images EXCEPT ![n] = @ \cup {todo[n]}]
  BY DEF BeforeWrite
<1>2. pc = "write" /\ UNCHANGED <<wiki, record, journal, finished, bounds>>
  BY DEF BeforeWrite
<1> QED
  BY <1>1, <1>2

LEMMA SaveRecordIs ==
    ASSUME SaveRecord, TypeOK
    PROVE  /\ record'.there = TRUE /\ record'.pre = record.pre
           /\ record'.others = record.others /\ record' \in RecordType
           /\ UNCHANGED <<wiki, journal, basis, finished, bounds>>
           /\ \/ pc = "abandon" /\ record'.status = "abandoned" /\ pc' = "preflight"
              \/ pc = "restored" /\ record'.status = "restored" /\ pc' = "preflight"
              \/ pc = "open" /\ record'.status = "writing" /\ pc' = "write"
              \/ pc = "complete" /\ record'.status = "complete" /\ pc' = "idle"
<1>1. record' = [record EXCEPT !.there = TRUE, !.status = Status[pc]] /\ pc' = Following[pc]
      /\ UNCHANGED <<wiki, journal, basis, finished, bounds>>
  BY DEF SaveRecord
<1>2. pc \in {"abandon", "restored", "open", "complete"}
  BY DEF SaveRecord, Saving
<1>3. /\ Status["abandon"] = "abandoned" /\ Status["restored"] = "restored"
      /\ Status["open"] = "writing" /\ Status["complete"] = "complete"
      /\ Following["abandon"] = "preflight" /\ Following["restored"] = "preflight"
      /\ Following["open"] = "write" /\ Following["complete"] = "idle"
  BY DEF Status, Following
<1>4. record \in RecordType
  BY DEF TypeOK, RecordType
<1> HIDE DEF Status, Following
<1> QED
  BY <1>1, <1>2, <1>3, <1>4 DEF RecordType

\* What a claimed file becomes when the operation gives up.
LEMMA PutBackType ==
    ASSUME TypeOK, PutBack
    PROVE  files' \in Tree /\ strays' \subseteq Contents
<1>1. files \in [Names -> Contents \cup {Absent}] /\ held \in Contents \cup {Absent}
      /\ strays \subseteq Contents /\ cur \in Names
  BY DEF TypeOK, Tree
<1> QED
  BY <1>1 DEF PutBack, Tree

LEMMA ForgetType ==
    ASSUME Forget
    PROVE  /\ seen' \in Tree /\ expected' \in Tree /\ todo' \in [Names -> Generated \cup {Absent}]
           /\ images' \in ImagesType /\ cur' \in Names
BY ConstantTypes DEF Forget


LEMMA TypeInit == Init => TypeOK
BY ConstantTypes DEF Init, TypeOK, RecordType, JournalType, ImagesType, Saving

LEMMA Types ==
    TypeOK <=>
    /\ files \in [Names -> Contents \cup {Absent}] /\ strays \subseteq Contents
    /\ held \in Contents \cup {Absent} /\ temp \in Contents \cup {Absent}
    /\ record \in RecordType /\ journal \in JournalType
    /\ pc \in Saving \cup {"idle", "recover", "restore", "restoring", "refused",
                "preflight", "capture", "write", "journal", "journaling", "stage",
                "replace", "after"}
    /\ seen \in Tree /\ expected \in Tree /\ todo \in [Names -> Generated \cup {Absent}]
    /\ images \in ImagesType
    /\ cur \in Names /\ finished \in BOOLEAN
    /\ edits \in 0 .. MaxEdits /\ faults \in 0 .. MaxFaults /\ killed \in BOOLEAN
BY DEF TypeOK, Tree, RecordType, JournalType, ImagesType

LEMMA TypeStep == TypeOK /\ [Next]_vars => TypeOK'
<1> SUFFICES ASSUME TypeOK, [Next]_vars PROVE TypeOK'
  OBVIOUS
<1> USE DEF wiki, basis, bounds, Saving
<1>t. /\ files \in [Names -> Contents \cup {Absent}] /\ record \in RecordType
      /\ journal \in JournalType /\ record.pre \in [Names -> Contents \cup {Absent}]
      /\ seen \in [Names -> Contents \cup {Absent}] /\ cur \in Names
      /\ todo \in [Names -> Generated \cup {Absent}] /\ images \in ImagesType
      /\ Generated \subseteq Contents
  BY Types DEF RecordType, Tree, Contents
<1>1. CASE Begin \/ RestoreCheck \/ Preflight
  BY <1>1 DEF Begin, RestoreCheck, Preflight, TypeOK
<1>2. CASE Recover
  <2>1. seen' \in Tree /\ UNCHANGED <<expected, images, todo, cur>>
    BY <1>2, Types, <1>t DEF Recover, Tree
  <2>2. pc' \in {"abandon", "restore", "refused"}
        /\ UNCHANGED <<wiki, record, journal, finished, bounds>>
    BY <1>2 DEF Recover
  <2> QED
    BY <2>1, <2>2, Types DEF TypeOK
<1>3. CASE RestoreClaim
  <2>1. PICK n \in Differing : cur' = n /\ held' = files[n] /\ files' = [files EXCEPT ![n] = Absent]
    BY <1>3 DEF RestoreClaim
  <2>2. /\ UNCHANGED <<strays, temp, record, journal, seen, expected, images, todo, finished,
                       bounds>>
        /\ pc' = "restoring" /\ n \in Names
    BY <1>3 DEF RestoreClaim, Differing
  <2>3. files' \in Tree /\ held' \in Contents \cup {Absent} /\ cur' \in Names
    BY <2>1, <2>2, <1>t DEF Tree
  <2> QED
    BY <2>2, <2>3 DEF TypeOK
<1>4. CASE RestoreInstall
  <2>1. files' \in Tree /\ strays' \subseteq Contents /\ seen' \in Tree
    <3>1. CASE PutBack /\ UNCHANGED seen
      BY <3>1, PutBackType, Types
    <3>2. CASE ~(PutBack /\ UNCHANGED seen)
      BY <3>2, <1>4, <1>t, Types DEF RestoreInstall, Tree
    <3> QED
      BY <3>1, <3>2
  <2>2. /\ pc' \in {"restore", "refused"} /\ held' = Absent
        /\ UNCHANGED <<temp, record, journal, expected, images, todo, cur, finished, bounds>>
    BY <1>4 DEF RestoreInstall
  <2> QED
    BY <2>1, <2>2 DEF TypeOK
<1>5. CASE UnlinkRecord
  <2>1. record' \in RecordType
    BY <1>5, <1>t DEF UnlinkRecord, RecordType
  <2> QED
    BY <1>5, <2>1 DEF UnlinkRecord, TypeOK, RecordType
<1>6. CASE SaveRecord
  BY <1>6, SaveRecordIs DEF TypeOK, RecordType
<1>7. CASE Capture
  <2>1. record' \in RecordType
    BY <1>7, <1>t, Types DEF Capture, RecordType, Tree
  <2>2. images' \in ImagesType
    BY <1>7, <1>t DEF Capture, ImagesType
  <2>3. todo' \in [Names -> Generated \cup {Absent}]
    BY <1>7 DEF Capture
  <2>4. /\ expected' \in Tree /\ journal' \in JournalType /\ finished' \in BOOLEAN
        /\ pc' = "open" /\ UNCHANGED <<wiki, seen, cur, bounds>>
    BY <1>7, <1>t, ConstantTypes DEF Capture, Tree
  <2> QED
    BY <2>1, <2>2, <2>3, <2>4, Types DEF TypeOK, RecordType, JournalType, ImagesType
<1>8. CASE BeforeWrite
  <2>1. CASE pc' = "idle" /\ Forget
    BY <1>8, <2>1, BeforeWriteIs, ForgetType DEF TypeOK, ImagesType
  <2>2. CASE ~(pc' = "idle" /\ Forget)
    <3>1. cur' \in Names /\ UNCHANGED <<seen, expected, todo>> /\ pc' \in {"stage", "journal"}
      BY <1>8, <2>2, BeforeWriteIs
    <3>2. images' \in ImagesType
      BY <1>8, <2>2, <1>t, BeforeWriteIs DEF ImagesType
    <3> QED
      BY <1>8, <3>1, <3>2, BeforeWriteIs DEF TypeOK, ImagesType
  <2> QED
    BY <2>1, <2>2
<1>9. CASE UnlinkJournal \/ SaveJournal
  <2>1. journal' \in JournalType
    <3>1. CASE UnlinkJournal
      BY <3>1, <1>t DEF UnlinkJournal, JournalType
    <3>2. CASE SaveJournal
      <4>1. journal' = [there |-> TRUE, images |-> images]
        BY <3>2 DEF SaveJournal
      <4> QED
        BY <4>1, <1>t DEF JournalType
    <3> QED
      BY <1>9, <3>1, <3>2
  <2> QED
    BY <1>9, <2>1 DEF UnlinkJournal, SaveJournal, TypeOK, JournalType, ImagesType
<1>10. CASE Stage \/ Replace
  <2>1. files' \in Tree /\ temp' \in Contents \cup {Absent}
    BY <1>10, <1>t, Types DEF Stage, Replace, Tree
  <2> QED
    BY <1>10, <2>1 DEF Stage, Replace, TypeOK
<1>11. CASE AfterWrite
  <2>1. CASE files[cur] # todo[cur]
    BY <1>11, <2>1, ForgetType DEF AfterWrite, TypeOK, ImagesType
  <2>2. CASE files[cur] = todo[cur]
    <3>1. expected' \in Tree /\ todo' \in [Names -> Generated \cup {Absent}]
      BY <1>11, <2>2, <1>t, Types DEF AfterWrite, Tree
    <3> QED
      BY <1>11, <2>2, <3>1 DEF AfterWrite, TypeOK
  <2> QED
    BY <2>1, <2>2
<1>12. CASE Finish \/ Refuse
  BY <1>12, ForgetType DEF Finish, Refuse, TypeOK, ImagesType
<1>13. CASE Interrupt
  <2>1. files' \in Tree /\ strays' \subseteq Contents
    BY <1>13, PutBackType DEF Interrupt
  <2>2. record' \in RecordType /\ journal' \in JournalType
    BY <1>13, <1>t DEF Interrupt, RecordType, JournalType
  <2>3. held' = Absent /\ temp' = Absent /\ pc' = "idle" /\ UNCHANGED <<finished, edits, killed>>
    BY <1>13 DEF Interrupt
  <2>4. faults' \in 0 .. MaxFaults
    BY <1>13, BootstrapAssumption DEF Interrupt, Running, TypeOK
  <2>5. Forget
    BY <1>13 DEF Interrupt
  <2> QED
    BY <2>1, <2>2, <2>3, <2>4, <2>5, ForgetType DEF TypeOK, RecordType, JournalType, ImagesType
<1>14. CASE Kill
  <2>1. strays' \subseteq Contents
    BY <1>14, Types DEF Kill
  <2>2. record' \in RecordType /\ journal' \in JournalType
    BY <1>14, <1>t, ConstantTypes DEF Kill
  <2>3. /\ held' = Absent /\ temp' = Absent /\ pc' = "idle" /\ killed' = TRUE
        /\ UNCHANGED <<files, finished, edits>>
    BY <1>14 DEF Kill
  <2>4. faults' \in 0 .. MaxFaults
    BY <1>14, BootstrapAssumption DEF Kill, Running, TypeOK
  <2>5. Forget
    BY <1>14 DEF Kill
  <2> QED
    BY <2>1, <2>2, <2>3, <2>4, <2>5, ForgetType DEF TypeOK, RecordType, JournalType, ImagesType
<1>15. CASE Edit
  <2>1. files' \in Tree
    BY <1>15, <1>t, ConstantTypes DEF Edit, Tree, Contents
  <2>2. strays' \subseteq Contents
    BY <1>15, Types DEF Edit, Contents
  <2>3. edits' \in 0 .. MaxEdits
    BY <1>15, BootstrapAssumption DEF Edit, TypeOK
  <2> QED
    BY <1>15, <2>1, <2>2, <2>3 DEF Edit, TypeOK
<1>16. CASE UNCHANGED vars
  BY <1>16 DEF vars, TypeOK
<1> QED
  BY <1>1, <1>2, <1>3, <1>4, <1>5, <1>6, <1>7, <1>8, <1>9, <1>10, <1>11, <1>12, <1>13, <1>14,
     <1>15, <1>16 DEF Next, Command, Recovering, Writing

\* Every reachable state has the types.
THEOREM TypeCorrect == Spec => []TypeOK
<1> QED
  BY TypeInit, TypeStep, PTL DEF Spec


(***************************************************************************)
(* Each part of the invariant is kept by every step                        *)
(***************************************************************************)

\* A claimed file goes back, or becomes a stray.
LEMMA PutBackIs ==
    ASSUME TypeOK, PutBack
    PROVE  \/ UNCHANGED files /\ strays' = strays \cup ({held} \ {Absent})
           \/ /\ held # Absent /\ files[cur] = Absent /\ UNCHANGED strays
              /\ files' = [files EXCEPT ![cur] = held]
BY DEF PutBack

LEMMA RecordFields ==
    ASSUME TypeOK
    PROVE  LET up == [record EXCEPT !.there = TRUE]
               down == [record EXCEPT !.there = FALSE]
           IN  /\ up.there = TRUE /\ up.status = record.status /\ up.pre = record.pre
               /\ up.others = record.others
               /\ down.there = FALSE /\ down.status = record.status /\ down.pre = record.pre
               /\ down.others = record.others
BY DEF TypeOK

\* Interruptions and kills end a run and keep the status, or lose the record.
LEMMA Stopped ==
    ASSUME TypeOK, Interrupt \/ Kill
    PROVE  /\ pc' = "idle" /\ held' = Absent /\ temp' = Absent
           /\ UNCHANGED <<finished, edits>>
           /\ \/ record' = record /\ (record.there \/ record.status = "none" \/ pc \notin Saving)
              \/ record' = NoRecord /\ ~record.there
              \/ /\ record'.there = TRUE /\ record.status # "none" /\ pc \in Saving
                 /\ record'.status = record.status /\ record'.pre = record.pre
                 /\ record'.others = record.others
<1>1. /\ pc' = "idle" /\ held' = Absent /\ temp' = Absent /\ UNCHANGED <<finished, edits>>
  BY DEF Interrupt, Kill
<1>2. CASE Interrupt
  BY <1>1, <1>2, RecordFields DEF Interrupt
<1>3. CASE Kill
  BY <1>1, <1>3 DEF Kill
<1> QED
  BY <1>2, <1>3

LEMMA PhasesStep == TypeOK /\ Phases /\ [Next]_vars => Phases'
<1> SUFFICES ASSUME TypeOK, Phases, [Next]_vars PROVE Phases'
  OBVIOUS
<1> USE DEF wiki, basis, bounds, Saving, Phases
<1>1. CASE Begin \/ RestoreCheck \/ Preflight \/ Recover
  BY <1>1 DEF Begin, RestoreCheck, Preflight, Recover, Pending
<1>2. CASE RestoreClaim \/ RestoreInstall
  BY <1>2 DEF RestoreClaim, RestoreInstall
<1>3. CASE UnlinkRecord
  BY <1>3, RecordFields DEF UnlinkRecord
<1>4. CASE SaveRecord
  BY <1>4, SaveRecordIs
<1>5. CASE Capture
  BY <1>5 DEF Capture, TypeOK
<1>6. CASE BeforeWrite
  <2>1. pc' \in {"idle", "journal", "stage"} /\ UNCHANGED <<wiki, record, finished>>
        /\ record.status = "writing" /\ record.there
    BY <1>6, BeforeWriteIs
  <2>2. pc' # "idle" => todo'[cur'] \in Generated
    BY <1>6, BeforeWriteIs DEF TypeOK
  <2> QED
    BY <2>1, <2>2, <1>6, BeforeWriteIs
<1>7. CASE UnlinkJournal \/ SaveJournal
  BY <1>7 DEF UnlinkJournal, SaveJournal
<1>8. CASE Stage \/ Replace
  BY <1>8 DEF Stage, Replace
<1>9. CASE AfterWrite
  BY <1>9 DEF AfterWrite
<1>10. CASE Finish \/ Refuse
  BY <1>10 DEF Finish, Refuse
<1>11. CASE Interrupt \/ Kill
  <2>1. pc' = "idle" /\ held' = Absent
    BY <1>11, Stopped
  <2>2. record'.status = "writing" => record'.there
    <3>1. CASE record' = NoRecord
      BY <3>1 DEF NoRecord
    <3>2. CASE record' = record /\ record.status = "writing"
      <4>1. CASE pc \in Saving /\ ~record.there
        <5>1. record'.there = TRUE \/ record' = NoRecord
          BY <1>11, <3>2, <4>1, Stopped
        <5> QED
          BY <3>2, <5>1 DEF NoRecord
      <4>2. CASE ~(pc \in Saving /\ ~record.there)
        BY <3>2, <4>2 DEF Phases
      <4> QED
        BY <4>1, <4>2
    <3> QED
      BY <1>11, <3>1, <3>2, Stopped
  <2> QED
    BY <2>1, <2>2
<1>12. CASE Edit
  BY <1>12 DEF Edit
<1>13. CASE UNCHANGED vars
  BY <1>13 DEF vars
<1> QED
  BY <1>1, <1>2, <1>3, <1>4, <1>5, <1>6, <1>7, <1>8, <1>9, <1>10, <1>11, <1>12, <1>13
     DEF Next, Command, Recovering, Writing

LEMMA AccountedStep ==
    TypeOK /\ Phases /\ Accounted /\ [Next]_vars => Accounted'
<1> SUFFICES ASSUME TypeOK, Phases, Accounted, [Next]_vars PROVE Accounted'
  OBVIOUS
<1> USE DEF wiki, basis, bounds
<1>t. /\ files \in [Names -> Contents \cup {Absent}] /\ record \in RecordType /\ cur \in Names
      /\ Absent \notin Generated /\ Scaffold \notin Generated
  BY Types, BootstrapAssumption
<1>k. UNCHANGED files => Output' = Output
  BY DEF Output
<1>p. Pristine => Output = {}
  BY <1>t DEF Pristine, Output, Empty, Initial
<1>1. CASE Begin \/ Preflight \/ Recover
  BY <1>1, <1>k, <1>p DEF Begin, Preflight, Recover, Accounted, Pristine
<1>2. CASE RestoreCheck
  <2>1. pc' = "restored" => Output = {}
    BY <1>2 DEF RestoreCheck, Holds, Output, Accounted
  <2> QED
    BY <1>2, <1>k, <2>1 DEF RestoreCheck, Accounted
<1>3. CASE RestoreClaim \/ RestoreInstall
  <2>1. record.status = "writing" /\ UNCHANGED <<record, finished>>
        /\ pc' \in {"restore", "restoring", "refused"}
    BY <1>3 DEF RestoreClaim, RestoreInstall, Phases
  <2> QED
    BY <2>1 DEF Accounted
<1>4. CASE UnlinkRecord
  BY <1>4, <1>k, RecordFields DEF UnlinkRecord, Accounted
<1>5. CASE SaveRecord
  BY <1>5, <1>k, SaveRecordIs DEF Accounted, Phases
<1>6. CASE Capture
  <2>1. /\ record' = [record EXCEPT !.pre = files, !.others = strays] /\ UNCHANGED files
        /\ pc' = "open" /\ Output = {}
    BY <1>6 DEF Capture, Accounted
  <2>2. record'.pre = files
    BY <2>1, <1>t DEF RecordType
  <2> QED
    BY <2>1, <2>2, <1>k DEF Accounted, Output
<1>7. CASE BeforeWrite \/ UnlinkJournal \/ SaveJournal \/ Stage \/ Replace \/ AfterWrite
  <2>1. /\ record.status = "writing" /\ UNCHANGED <<record, finished>>
        /\ pc' \notin {"abandon", "restored", "capture", "open"}
    BY <1>7, BeforeWriteIs
       DEF UnlinkJournal, SaveJournal, Stage, Replace, AfterWrite, Phases
  <2> QED
    BY <2>1 DEF Accounted
<1>8. CASE Finish \/ Refuse
  <2>1. /\ UNCHANGED <<record, files>> /\ pc' \in {"complete", "idle"} /\ (finished => finished')
    BY <1>8 DEF Finish, Refuse, TypeOK
  <2> QED
    BY <2>1, <1>k DEF Accounted
<1>9. CASE Interrupt \/ Kill
  <2>1. \A n \in Names : record'.pre[n] \notin Generated
    <3>1. \A n \in Names : NoRecord.pre[n] \notin Generated
      BY <1>t DEF NoRecord, Empty
    <3>2. record'.pre = record.pre \/ record' = NoRecord
      BY <1>9, Stopped
    <3> QED
      BY <3>1, <3>2 DEF Accounted
  <2>2. UNCHANGED files \/ (record' = record /\ record.status = "writing")
    <3>1. CASE held = Absent \/ Kill
      BY <1>9, <3>1, PutBackIs DEF Interrupt, Kill
    <3>2. CASE held # Absent /\ Interrupt
      BY <1>9, <3>2 DEF Interrupt, Phases, Saving
    <3> QED
      BY <1>9, <3>1, <3>2
  <2>3. UNCHANGED files /\ Output # {} /\ ~finished => record'.status = "writing"
    <3>1. SUFFICES ASSUME Output # {}, ~finished PROVE record'.status = "writing"
      OBVIOUS
    <3>2. record.status = "writing" /\ pc \notin {"abandon", "restored", "open", "complete"}
      BY <3>1 DEF Accounted, Phases
    <3>3. record.there
      BY <3>2 DEF Phases, Saving
    <3> QED
      BY <1>9, <3>2, <3>3, Stopped
  <2> QED
    BY <1>9, <1>k, <2>1, <2>2, <2>3, Stopped DEF Accounted
<1>10. CASE Edit
  <2>1. Output' \subseteq Output
    BY <1>10, <1>t, BootstrapAssumption DEF Edit, Output, Empty
  <2> QED
    BY <1>10, <2>1 DEF Edit, Accounted
<1>11. CASE UNCHANGED vars
  BY <1>11, <1>k DEF vars, Accounted
<1> QED
  BY <1>1, <1>2, <1>3, <1>4, <1>5, <1>6, <1>7, <1>8, <1>9, <1>10, <1>11
     DEF Next, Command, Recovering, Writing


\* What most steps leave alone: the preimage, and the images on record.
LEMMA RecordedKept ==
    ASSUME TypeOK, [Next]_vars, ~Capture, ~SaveJournal, ~Kill
    PROVE  /\ record'.pre = record.pre /\ record'.others = record.others
           /\ \A n \in Names : Recorded(n)' = Recorded(n)
<1> USE DEF wiki, basis, bounds
<1>1. CASE Interrupt
  <2>1. record'.pre = record.pre /\ record'.others = record.others
    BY <1>1, RecordFields DEF Interrupt
  <2>2. pc' # "journaling" /\ journal'.images = journal.images
        /\ (journal'.there <=> journal.there \/ pc = "journaling")
    BY <1>1 DEF Interrupt, TypeOK
  <2> QED
    BY <2>1, <2>2 DEF Recorded
<1>2. CASE UnlinkJournal
  BY <1>2 DEF UnlinkJournal, Recorded, TypeOK
<1>3. CASE UnlinkRecord
  BY <1>3, RecordFields DEF UnlinkRecord, Recorded
<1>4. CASE SaveRecord
  BY <1>4, SaveRecordIs DEF Recorded
<1>5. CASE BeforeWrite
  BY <1>5, BeforeWriteIs DEF Recorded
<1>6. CASE Begin \/ Recover \/ RestoreClaim \/ RestoreInstall \/ RestoreCheck \/ Refuse
  BY <1>6 DEF Begin, Recover, RestoreClaim, RestoreInstall, RestoreCheck, Refuse, Recorded
<1>7. CASE Preflight \/ Stage \/ Replace \/ AfterWrite \/ Finish
  BY <1>7 DEF Preflight, Stage, Replace, AfterWrite, Finish, Recorded
<1>8. CASE Edit \/ UNCHANGED vars
  BY <1>8 DEF Edit, vars, Recorded
<1> QED
  BY <1>1, <1>2, <1>3, <1>4, <1>5, <1>6, <1>7, <1>8 DEF Next, Command, Recovering, Writing

\* A kill may lose the journal, and then only the preimage is left on record.
LEMMA KillRecords ==
    ASSUME TypeOK, Kill, Begun'
    PROVE  /\ record' = record /\ record.status = "writing"
           /\ \A n \in Names : Recorded(n)' \in {Recorded(n), {record.pre[n]}}
<1>1. pc' = "idle" /\ record' = (IF record.there THEN record ELSE NoRecord)
      /\ journal' = IF journal.there THEN journal ELSE NoJournal
  BY DEF Kill
<1>2. record' = record /\ record.status = "writing"
  BY <1>1 DEF Begun, NoRecord
<1> QED
  BY <1>1, <1>2 DEF Recorded, NoJournal

\* Operations are begun by a capture, and only the basis adds images.
LEMMA Continues ==
    ASSUME TypeOK, Phases, [Next]_vars, ~Capture, ~BeforeWrite
    PROVE  /\ Begun' => Begun
           /\ pc' \in Publishing => pc \in Publishing /\ images' = images
           /\ pc' \in {"journal", "journaling"} =>
                  pc \in {"journal", "journaling"} /\ UNCHANGED <<todo, cur, images>>
<1> USE DEF wiki, basis, bounds, Begun, Publishing
<1>1. CASE Interrupt \/ Kill
  <2>1. pc' = "idle" /\ (record'.status = record.status \/ record' = NoRecord)
    BY <1>1, Stopped
  <2>2. record'.status = "writing" => record.status = "writing"
    BY <2>1 DEF NoRecord
  <2> QED
    BY <2>1, <2>2
<1>2. CASE UnlinkJournal \/ SaveJournal
  BY <1>2 DEF UnlinkJournal, SaveJournal
<1>3. CASE UnlinkRecord
  BY <1>3, RecordFields DEF UnlinkRecord
<1>4. CASE SaveRecord
  BY <1>4, SaveRecordIs
<1>5. CASE Begin \/ Recover \/ RestoreClaim \/ RestoreInstall \/ RestoreCheck \/ Refuse
  BY <1>5 DEF Begin, Recover, RestoreClaim, RestoreInstall, RestoreCheck, Refuse
<1>6. CASE Preflight \/ Stage \/ Replace \/ AfterWrite \/ Finish
  BY <1>6 DEF Preflight, Stage, Replace, AfterWrite, Finish
<1>7. CASE Edit \/ UNCHANGED vars
  BY <1>7 DEF Edit, vars
<1> QED
  BY <1>1, <1>2, <1>3, <1>4, <1>5, <1>6, <1>7 DEF Next, Command, Recovering, Writing

\* What a capture puts on record.
LEMMA Captured ==
    ASSUME TypeOK, Capture
    PROVE  /\ record'.pre = files /\ record'.others = strays /\ record'.status = record.status
           /\ pc' = "open" /\ UNCHANGED <<files, strays, held, bounds>>
           /\ \A n \in Names : Recorded(n)' = {files[n]} /\ images'[n] = {files[n]}
<1>1. record'.pre = files /\ record'.others = strays /\ record'.status = record.status
  BY DEF Capture, TypeOK
<1>2. journal'.there = FALSE /\ pc' = "open" /\ UNCHANGED <<files, strays, held, bounds>>
      /\ images' = [n \in Names |-> {files[n]}]
  BY DEF Capture, NoJournal, wiki
<1> QED
  BY <1>1, <1>2 DEF Recorded

LEMMA KnownStep == TypeOK /\ Phases /\ Known /\ [Next]_vars => Known'
<1> SUFFICES ASSUME TypeOK, Phases, Known, [Next]_vars PROVE Known'
  OBVIOUS
<1>t. images \in ImagesType /\ todo \in [Names -> Generated \cup {Absent}] /\ cur \in Names
  BY Types
<1>1. CASE Capture
  BY <1>1, Captured DEF Known
<1>2. CASE SaveJournal
  <2>1. /\ pc \in {"journal", "journaling"} /\ pc' = "stage" /\ UNCHANGED <<record, images>>
        /\ journal' = [there |-> TRUE, images |-> images]
    BY <1>2 DEF SaveJournal, basis
  <2>2. \A n \in Names : Recorded(n)' = images[n]
    BY <2>1 DEF Recorded
  <2>3. Begun
    BY <2>1 DEF Phases, Begun
  <2> QED
    BY <2>1, <2>2, <2>3 DEF Known, Publishing
<1>3. CASE Kill
  <2>1. pc' = "idle"
    BY <1>3 DEF Kill
  <2>2. ASSUME Begun' PROVE \A n \in Names : /\ record'.pre[n] \in Recorded(n)'
                                 /\ Recorded(n)' \subseteq {record'.pre[n]} \cup Generated
    BY <1>3, <2>2, KillRecords DEF Known, Begun
  <2> QED
    BY <2>1, <2>2 DEF Known, Publishing
<1>4. CASE BeforeWrite
  <2>1. record.status = "writing" /\ pc = "write" /\ record' = record
    BY <1>4, BeforeWriteIs DEF Phases
  <2>2. \A n \in Names : Recorded(n)' = Recorded(n)
    BY <1>4, BeforeWriteIs DEF Recorded
  <2>3. CASE pc' = "idle"
    BY <2>1, <2>2, <2>3 DEF Known, Begun, Publishing
  <2>4. CASE pc' # "idle"
    <3>1. todo[cur'] \in Generated /\ cur' \in Names /\ todo' = todo
      BY <1>4, <1>t, <2>4, BeforeWriteIs
    <3>2. pc' \in {"stage", "journal"}
      BY <1>4, <2>4, BeforeWriteIs
    <3>3. \/ images' = images /\ pc' = "stage"
          \/ images' = [images EXCEPT ![cur'] = @ \cup {todo[cur']}]
      BY <1>4, <2>4, BeforeWriteIs
    <3>4. \A n \in Names : /\ Recorded(n) \subseteq images[n]
                           /\ images[n] \subseteq {record.pre[n]} \cup Generated
      BY <2>1 DEF Known, Publishing
    <3>5. \A n \in Names : images'[n] \in {images[n], images[n] \cup {todo[cur']}}
      BY <1>t, <3>1, <3>3 DEF ImagesType
    <3>6. \A n \in Names : /\ Recorded(n)' \subseteq images'[n]
                           /\ images'[n] \subseteq {record'.pre[n]} \cup Generated
      BY <2>1, <2>2, <3>1, <3>4, <3>5
    <3>7. pc' = "journal" => todo'[cur'] \in images'[cur']
      BY <1>t, <3>1, <3>3 DEF ImagesType
    <3> QED
      BY <2>1, <2>2, <3>2, <3>6, <3>7 DEF Known, Begun
  <2> QED
    BY <2>3, <2>4
<1>5. CASE ~Capture /\ ~SaveJournal /\ ~Kill /\ ~BeforeWrite
  BY <1>5, RecordedKept, Continues DEF Known
<1> QED
  BY <1>1, <1>2, <1>3, <1>4, <1>5


LEMMA AheadStep ==
    TypeOK /\ Phases /\ Accounted /\ Known /\ Ahead /\ [Next]_vars => Ahead'
<1> SUFFICES ASSUME TypeOK, Phases, Accounted, Known, Ahead, [Next]_vars PROVE Ahead'
  OBVIOUS
<1>c. cur' \in Names
  BY TypeStep DEF TypeOK
<1> SUFFICES ASSUME ~killed', Begun'
             PROVE  \A n \in Names :
                        /\ files'[n] \in Generated => files'[n] \in Recorded(n)'
                        /\ n = cur' /\ held' \in Generated => held' \in Recorded(n)'
                        /\ n = cur' /\ pc' \in {"stage", "replace"} =>
                               todo'[n] \in Recorded(n)'
  BY <1>c DEF Ahead, Recorded, Output
<1> USE DEF wiki, basis, bounds
<1>t. /\ files \in [Names -> Contents \cup {Absent}] /\ cur \in Names
      /\ todo \in [Names -> Generated \cup {Absent}] /\ Absent \notin Generated
      /\ images \in ImagesType
  BY Types, BootstrapAssumption
<1>1. CASE Capture
  <2>1. held = Absent /\ Output = {}
    BY <1>1 DEF Capture, Phases, Accounted
  <2> QED
    BY <1>1, <1>t, <2>1, Captured DEF Output
<1>2. CASE Kill
  BY <1>2 DEF Kill
<1>3. ASSUME ~Capture, ~Kill
      PROVE  ~killed /\ Begun
  <2>1. ~killed
    BY <1>3 DEF Next, Command, Recovering, Writing, vars, Begin, Recover, RestoreClaim,
       RestoreInstall, RestoreCheck, Refuse, UnlinkRecord, SaveRecord, Preflight, BeforeWrite,
       UnlinkJournal, SaveJournal, Stage, Replace, AfterWrite, Finish, Interrupt, Edit
  <2>2. CASE BeforeWrite
    BY <2>1, <2>2, BeforeWriteIs DEF Phases, Begun
  <2> QED
    BY <1>3, <2>1, <2>2, Continues
<1>4. CASE SaveJournal
  <2>1. /\ pc \in {"journal", "journaling"} /\ pc' = "stage"
        /\ UNCHANGED <<wiki, images, todo, cur>>
        /\ journal' = [there |-> TRUE, images |-> images]
    BY <1>4 DEF SaveJournal
  <2>2. ~Capture /\ ~Kill
    BY <2>1 DEF Capture, Kill
  <2>3. \A n \in Names : Recorded(n)' = images[n] /\ Recorded(n) \subseteq images[n]
    BY <2>1 DEF Recorded, Known, Publishing
  <2>4. todo[cur] \in images[cur]
    BY <2>1 DEF Known
  <2>5. \A n \in Output : files[n] \in Recorded(n)
    BY <1>3, <2>2 DEF Ahead
  <2>6. held \in Generated => held \in Recorded(cur)
    BY <1>3, <2>2 DEF Ahead
  <2> QED
    BY <1>t, <2>1, <2>3, <2>4, <2>5, <2>6 DEF Output
<1>5. CASE ~Capture /\ ~Kill /\ ~SaveJournal
  <2>r. record'.pre = record.pre /\ \A n \in Names : Recorded(n)' = Recorded(n)
    BY <1>5, RecordedKept
  <2>a. /\ \A n \in Names : files[n] \in Generated => files[n] \in Recorded(n)
        /\ held \in Generated => held \in Recorded(cur)
        /\ pc \in {"stage", "replace"} => todo[cur] \in Recorded(cur)
    BY <1>3, <1>5 DEF Ahead, Output
  <2>1. CASE UNCHANGED <<files, held, cur, todo>> /\ pc' \notin {"stage", "replace"}
    BY <2>1, <2>r, <2>a
  <2>2. CASE RestoreClaim
    BY <1>t, <2>2, <2>r, <2>a DEF RestoreClaim, Differing
  <2>3. CASE RestoreInstall \/ Interrupt
    <3>1. held' = Absent /\ pc' \notin {"stage", "replace"}
      BY <2>3 DEF RestoreInstall, Interrupt
    <3>2. \A n \in Names : \/ files'[n] = files[n] \/ files'[n] = record.pre[n]
                           \/ files'[n] = held /\ n = cur
      BY <1>t, <2>3, PutBackIs DEF RestoreInstall, Interrupt
    <3> QED
      BY <1>t, <2>r, <2>a, <3>1, <3>2 DEF Accounted
  <2>4. CASE BeforeWrite
    <3>1. UNCHANGED <<files, held>> /\ held = Absent
      BY <2>4, BeforeWriteIs DEF Phases
    <3>2. pc' = "stage" => todo'[cur'] = files[cur'] /\ todo'[cur'] \in Generated
      BY <1>t, <2>4, BeforeWriteIs
    <3>3. pc' # "replace"
      BY <2>4, BeforeWriteIs
    <3> QED
      BY <1>c, <1>t, <2>r, <2>a, <3>1, <3>2, <3>3
  <2>5. CASE Stage \/ Replace
    <3>1. UNCHANGED <<held, todo, cur>> /\ pc \in {"stage", "replace"}
      BY <2>5 DEF Stage, Replace
    <3>2. \A n \in Names : files'[n] # files[n] => n = cur /\ files'[n] = todo[cur]
      BY <1>t, <2>5 DEF Stage, Replace, Phases
    <3> QED
      BY <2>r, <2>a, <3>1, <3>2
  <2>6. CASE AfterWrite \/ Finish \/ Refuse
    <3>1. UNCHANGED <<files, held>> /\ held = Absent /\ pc' \notin {"stage", "replace"}
      BY <2>6 DEF AfterWrite, Finish, Refuse, Phases
    <3> QED
      BY <1>t, <2>r, <2>a, <3>1
  <2>7. CASE Edit
    <3>1. UNCHANGED <<held, todo, cur, pc>>
      BY <2>7 DEF Edit
    <3>2. \A n \in Names : files'[n] = files[n] \/ files'[n] \notin Generated
      BY <1>t, <2>7, BootstrapAssumption DEF Edit, Empty
    <3> QED
      BY <2>r, <2>a, <3>1, <3>2
  <2>8. \/ UNCHANGED <<files, held, cur, todo>> /\ pc' \notin {"stage", "replace"}
        \/ RestoreClaim \/ RestoreInstall \/ Interrupt \/ BeforeWrite \/ Stage \/ Replace
        \/ AfterWrite \/ Finish \/ Refuse \/ Edit \/ UNCHANGED vars
    BY <1>5, SaveRecordIs DEF Next, Command, Recovering, Writing, Begin, Recover, RestoreCheck,
       UnlinkRecord, Preflight, UnlinkJournal, Saving
  <2>9. CASE UNCHANGED vars
    BY <2>9, <2>r, <2>a DEF vars
  <2> QED
    BY <2>1, <2>2, <2>3, <2>4, <2>5, <2>6, <2>7, <2>8, <2>9
<1> QED
  BY <1>1, <1>2, <1>4, <1>5


LEMMA ValidatedStep ==
    TypeOK /\ Phases /\ Known /\ Validated /\ [Next]_vars => Validated'
<1> SUFFICES ASSUME TypeOK, Phases, Known, Validated, [Next]_vars PROVE Validated'
  OBVIOUS
<1> USE DEF wiki, basis, bounds
<1>t. seen \in [Names -> Contents \cup {Absent}] /\ cur \in Names
  BY Types DEF Tree
<1>1. CASE Recover
  <2>1. CASE pc' = "restore"
    <3>1. seen' = files /\ record' = record /\ \A n \in Names : files[n] \in Eligible(n)
      BY <1>1, <2>1 DEF Recover
    <3>2. pc = "recover" /\ record.status = "writing"
      BY <1>1 DEF Recover, Phases
    <3>3. \A n \in Names : files[n] \in {record.pre[n]} \cup Generated
      BY <3>1, <3>2 DEF Eligible, Known, Recorded, Begun
    <3> QED
      BY <2>1, <3>1, <3>3 DEF Validated
  <2>2. CASE pc' # "restore"
    BY <1>1, <2>2 DEF Recover, Validated
  <2> QED
    BY <2>1, <2>2
<1>2. CASE RestoreClaim
  BY <1>2 DEF RestoreClaim, Differing, Validated
<1>3. CASE RestoreInstall
  BY <1>3, <1>t DEF RestoreInstall, Validated
<1>4. CASE Edit \/ UNCHANGED vars
  BY <1>4 DEF Edit, vars, Validated
<1>5. pc' \notin {"restore", "restoring"} \/ Recover \/ RestoreClaim \/ RestoreInstall
      \/ Edit \/ UNCHANGED vars
  BY SaveRecordIs, BeforeWriteIs, Stopped
     DEF Next, Command, Recovering, Writing, Begin, RestoreCheck, Refuse, UnlinkRecord, Saving,
         Preflight, Capture, UnlinkJournal, SaveJournal, Stage, Replace, AfterWrite, Finish
<1> QED
  BY <1>1, <1>2, <1>3, <1>4, <1>5 DEF Validated

LEMMA EditsAndKills ==
    ASSUME TypeOK, [Next]_vars, ~Edit, ~Kill
    PROVE  edits' = edits /\ killed' = killed
<1> USE DEF wiki, basis, bounds
<1>1. CASE SaveRecord \/ BeforeWrite
  BY <1>1, SaveRecordIs, BeforeWriteIs
<1>2. CASE Begin \/ Recover \/ RestoreClaim \/ RestoreInstall \/ RestoreCheck \/ Refuse
           \/ UnlinkRecord
  BY <1>2 DEF Begin, Recover, RestoreClaim, RestoreInstall, RestoreCheck, Refuse, UnlinkRecord
<1>3. CASE Preflight \/ Capture \/ UnlinkJournal \/ SaveJournal \/ Stage \/ Replace
           \/ AfterWrite \/ Finish
  BY <1>3 DEF Preflight, Capture, UnlinkJournal, SaveJournal, Stage, Replace, AfterWrite, Finish
<1>4. CASE Interrupt \/ UNCHANGED vars
  BY <1>4 DEF Interrupt, vars
<1> QED
  BY <1>1, <1>2, <1>3, <1>4 DEF Next, Command, Recovering, Writing

\* Without edits and kills there are only a few steps that change the wiki.
LEMMA QuietSteps ==
    ASSUME TypeOK, [Next]_vars, Untouched'
    PROVE  /\ Untouched /\ ~Edit /\ ~Kill
           /\ \/ Recover \/ RestoreClaim \/ RestoreInstall \/ RestoreCheck
              \/ Capture \/ SaveJournal \/ Replace \/ Interrupt
              \/ /\ UNCHANGED <<files, strays>>
                 /\ pc' \notin {"restore", "restoring", "refused"}
              \/ UNCHANGED vars
<1> USE DEF wiki, basis, bounds
<1>1. ~Edit /\ ~Kill
  BY DEF Untouched, Edit, Kill, TypeOK
<1>2. Untouched
  BY <1>1, EditsAndKills DEF Untouched
<1>3. CASE Begin \/ Refuse \/ UnlinkRecord \/ Preflight \/ UnlinkJournal \/ Stage
           \/ AfterWrite \/ Finish
  BY <1>1, <1>2, <1>3 DEF Begin, Refuse, UnlinkRecord, Saving, Preflight, UnlinkJournal, Stage,
     AfterWrite, Finish
<1>4. CASE SaveRecord \/ BeforeWrite
  BY <1>1, <1>2, <1>4, SaveRecordIs, BeforeWriteIs
<1> QED
  BY <1>1, <1>2, <1>3, <1>4 DEF Next, Command, Recovering, Writing

LEMMA QuietStep == Inv /\ [Next]_vars => Quiet'
<1> SUFFICES ASSUME Inv, [Next]_vars, Untouched'
             PROVE  /\ strays' = {} /\ pc' # "refused"
                    /\ Begun' => /\ record'.others = {}
                                 /\ \A n \in Names : \/ files'[n] \in Recorded(n)'
                                                     \/ pc' = "restoring" /\ n = cur'
                    /\ pc' \in {"restore", "restoring"} =>
                          \A n \in Names :
                              /\ seen'[n] \in Recorded(n)'
                              /\ files'[n] # seen'[n] => pc' = "restoring" /\ n = cur'
                    /\ pc' = "restoring" => held' = seen'[cur'] /\ files'[cur'] = Absent
  BY DEF Quiet, QuietWiki, Untouched
<1> USE DEF wiki, basis, bounds
<1>i. TypeOK /\ Phases /\ Accounted /\ Known /\ Ahead /\ Validated /\ Quiet
  BY DEF Inv
<1>t. /\ files \in [Names -> Contents \cup {Absent}] /\ cur \in Names
      /\ seen \in [Names -> Contents \cup {Absent}]
      /\ record.pre \in [Names -> Contents \cup {Absent}]
  BY <1>i, Types DEF Tree, RecordType
<1>u. Untouched
  BY <1>i, QuietSteps
<1>w. QuietWiki
  BY <1>i, <1>u DEF Quiet
<1>q. /\ strays = {} /\ pc # "refused"
      /\ Begun => /\ record.others = {}
                  /\ \A n \in Names : \/ files[n] \in Recorded(n)
                                      \/ pc = "restoring" /\ n = cur
      /\ pc \in {"restore", "restoring"} =>
             \A n \in Names : /\ seen[n] \in Recorded(n)
                              /\ files[n] # seen[n] => pc = "restoring" /\ n = cur
      /\ pc = "restoring" => held = seen[cur] /\ files[cur] = Absent
  BY <1>w DEF QuietWiki
<1>b. Begun => \A n \in Names : record.pre[n] \in Recorded(n)
  BY <1>i DEF Known
<1>r. ASSUME ~Capture, ~SaveJournal
      PROVE  /\ record'.pre = record.pre /\ record'.others = record.others
             /\ \A n \in Names : Recorded(n)' = Recorded(n)
  BY <1>i, <1>r, RecordedKept, QuietSteps
<1>g. ASSUME ~Capture, Begun' PROVE Begun
  BY <1>i, <1>g, Continues, BeforeWriteIs DEF Phases, Begun
<1>1. CASE Recover
  <2>1. pc = "recover" /\ record.status = "writing" /\ UNCHANGED <<files, strays, record, journal>>
    BY <1>1, <1>i DEF Recover, Phases
  <2>2. \A n \in Names : Eligible(n) = Recorded(n) /\ Recorded(n)' = Recorded(n)
    <3>1. pc' # "journaling"
      BY <1>1 DEF Recover
    <3> QED
      BY <2>1, <3>1 DEF Eligible, Recorded
  <2>3. record.others = {} /\ \A n \in Names : files[n] \in Recorded(n)
    BY <1>q, <2>1 DEF Begun
  <2>4. pc' = "abandon" \/ (pc' = "restore" /\ seen' = files)
    BY <1>1, <1>q, <2>2, <2>3 DEF Recover
  <2> QED
    BY <1>q, <2>1, <2>2, <2>3, <2>4
<1>2. CASE RestoreClaim
  <2>1. PICK n \in Names : cur' = n /\ held' = files[n] /\ files' = [files EXCEPT ![n] = Absent]
    BY <1>2 DEF RestoreClaim, Differing
  <2>2. /\ pc = "restore" /\ pc' = "restoring" /\ UNCHANGED <<strays, record, journal, seen>>
        /\ record.status = "writing"
    BY <1>2, <1>i DEF RestoreClaim, Phases
  <2>3. \A m \in Names : Recorded(m)' = Recorded(m)
    BY <2>2 DEF Recorded
  <2>4. \A m \in Names : files'[m] = IF m = n THEN Absent ELSE files[m]
    BY <1>t, <2>1
  <2> QED
    BY <1>q, <2>1, <2>2, <2>3, <2>4 DEF Begun
<1>3. CASE RestoreInstall
  <2>1. /\ pc = "restoring" /\ held = seen[cur] /\ files[cur] = Absent
        /\ record.status = "writing" /\ UNCHANGED <<record, journal>>
    BY <1>3, <1>i, <1>q DEF RestoreInstall, Phases
  <2>2. /\ pc' = "restore" /\ UNCHANGED strays
        /\ seen' = [seen EXCEPT ![cur] = record.pre[cur]]
        /\ files' = IF record.pre[cur] = Absent THEN files
                    ELSE [files EXCEPT ![cur] = record.pre[cur]]
    BY <1>3, <2>1 DEF RestoreInstall
  <2>3. \A n \in Names : Recorded(n)' = Recorded(n)
    BY <2>1, <2>2 DEF Recorded
  <2>4. \A n \in Names : /\ seen'[n] = IF n = cur THEN record.pre[n] ELSE seen[n]
                         /\ files'[n] = IF n = cur THEN record.pre[n] ELSE files[n]
    BY <1>t, <2>1, <2>2
  <2> QED
    BY <1>q, <1>b, <2>1, <2>2, <2>3, <2>4 DEF Begun
<1>4. CASE RestoreCheck
  <2>1. pc = "restore" /\ Differing = {} /\ UNCHANGED <<files, strays, record, journal>>
        /\ record.status = "writing"
    BY <1>4, <1>i DEF RestoreCheck, Phases
  <2>2. \A n \in Names : files[n] = record.pre[n]
    BY <1>q, <2>1 DEF Differing
  <2>3. Holds(record.pre)
    BY <1>t, <1>q, <2>1, <2>2 DEF Holds, Begun
  <2>4. pc' = "restored"
    BY <1>4, <2>3 DEF RestoreCheck
  <2>5. \A n \in Names : Recorded(n)' = Recorded(n)
    BY <2>1, <2>4 DEF Recorded
  <2> QED
    BY <1>q, <2>1, <2>4, <2>5 DEF Begun
<1>5. CASE Capture
  BY <1>5, <1>i, <1>q, Captured
<1>6. CASE SaveJournal
  <2>1. /\ pc \in {"journal", "journaling"} /\ pc' = "stage" /\ UNCHANGED <<files, strays, record>>
        /\ journal' = [there |-> TRUE, images |-> images] /\ record.status = "writing"
    BY <1>6, <1>i DEF SaveJournal, Phases
  <2>2. \A n \in Names : Recorded(n)' = images[n] /\ Recorded(n) \subseteq images[n]
    BY <1>i, <2>1 DEF Recorded, Known, Publishing
  <2> QED
    BY <1>q, <2>1, <2>2 DEF Begun
<1>7. CASE Replace
  <2>1. /\ pc = "replace" /\ pc' = "after" /\ UNCHANGED <<strays, record, journal, cur>>
        /\ files' = [files EXCEPT ![cur] = todo[cur]] /\ record.status = "writing"
    BY <1>7, <1>i DEF Replace, Phases
  <2>2. todo[cur] \in Recorded(cur)
    BY <1>i, <1>u, <2>1 DEF Ahead, Untouched, Begun
  <2>3. \A n \in Names : Recorded(n)' = Recorded(n)
    BY <2>1 DEF Recorded
  <2>4. \A n \in Names : files'[n] = IF n = cur THEN todo[cur] ELSE files[n]
    BY <1>t, <2>1
  <2> QED
    BY <1>q, <2>1, <2>2, <2>3, <2>4 DEF Begun
<1>8. CASE Interrupt
  <2>1. pc' = "idle" /\ ~Capture /\ ~SaveJournal /\ PutBack
    BY <1>8 DEF Interrupt, Capture, SaveJournal
  <2>2. /\ UNCHANGED strays
        /\ \A n \in Names : files'[n] = files[n] \/ (n = cur /\ files'[n] = held)
    BY <1>t, <1>i, <1>q, <2>1 DEF PutBack, Phases
  <2>3. pc = "restoring" => files'[cur] = seen[cur]
    BY <1>t, <1>q, <2>1 DEF PutBack
  <2>4. pc # "restoring" => UNCHANGED files
    BY <1>i, <2>1 DEF PutBack, Phases
  <2> QED
    BY <1>q, <1>r, <1>g, <2>1, <2>2, <2>3, <2>4
<1>9. CASE UNCHANGED <<files, strays>> /\ pc' \notin {"restore", "restoring", "refused"}
           /\ ~Capture /\ ~SaveJournal /\ ~RestoreInstall /\ ~Interrupt
  <2>1. pc # "restoring" \/ ~Begun'
    BY <1>9, <1>i, QuietSteps, SaveRecordIs, BeforeWriteIs
       DEF Next, Command, Recovering, Writing, vars, Begin, Recover, RestoreClaim, RestoreCheck,
           Refuse, UnlinkRecord, Saving, SaveRecord, Preflight, BeforeWrite, UnlinkJournal,
           Stage, Replace, AfterWrite, Finish
  <2> QED
    BY <1>9, <1>q, <1>r, <1>g, <2>1
<1>10. CASE UNCHANGED vars
  BY <1>10, <1>q DEF vars, Begun, Recorded
<1> QED
  BY <1>i, <1>1, <1>2, <1>3, <1>4, <1>5, <1>6, <1>7, <1>8, <1>9, <1>10, QuietSteps


(***************************************************************************)
(* The theorems                                                            *)
(***************************************************************************)

LEMMA InvInit == Init => Inv
<1> SUFFICES ASSUME Init PROVE Inv
  OBVIOUS
<1>t. TypeOK /\ Absent \notin Generated /\ Scaffold \notin Generated
  BY TypeInit, BootstrapAssumption
<1>1. /\ pc = "idle" /\ record.status = "none" /\ held = Absent /\ strays = {}
      /\ \A n \in Names : record.pre[n] = Absent
  BY DEF Init, NoRecord, Empty
<1>2. Output = {}
  BY <1>t DEF Init, Output, Empty, Initial
<1> QED
  BY <1>t, <1>1, <1>2
     DEF Inv, Phases, Accounted, Known, Ahead, Validated, Quiet, QuietWiki, Begun,
         Publishing

LEMMA Invariant == Spec => []Inv
<1>1. Inv /\ [Next]_vars => Inv'
  BY TypeStep, PhasesStep, AccountedStep, KnownStep, AheadStep, ValidatedStep, QuietStep DEF Inv
<1> QED
  BY <1>1, InvInit, PTL DEF Spec

\* Output that no finished bootstrap accounts for always comes with a record
\* that stops every other writer, wherever and however often runs end.
THEOREM PartialStaysGuarded == Spec => []PartialIsGuarded
<1>1. Inv => PartialIsGuarded
  <2> SUFFICES ASSUME Inv, Output # {}, ~finished PROVE Pending
    BY DEF PartialIsGuarded
  <2>1. record.status = "writing" /\ pc \notin {"abandon", "restored", "open", "complete"}
    BY DEF Inv, Accounted, Phases
  <2> QED
    BY <2>1 DEF Inv, Phases, Saving, Pending
<1> QED
  BY <1>1, Invariant, PTL

\* Whatever is published was on record before, unless a kill lost the journal.
THEOREM JournalIsAhead == Spec => []JournalAhead
<1>1. Inv => JournalAhead
  BY DEF Inv, Ahead, JournalAhead, Pending, Begun, Recorded, Eligible
<1> QED
  BY <1>1, Invariant, PTL

\* However often a bootstrap is interrupted, its recovery is not refused while
\* nobody edits the wiki.
THEOREM InterruptedIsRecovered == Spec => []InterruptedNotRefused
<1>1. Inv => InterruptedNotRefused
  BY DEF Inv, Quiet, QuietWiki, InterruptedNotRefused
<1> QED
  BY <1>1, Invariant, PTL

LEMMA KeepsStep == Inv /\ [Next]_vars => [KeepsEdits]_vars
<1> SUFFICES ASSUME Inv, [Next]_vars, pc \in {"recover", "restore", "restoring"}, edits' = edits,
                    NEW u \in UserBytes
             PROVE  u \in UserBytes'
  BY DEF KeepsEdits
<1> USE DEF wiki, basis, bounds
<1>i. TypeOK /\ Phases /\ Known /\ Validated
  BY DEF Inv
<1>t. /\ files \in [Names -> Contents \cup {Absent}] /\ cur \in Names
      /\ seen \in [Names -> Contents \cup {Absent}]
      /\ Absent \notin User /\ Generated \cap User = {}
  BY <1>i, Types, BootstrapAssumption DEF Tree
<1>u. u \in User /\ ((\E n \in Names : u = files[n]) \/ u \in strays \/ u = held)
  BY DEF UserBytes
<1>s. SUFFICES (\E n \in Names : u = files'[n]) \/ u \in strays' \/ u = held'
  BY <1>u DEF UserBytes
<1>1. CASE UNCHANGED <<files, strays, held>>
  BY <1>1, <1>u
<1>2. CASE RestoreClaim
  BY <1>2, <1>i, <1>t, <1>u DEF RestoreClaim, Phases, Differing
<1>3. CASE RestoreInstall
  <2>1. CASE held = seen[cur] /\ (record.pre[cur] # Absent => files[cur] = Absent)
    <3>1. held \in Generated
      BY <1>3, <2>1, <1>i, <1>t DEF RestoreInstall, Validated
    <3>2. UNCHANGED strays /\ \A n \in Names : files'[n] = files[n] \/ files[n] = Absent
      BY <1>3, <1>t, <2>1 DEF RestoreInstall
    <3> QED
      BY <1>t, <1>u, <3>1, <3>2
  <2>2. CASE ~(held = seen[cur] /\ (record.pre[cur] # Absent => files[cur] = Absent))
    <3>1. PutBack
      BY <1>3, <2>2 DEF RestoreInstall
    <3> QED
      BY <1>t, <1>u, <3>1 DEF PutBack
  <2> QED
    BY <2>1, <2>2
<1>4. CASE Interrupt
  BY <1>4, <1>t, <1>u DEF Interrupt, PutBack
<1>5. CASE Kill
  BY <1>5, <1>t, <1>u DEF Kill
<1>6. UNCHANGED <<files, strays, held>> \/ RestoreClaim \/ RestoreInstall \/ Interrupt \/ Kill
  <2>1. ~Edit
    BY <1>i DEF Edit, TypeOK
  <2>2. CASE SaveRecord \/ BeforeWrite
    BY <1>i, <2>2, SaveRecordIs, BeforeWriteIs
  <2>3. CASE UNCHANGED vars
    BY <2>3 DEF vars
  <2> QED
    BY <2>1, <2>2, <2>3 DEF Next, Command, Recovering, Writing, Begin, Recover, RestoreCheck,
       Refuse, UnlinkRecord, Preflight, Capture, UnlinkJournal, SaveJournal, Stage, Replace,
       AfterWrite, Finish
<1> QED
  BY <1>1, <1>2, <1>3, <1>4, <1>5, <1>6

\* No recovery takes away what users wrote, even while it runs.
THEOREM RecoveryLeavesEdits == Spec => RecoveryKeepsEdits
<1> QED
  BY KeepsStep, Invariant, PTL DEF Spec, RecoveryKeepsEdits
=============================================================================

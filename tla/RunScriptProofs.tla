-------------------------- MODULE RunScriptProofs ---------------------------
(***************************************************************************)
(* What holds of the job script for every number of subjobs, every         *)
(* template, every order in which the subjobs are started and every number *)
(* of slots.  The inductive invariant IInv is defined in RunScript.        *)
(***************************************************************************)
EXTENDS RunScript, FiniteSetTheorems, TLAPS

\* The last subjob is one of the subjobs, and so is subjob 0.
LEMMA SubFacts == /\ Last \in Sub
                  /\ 0 \in Sub
                  /\ IsFiniteSet(Sub)
                  /\ Cardinality(Sub) = NumSubjobs
<1>1. Last \in Sub /\ 0 \in Sub
  BY NumSubjobsAssumption DEF Sub, Last
<1>2. 0 \in Int /\ NumSubjobs - 1 \in Int /\ ~(0 > NumSubjobs - 1)
  BY NumSubjobsAssumption
<1>3. IsFiniteSet(Sub) /\ Cardinality(Sub) = (NumSubjobs - 1) - 0 + 1
  BY <1>2, FS_Interval DEF Sub
<1> QED BY <1>1, <1>3, NumSubjobsAssumption

\* The barrier counts status files: when it sees as many final ones as there
\* are subjobs, it has seen every subjob.
LEMMA CountingAll ==
  ASSUME NEW S \in SUBSET Sub, Cardinality(S) >= NumSubjobs
  PROVE  S = Sub
<1>1. Cardinality(S) \in Nat /\ Cardinality(S) <= Cardinality(Sub)
  BY SubFacts, FS_Subset, FS_CardinalityType
<1>2. Cardinality(S) = Cardinality(Sub)
  BY <1>1, SubFacts, NumSubjobsAssumption
<1> QED BY <1>2, SubFacts, FS_Subset
-----------------------------------------------------------------------------
(* Type correctness. *)

LEMMA InitType == Init => TypeOK
<1> SUFFICES ASSUME Init PROVE TypeOK
  OBVIOUS
<1> USE DEF Init
<1>1. job \in Jobs /\ pc \in [Sub -> Pcs] /\ ref \in BOOLEAN /\ completed \in BOOLEAN
  BY DEF Pcs, Waiting
<1>2. /\ status \in [Sub -> Statuses] /\ outcome \in [Sub -> Outcomes]
      /\ failedDir \subseteq Sub /\ stamps \subseteq Sub /\ older \in [Sub -> SUBSET Sub]
  BY DEF Statuses, Outcomes
<1>3. tarball \in Snapshots /\ commit \in Snapshots
  BY DEF NoSnapshot, Snapshots, Statuses
<1> QED BY <1>1, <1>2, <1>3 DEF TypeOK

\* The snapshot that Bundle or Save takes is one.
LEMMA SnapshotType ==
  ASSUME TypeOK, NEW out \in SUBSET Sub
  PROVE  [taken |-> TRUE, status |-> status, failed |-> failedDir, out |-> out] \in Snapshots
BY DEF TypeOK, Snapshots

LEMMA StepType == TypeOK /\ [Next]_vars => TypeOK'
<1> SUFFICES ASSUME TypeOK, [Next]_vars PROVE TypeOK'
  OBVIOUS
<1> USE DEF TypeOK, Goto, SetStatus, files, results
<1>1. CASE UNCHANGED vars
  BY <1>1 DEF vars
<1> SUFFICES ASSUME NEW i \in Sub, Start(i) \/ Run(i) \/ PreCommandFailure(i) \/ Die(i)
             PROVE  TypeOK'
  BY <1>1 DEF Next
<1>2. /\ {"begin", "stamp", "get", "command", "record", "mark", "barrier", "done", "dead"} \subseteq Pcs
      /\ PostPcs \subseteq Pcs
  BY DEF Pcs, Ended, Waiting
<1>3. /\ PostCommand \in Pcs /\ AfterCommand(i) \in Pcs
      /\ {"bundle", "save", "ref", "check", "reset", "finish"} \subseteq Pcs
  BY <1>2 DEF PostCommand, AfterCommand, PostPcs
<1>4. {"none", "submitted", "running", "pre-command failure", "succeeded", "failed"} \subseteq Statuses
  BY DEF Statuses
<1>5. CASE Start(i)                BY <1>2, <1>5 DEF Start
<1>6. CASE Begin(i)                BY <1>2, <1>4, <1>6 DEF Begin
<1>7. CASE Stamp(i)                BY <1>2, <1>7 DEF Stamp
<1>8. CASE GetCommand(i)           BY <1>2, <1>4, <1>8 DEF GetCommand
<1>9. CASE PreCommandFailure(i)    BY <1>2, <1>4, <1>9 DEF PreCommandFailure
<1>10. CASE RunCommand(i)          BY <1>2, <1>10 DEF RunCommand, Outcomes
<1>11. CASE RecordSuccess(i)       BY <1>3, <1>4, <1>11 DEF RecordSuccess
<1>12. CASE RecordFailure(i)       BY <1>2, <1>4, <1>12 DEF RecordFailure
<1>13. CASE MarkFailed(i)          BY <1>3, <1>13 DEF MarkFailed
<1>14. CASE Barrier(i)             BY <1>3, <1>14 DEF Barrier
<1>15. CASE Bundle(i)
  <2>1. tarball' \in Snapshots
    BY <1>15, SnapshotType DEF Bundle, NewerThanOldestStamp
  <2>2. pc' \in [Sub -> Pcs]
    BY <1>3, <1>15 DEF Bundle
  <2> QED BY <1>15, <2>1, <2>2 DEF Bundle
<1>16. CASE Save(i)
  <2>1. commit' \in Snapshots
    BY <1>16, SnapshotType DEF Save
  <2>2. pc' \in [Sub -> Pcs]
    BY <1>3, <1>16 DEF Save
  <2> QED BY <1>16, <2>1, <2>2 DEF Save
<1>17. CASE CreateRef(i)           BY <1>3, <1>17 DEF CreateRef
<1>18. CASE CheckClean(i)          BY <1>3, <1>18 DEF CheckClean
<1>19. CASE Reset(i)               BY <1>3, <1>4, <1>19 DEF Reset, Snapshots
<1>20. CASE Finish(i)              BY <1>2, <1>20 DEF Finish
<1>21. CASE Die(i)                 BY <1>2, <1>21 DEF Die
<1> QED BY <1>5, <1>6, <1>7, <1>8, <1>9, <1>10, <1>11, <1>12, <1>13, <1>14, <1>15, <1>16,
           <1>17, <1>18, <1>19, <1>20, <1>21 DEF Run

\* Every variable keeps its type in every behaviour of the script.
THEOREM TypeCorrect == Spec => []TypeOK
BY InitType, StepType, PTL DEF Spec
-----------------------------------------------------------------------------
(* The inductive invariant, part by part. *)

LEMMA InitInv == Init => IInv
<1> SUFFICES ASSUME Init PROVE IInv
  OBVIOUS
<1>1. TypeOK
  BY InitType
<1>2. ControlOK /\ StampOK
  BY DEF Init, ControlOK, StampOK, PostPcs
<1>3. BarrierOK
  BY SubFacts DEF Init, BarrierOK, PostPcs
<1>4. ResultsOK
  BY SubFacts DEF Init, ResultsOK, PostPcs, ResultsAreWhole, NoSnapshot
<1> QED BY <1>1, <1>2, <1>3, <1>4 DEF IInv

\* Label, outcome and status file of each subjob keep agreeing.
LEMMA StepControl == TypeOK /\ ControlOK /\ [Next]_vars => ControlOK'
<1> SUFFICES ASSUME TypeOK, ControlOK, [Next]_vars PROVE ControlOK'
  OBVIOUS
<1> USE DEF TypeOK, ControlOK, Goto, SetStatus, files, results, PostPcs, StatusOf
<1>1. CASE UNCHANGED vars
  BY <1>1 DEF vars
<1> SUFFICES ASSUME NEW i \in Sub, Start(i) \/ Run(i) \/ PreCommandFailure(i) \/ Die(i)
             PROVE  ControlOK'
  BY <1>1 DEF Next
<1>2. CASE Start(i)                BY <1>2 DEF Start
<1>3. CASE Begin(i)                BY <1>3 DEF Begin
<1>4. CASE Stamp(i)                BY <1>4 DEF Stamp
<1>5. CASE GetCommand(i)           BY <1>5 DEF GetCommand
<1>6. CASE PreCommandFailure(i)    BY <1>6 DEF PreCommandFailure
<1>7. CASE RunCommand(i)           BY <1>7 DEF RunCommand
<1>8. CASE RecordSuccess(i)        BY <1>8 DEF RecordSuccess, AfterCommand
<1>9. CASE RecordFailure(i)        BY <1>9 DEF RecordFailure
<1>10. CASE MarkFailed(i)          BY <1>10 DEF MarkFailed, AfterCommand
<1>11. CASE Barrier(i)             BY <1>11 DEF Barrier, PostCommand
<1>12. CASE Bundle(i)              BY <1>12 DEF Bundle
<1>13. CASE Save(i)                BY <1>13 DEF Save
<1>14. CASE CreateRef(i)           BY <1>14 DEF CreateRef
<1>15. CASE CheckClean(i)          BY <1>15 DEF CheckClean
<1>16. CASE Reset(i)               BY <1>16 DEF Reset
<1>17. CASE Finish(i)              BY <1>17 DEF Finish
<1>18. CASE Die(i)                 BY <1>18 DEF Die
<1> QED BY <1>2, <1>3, <1>4, <1>5, <1>6, <1>7, <1>8, <1>9, <1>10, <1>11, <1>12, <1>13,
           <1>14, <1>15, <1>16, <1>17, <1>18 DEF Run

\* Stamps are never removed, and a subjob's own is there before it runs.
LEMMA StepStamp == TypeOK /\ StampOK /\ [Next]_vars => StampOK'
<1> SUFFICES ASSUME TypeOK, StampOK, [Next]_vars PROVE StampOK'
  OBVIOUS
<1> USE DEF TypeOK, StampOK, Stamped, Goto, SetStatus, files, results
<1>1. CASE UNCHANGED vars
  BY <1>1 DEF vars
<1> SUFFICES ASSUME NEW i \in Sub, Start(i) \/ Run(i) \/ PreCommandFailure(i) \/ Die(i)
             PROVE  StampOK'
  BY <1>1 DEF Next
<1>2. CASE Start(i)                BY <1>2 DEF Start
<1>3. CASE Begin(i)                BY <1>3 DEF Begin
<1>4. CASE Stamp(i)                BY <1>4 DEF Stamp
<1>5. CASE GetCommand(i)           BY <1>5 DEF GetCommand
<1>6. CASE PreCommandFailure(i)    BY <1>6 DEF PreCommandFailure
<1>7. CASE RunCommand(i)           BY <1>7 DEF RunCommand
<1>8. CASE RecordSuccess(i)        BY <1>8 DEF RecordSuccess, AfterCommand
<1>9. CASE RecordFailure(i)        BY <1>9 DEF RecordFailure
<1>10. CASE MarkFailed(i)          BY <1>10 DEF MarkFailed, AfterCommand
<1>11. CASE Barrier(i)             BY <1>11 DEF Barrier, PostCommand
<1>12. CASE Bundle(i)              BY <1>12 DEF Bundle
<1>13. CASE Save(i)                BY <1>13 DEF Save
<1>14. CASE CreateRef(i)           BY <1>14 DEF CreateRef
<1>15. CASE CheckClean(i)          BY <1>15 DEF CheckClean
<1>16. CASE Reset(i)               BY <1>16 DEF Reset
<1>17. CASE Finish(i)              BY <1>17 DEF Finish
<1>18. CASE Die(i)                 BY <1>18 DEF Die
<1> QED BY <1>2, <1>3, <1>4, <1>5, <1>6, <1>7, <1>8, <1>9, <1>10, <1>11, <1>12, <1>13,
           <1>14, <1>15, <1>16, <1>17, <1>18 DEF Run

\* When the barrier opens, every status file is final and every command ended.
LEMMA BarrierSeesAll ==
  ASSUME ControlOK, Cardinality(Counted) >= NumSubjobs
  PROVE  AllEnded /\ \A i \in Sub : status[i] = StatusOf(outcome[i])
<1>1. Counted = Sub
  BY CountingAll DEF Counted
<1>2. \A i \in Sub : status[i] \in {"succeeded", "failed"} /\ status[i] = StatusOf(outcome[i])
  BY <1>1 DEF Counted, ControlOK
<1>3. AllEnded
  BY <1>2 DEF AllEnded, StatusOf
<1> QED BY <1>2, <1>3

\* Once the last subjob is past the barrier no command can end any more, and
\* a status file changes only when the worktree is reset.
LEMMA StepBarrier == IInv /\ [Next]_vars => BarrierOK'
<1> SUFFICES ASSUME IInv, [Next]_vars PROVE BarrierOK'
  OBVIOUS
<1> USE SubFacts
        DEF IInv, TypeOK, ControlOK, BarrierOK, Goto, SetStatus, files, results, PostPcs,
            AllEnded, HasRef, Saved
<1>1. CASE UNCHANGED vars
  BY <1>1 DEF vars
<1> SUFFICES ASSUME NEW i \in Sub, Start(i) \/ Run(i) \/ PreCommandFailure(i) \/ Die(i)
             PROVE  BarrierOK'
  BY <1>1 DEF Next
<1>2. CASE Start(i)                BY <1>2 DEF Start
<1>3. CASE Begin(i)                BY <1>3 DEF Begin
<1>4. CASE Stamp(i)                BY <1>4 DEF Stamp
<1>5. CASE GetCommand(i)           BY <1>5 DEF GetCommand
<1>6. CASE PreCommandFailure(i)    BY <1>6 DEF PreCommandFailure
<1>7. CASE RunCommand(i)           BY <1>7 DEF RunCommand
<1>8. CASE RecordSuccess(i)        BY <1>8 DEF RecordSuccess, AfterCommand, StatusOf
<1>9. CASE RecordFailure(i)        BY <1>9 DEF RecordFailure, StatusOf
<1>10. CASE MarkFailed(i)          BY <1>10 DEF MarkFailed, AfterCommand
<1>11. CASE Barrier(i)
  <2>1. AllEnded /\ \A j \in Sub : status[j] = StatusOf(outcome[j])
    BY <1>11, BarrierSeesAll DEF Barrier
  <2> QED BY <1>11, <2>1 DEF Barrier
<1>12. CASE Bundle(i)              BY <1>12 DEF Bundle
<1>13. CASE Save(i)                BY <1>13 DEF Save
<1>14. CASE CreateRef(i)           BY <1>14 DEF CreateRef
<1>15. CASE CheckClean(i)          BY <1>15 DEF CheckClean
<1>16. CASE Reset(i)
  <2>1. Saved /\ ref
    BY <1>16 DEF Reset, ResultsOK
  <2>2. /\ \A j \in Sub : status'[j] = status[j] \/ status'[j] = "none"
        /\ outcome' = outcome /\ completed' = completed /\ ref' = ref /\ job' = job
        /\ pc'[Last] = "finish"
    BY <1>16 DEF Reset
  <2>3. \A j \in Sub : status[j] = StatusOf(outcome[j])
    BY <1>16 DEF Reset
  <2> QED BY <2>1, <2>2, <2>3, <1>16 DEF Reset
<1>17. CASE Finish(i)              BY <1>17 DEF Finish
<1>18. CASE Die(i)                 BY <1>18 DEF Die
<1> QED BY <1>2, <1>3, <1>4, <1>5, <1>6, <1>7, <1>8, <1>9, <1>10, <1>11, <1>12, <1>13,
           <1>14, <1>15, <1>16, <1>17, <1>18 DEF Run

\* Bundle and Save run past the barrier, so what they take is whole: the oldest
\* stamp is older than the output of every subjob.
LEMMA BundleIsWhole ==
  ASSUME IInv, pc[Last] = "bundle"
  PROVE  /\ AllEnded
         /\ NewerThanOldestStamp = Sub
         /\ \A i \in Sub : status[i] = StatusOf(outcome[i])
<1>1. Stamped /\ AllEnded /\ \A i \in Sub : status[i] = StatusOf(outcome[i])
  BY DEF IInv, BarrierOK, ResultsOK, PostPcs
<1>2. NewerThanOldestStamp = Sub
  BY <1>1 DEF IInv, StampOK, AllEnded, NewerThanOldestStamp
<1> QED BY <1>1, <1>2

LEMMA SaveIsWhole ==
  ASSUME IInv, pc[Last] = "save"
  PROVE  /\ AllEnded
         /\ {i \in Sub : outcome[i] # "none"} = Sub
         /\ \A i \in Sub : status[i] = StatusOf(outcome[i])
BY DEF IInv, BarrierOK, PostPcs, AllEnded

LEMMA StepResults == IInv /\ [Next]_vars => ResultsOK'
<1> SUFFICES ASSUME IInv, [Next]_vars PROVE ResultsOK'
  OBVIOUS
<1> USE SubFacts
        DEF TypeOK, ResultsOK, ResultsAreWhole, WholeJob, AllEnded, Stamped, Saved,
            Goto, SetStatus, files, results, PostPcs
<1>0. TypeOK /\ ControlOK /\ ResultsOK
  BY DEF IInv
<1>1. CASE UNCHANGED vars
  BY <1>0, <1>1 DEF vars
<1> SUFFICES ASSUME NEW i \in Sub, Start(i) \/ Run(i) \/ PreCommandFailure(i) \/ Die(i)
             PROVE  ResultsOK'
  BY <1>1 DEF Next
<1>2. CASE Start(i)                BY <1>0, <1>2 DEF Start
<1>3. CASE Begin(i)                BY <1>0, <1>3 DEF Begin
<1>4. CASE Stamp(i)                BY <1>0, <1>4 DEF Stamp
<1>5. CASE GetCommand(i)           BY <1>0, <1>5 DEF GetCommand
<1>6. CASE PreCommandFailure(i)    BY <1>0, <1>6 DEF PreCommandFailure
<1>7. CASE RunCommand(i)
  <2>1. outcome[i] = "none"
    BY <1>0, <1>7 DEF RunCommand, ControlOK
  <2>2. ~tarball.taken /\ ~commit.taken
    BY <1>0, <2>1
  <2> QED BY <1>0, <1>7, <2>2 DEF RunCommand
<1>8. CASE RecordSuccess(i)        BY <1>0, <1>8 DEF RecordSuccess, AfterCommand
<1>9. CASE RecordFailure(i)        BY <1>0, <1>9 DEF RecordFailure
<1>10. CASE MarkFailed(i)          BY <1>0, <1>10 DEF MarkFailed, AfterCommand
<1>11. CASE Barrier(i)
  <2>1. i = Last
    BY <1>0, <1>11 DEF Barrier, ControlOK
  <2>2. \/ PostCommand = "bundle" /\ Stamped
        \/ PostCommand = "save" /\ Saved /\ ~Stamped
        \/ PostCommand = "finish" /\ ~Saved /\ ~Stamped
    BY DEF PostCommand
  <2>3. pc'[Last] = PostCommand /\ UNCHANGED <<job, outcome, files, results>>
    BY <1>0, <1>11, <2>1 DEF Barrier
  <2> HIDE DEF PostCommand
  <2> QED BY <1>0, <2>2, <2>3
<1>12. CASE Bundle(i)
  <2>1. i = Last /\ Stamped
    BY <1>0, <1>12 DEF Bundle, ControlOK
  <2>2. WholeJob(tarball)' /\ tarball'.taken
    BY <1>12, <2>1, BundleIsWhole DEF Bundle
  <2> QED BY <1>0, <1>12, <2>1, <2>2 DEF Bundle
<1>13. CASE Save(i)
  <2>1. i = Last /\ Saved
    BY <1>0, <1>13 DEF Save, ControlOK
  <2>2. WholeJob(commit)' /\ commit'.taken
    BY <1>13, <2>1, SaveIsWhole DEF Save
  <2> QED BY <1>0, <1>13, <2>1, <2>2 DEF Save
<1>14. CASE CreateRef(i)
  <2>1. i = Last
    BY <1>0, <1>14 DEF CreateRef, ControlOK
  <2> QED BY <1>0, <1>14, <2>1 DEF CreateRef
<1>15. CASE CheckClean(i)
  <2>1. i = Last
    BY <1>0, <1>15 DEF CheckClean, ControlOK
  <2> QED BY <1>0, <1>15, <2>1 DEF CheckClean
<1>16. CASE Reset(i)
  <2>1. i = Last
    BY <1>0, <1>16 DEF Reset, ControlOK
  <2> QED BY <1>0, <1>16, <2>1 DEF Reset
<1>17. CASE Finish(i)
  <2>1. i = Last
    BY <1>0, <1>17 DEF Finish, ControlOK
  <2> QED BY <1>0, <1>17, <2>1 DEF Finish
<1>18. CASE Die(i)                 BY <1>0, <1>18 DEF Die
<1> QED BY <1>2, <1>3, <1>4, <1>5, <1>6, <1>7, <1>8, <1>9, <1>10, <1>11, <1>12, <1>13,
           <1>14, <1>15, <1>16, <1>17, <1>18 DEF Run
-----------------------------------------------------------------------------
(* The theorems. *)

LEMMA StepInv == IInv /\ [Next]_vars => IInv'
BY StepType, StepControl, StepStamp, StepBarrier, StepResults DEF IInv

\* The four parts of IInv hold in every behaviour of the script.
THEOREM Inductive == Spec => []IInv
BY InitInv, StepInv, PTL DEF Spec

\* The completion marker is never there before every command has ended, and
\* the tarball and the ref that a fetch reads, are there.
THEOREM CompletedCorrect == Spec => []CompletedMeansAllEnded
<1>1. IInv => CompletedMeansAllEnded
  BY DEF IInv, BarrierOK, ResultsOK, CompletedMeansAllEnded
<1> QED BY <1>1, Inductive, PTL

\* Neither the tarball nor the commit misses an output or a status.
THEOREM ResultsCorrect == Spec => []ResultsAreWhole
<1>1. IInv => ResultsAreWhole
  BY DEF IInv, ResultsOK
<1> QED BY <1>1, Inductive, PTL

\* A client reads the right status of a complete job, from worktree or ref.
THEOREM StatusCorrect == Spec => []StatusKnown
<1>1. IInv => StatusKnown
  <2> SUFFICES ASSUME IInv, completed PROVE ClientStatus = StatusOf(outcome[0])
    BY DEF StatusKnown
  <2>1. 0 \in Sub
    BY SubFacts
  <2>2. CASE status[0] = "none" /\ HasRef
    <3>1. commit.status[0] = StatusOf(outcome[0])
      BY <2>1, <2>2 DEF IInv, ResultsOK, ResultsAreWhole, WholeJob, HasRef
    <3> QED BY <2>2, <3>1 DEF ClientStatus
  <2>3. CASE ~(status[0] = "none" /\ HasRef)
    <3>1. status[0] = StatusOf(outcome[0])
      BY <2>1, <2>3 DEF IInv, BarrierOK
    <3> QED BY <2>3, <3>1 DEF ClientStatus
  <2> QED BY <2>2, <2>3
<1> QED BY <1>1, Inductive, PTL
-----------------------------------------------------------------------------
(* The failed markers. *)

\* A marker is that of a failed subjob that is past its command block.
Unmarked == {"queued", "begin", "stamp", "get", "command", "record", "mark"}
MarkersOfBad ==
    \A i \in failedDir \cup commit.failed : outcome[i] = "bad" /\ pc[i] \notin Unmarked

\* Until the reset of datalad-pair-run every failed subjob that has not yet
\* made its marker is about to, or dead; then what was committed is gone.
AllMarked ==
    \A i \in Sub : outcome[i] = "bad" => i \in failedDir \/ pc[i] \in {"record", "mark", "dead"}
Wiped ==
    /\ job.template = "datalad-pair-run"
    /\ pc[Last] \in {"finish", "done", "dead"}
    /\ failedDir \cap commit.failed = {}

MarkersOK ==
    /\ \A i \in Sub : pc[i] = "mark" => outcome[i] = "bad"
    /\ pc[Last] \in {"check", "reset"} => job.template = "datalad-pair-run"
    /\ MarkersOfBad
    /\ AllMarked \/ Wiped

\* A marker is made once and by its own subjob, and no outcome changes.
LEMMA StepMarkersOfBad == IInv /\ MarkersOK /\ [Next]_vars => MarkersOfBad'
<1> SUFFICES ASSUME IInv, MarkersOK, [Next]_vars PROVE MarkersOfBad'
  OBVIOUS
<1> USE DEF MarkersOfBad, Unmarked, Goto, SetStatus, files, results
<1>0. TypeOK /\ ControlOK /\ MarkersOK
  BY DEF IInv
<1>1. /\ MarkersOfBad /\ failedDir \subseteq Sub /\ commit.failed \subseteq Sub
      /\ pc \in [Sub -> Pcs] /\ outcome \in [Sub -> Outcomes]
  BY <1>0 DEF MarkersOK, TypeOK, Snapshots
<1>2. CASE UNCHANGED vars
  BY <1>1, <1>2 DEF vars
<1> SUFFICES ASSUME NEW i \in Sub, Start(i) \/ Run(i) \/ PreCommandFailure(i) \/ Die(i)
             PROVE  MarkersOfBad'
  BY <1>2 DEF Next
<1>3. CASE Start(i)                BY <1>1, <1>3 DEF Start
<1>4. CASE Begin(i)                BY <1>1, <1>4 DEF Begin
<1>5. CASE Stamp(i)                BY <1>1, <1>5 DEF Stamp
<1>6. CASE GetCommand(i)           BY <1>1, <1>6 DEF GetCommand
<1>7. CASE PreCommandFailure(i)    BY <1>1, <1>7 DEF PreCommandFailure
<1>8. CASE RunCommand(i)           BY <1>1, <1>8 DEF RunCommand
<1>9. CASE RecordSuccess(i)        BY <1>1, <1>9 DEF RecordSuccess
<1>10. CASE RecordFailure(i)       BY <1>1, <1>10 DEF RecordFailure
<1>11. CASE MarkFailed(i)
  <2>1. outcome[i] = "bad"
    BY <1>0, <1>11 DEF MarkFailed, MarkersOK
  <2> QED BY <1>1, <1>11, <2>1 DEF MarkFailed, AfterCommand
<1>12. CASE Barrier(i)             BY <1>1, <1>12 DEF Barrier, PostCommand
<1>13. CASE Bundle(i)              BY <1>1, <1>13 DEF Bundle
<1>14. CASE Save(i)
  <2>1. commit'.failed = failedDir /\ UNCHANGED <<failedDir, outcome>>
    BY <1>14 DEF Save
  <2>2. \A k \in Sub : pc'[k] \in Unmarked => pc[k] \in Unmarked
    BY <1>1, <1>14 DEF Save
  <2> QED BY <1>1, <2>1, <2>2
<1>15. CASE CreateRef(i)           BY <1>1, <1>15 DEF CreateRef
<1>16. CASE CheckClean(i)          BY <1>1, <1>16 DEF CheckClean
<1>17. CASE Reset(i)               BY <1>1, <1>17 DEF Reset
<1>18. CASE Finish(i)              BY <1>1, <1>18 DEF Finish
<1>19. CASE Die(i)                 BY <1>1, <1>19 DEF Die
<1> QED BY <1>3, <1>4, <1>5, <1>6, <1>7, <1>8, <1>9, <1>10, <1>11, <1>12, <1>13,
           <1>14, <1>15, <1>16, <1>17, <1>18, <1>19 DEF Run

\* A failed subjob makes its marker, and only the reset takes markers away.
LEMMA StepMarked ==
  IInv /\ MarkersOK /\ [Next]_vars =>
      /\ (\A i \in Sub : pc[i] = "mark" => outcome[i] = "bad")'
      /\ (pc[Last] \in {"check", "reset"} => job.template = "datalad-pair-run")'
      /\ (AllMarked \/ Wiped)'
<1> DEFINE MarkBad == \A i \in Sub : pc[i] = "mark" => outcome[i] = "bad"
           ResetPair == pc[Last] \in {"check", "reset"} => job.template = "datalad-pair-run"
           Goal == MarkBad' /\ ResetPair' /\ (AllMarked \/ Wiped)'
<1> SUFFICES ASSUME IInv, MarkersOK, [Next]_vars PROVE Goal
  OBVIOUS
<1> USE DEF AllMarked, Wiped, Goto, SetStatus, files, results
<1>0. TypeOK /\ ControlOK /\ ResultsOK /\ MarkersOK
  BY DEF IInv
<1>1. /\ MarkBad /\ ResetPair /\ (AllMarked \/ Wiped)
      /\ pc \in [Sub -> Pcs] /\ outcome \in [Sub -> Outcomes] /\ Last \in Sub
  BY <1>0, SubFacts DEF MarkersOK, TypeOK
<1>2. CASE UNCHANGED vars
  BY <1>1, <1>2 DEF vars
<1> SUFFICES ASSUME NEW i \in Sub, Start(i) \/ Run(i) \/ PreCommandFailure(i) \/ Die(i)
             PROVE  Goal
  BY <1>2 DEF Next
<1>3. CASE Start(i)                BY <1>1, <1>3 DEF Start
<1>4. CASE Begin(i)                BY <1>1, <1>4 DEF Begin
<1>5. CASE Stamp(i)                BY <1>1, <1>5 DEF Stamp
<1>6. CASE GetCommand(i)           BY <1>1, <1>6 DEF GetCommand
<1>7. CASE PreCommandFailure(i)
  <2>1. outcome[i] = "none"
    BY <1>0, <1>7 DEF PreCommandFailure, ControlOK
  <2> QED BY <1>1, <1>7, <2>1 DEF PreCommandFailure
<1>8. CASE RunCommand(i)           BY <1>1, <1>8 DEF RunCommand
<1>9. CASE RecordSuccess(i)        BY <1>1, <1>9 DEF RecordSuccess, AfterCommand
<1>10. CASE RecordFailure(i)       BY <1>1, <1>10 DEF RecordFailure
<1>11. CASE MarkFailed(i)
  <2>1. i \notin commit.failed
    BY <1>0, <1>11 DEF MarkFailed, MarkersOK, MarkersOfBad, Unmarked
  <2> QED BY <1>1, <1>11, <2>1 DEF MarkFailed, AfterCommand
<1>12. CASE Barrier(i)             BY <1>1, <1>12 DEF Barrier, PostCommand
<1>13. CASE Bundle(i)              BY <1>1, <1>13 DEF Bundle
<1>14. CASE Save(i)
  <2>1. i = Last
    BY <1>0, <1>14 DEF Save, ControlOK, PostPcs
  <2> QED BY <1>1, <1>14, <2>1 DEF Save
<1>15. CASE CreateRef(i)
  <2>1. i = Last /\ Saved
    BY <1>0, <1>15 DEF CreateRef, ControlOK, ResultsOK, PostPcs
  <2> QED BY <1>1, <1>15, <2>1 DEF CreateRef, Saved, Stamped
<1>16. CASE CheckClean(i)
  <2>1. i = Last
    BY <1>0, <1>16 DEF CheckClean, ControlOK, PostPcs
  <2> QED BY <1>1, <1>16, <2>1 DEF CheckClean
<1>17. CASE Reset(i)
  <2>1. i = Last
    BY <1>0, <1>17 DEF Reset, ControlOK, PostPcs
  <2> QED BY <1>1, <1>17, <2>1 DEF Reset
<1>18. CASE Finish(i)              BY <1>1, <1>18 DEF Finish
<1>19. CASE Die(i)                 BY <1>1, <1>19 DEF Die
<1> QED BY <1>3, <1>4, <1>5, <1>6, <1>7, <1>8, <1>9, <1>10, <1>11, <1>12, <1>13,
           <1>14, <1>15, <1>16, <1>17, <1>18, <1>19 DEF Run

\* What is left when every script is done: the markers of all failures, or the
\* committed ones and no others.
LEMMA MarkersTell == IInv /\ MarkersOK => FailuresKnown
<1> SUFFICES ASSUME IInv, MarkersOK, completed, \A i \in Sub : pc[i] = "done",
                    job.template = "datalad-pair-run" => commit.failed = Bad
             PROVE  ClientFailed = Bad
  BY DEF FailuresKnown
<1>1. /\ failedDir \subseteq Sub /\ commit.failed \subseteq Sub
      /\ failedDir \subseteq Bad /\ commit.failed \subseteq Bad
  BY DEF IInv, TypeOK, Snapshots, MarkersOK, MarkersOfBad, Bad
<1>2. CASE AllMarked
  <2>1. failedDir = Bad
    BY <1>1, <1>2 DEF AllMarked, Bad
  <2> QED BY <1>1, <2>1 DEF ClientFailed
<1>3. CASE Wiped
  <2>1. commit.failed = Bad /\ failedDir = {}
    BY <1>1, <1>3 DEF Wiped
  <2>2. HasRef
    BY <1>3 DEF Wiped, IInv, ResultsOK, HasRef, Saved
  <2> QED BY <2>1, <2>2 DEF ClientFailed
<1> QED BY <1>2, <1>3 DEF MarkersOK

\* Once a job is complete and its scripts are done, a client reads the failures
\* there were, from the markers or from the ref, if no marker came too late.
THEOREM FailuresCorrect == Spec => []FailuresKnown
<1>1. Init => MarkersOK
  BY SubFacts DEF Init, MarkersOK, MarkersOfBad, AllMarked, NoSnapshot
<1>2. IInv /\ MarkersOK /\ [Next]_vars => MarkersOK'
  BY StepMarkersOfBad, StepMarked DEF MarkersOK
<1> QED BY <1>1, <1>2, Inductive, MarkersTell, PTL DEF Spec
-----------------------------------------------------------------------------
(* The script implements JobArray. *)

LEMMA InitImplements == Init => Abstract!Init
BY DEF Init, Abstract!Init

\* Only two steps show: the end of a command, which BarrierOK keeps from
\* happening in a complete job, and the touch of the completion marker.
LEMMA StepImplements == IInv /\ [Next]_vars => [Abstract!Next]_(Abstract!vars)
<1> SUFFICES ASSUME IInv, [Next]_vars PROVE [Abstract!Next]_(Abstract!vars)
  OBVIOUS
<1> USE DEF Abstract!vars, files, results
<1>0. TypeOK /\ ControlOK /\ BarrierOK
  BY DEF IInv
<1>1. CASE UNCHANGED vars
  BY <1>1 DEF vars
<1> SUFFICES ASSUME NEW i \in Sub, Start(i) \/ Run(i) \/ PreCommandFailure(i) \/ Die(i)
             PROVE  [Abstract!Next]_(Abstract!vars)
  BY <1>1 DEF Next
<1>2. CASE RunCommand(i)
  <2>1. outcome[i] = "none" /\ ~completed
    BY <1>0, <1>2 DEF RunCommand, ControlOK, BarrierOK, AllEnded
  <2>2. Abstract!End(i)
    BY <1>2, <2>1 DEF RunCommand, Abstract!End, Abstract!Outcomes
  <2> QED BY <2>2 DEF Abstract!Next
<1>3. CASE Finish(i)
  <2>1. i = Last
    BY <1>0, <1>3 DEF Finish, ControlOK, PostPcs
  <2>2. \A j \in Sub : outcome[j] # "none"
    BY <1>0, <1>3, <2>1 DEF Finish, BarrierOK, AllEnded, PostPcs
  <2>3. CASE completed
    BY <1>3, <2>3, <1>0 DEF Finish, TypeOK
  <2>4. CASE ~completed
    <3>1. Abstract!Complete
      BY <1>3, <2>2, <2>4 DEF Finish, Abstract!Complete
    <3> QED BY <3>1 DEF Abstract!Next
  <2> QED BY <2>3, <2>4
<1>4. CASE ~(RunCommand(i) \/ Finish(i))
  <2>1. UNCHANGED <<outcome, completed>>
    BY <1>4 DEF Run, Start, Begin, Stamp, GetCommand, PreCommandFailure, RecordSuccess,
       RecordFailure, MarkFailed, Barrier, Bundle, Save, CreateRef, CheckClean, Reset, Die
  <2> QED BY <2>1
<1> QED BY <1>2, <1>3, <1>4

\* Whatever fails, is killed or is started late, what can be observed of the
\* commands and of the completion marker is a behaviour of JobArray.
THEOREM Implements == Spec => AbstractSpec
BY InitImplements, Inductive, StepImplements, PTL DEF Spec, AbstractSpec, Abstract!Spec
=============================================================================

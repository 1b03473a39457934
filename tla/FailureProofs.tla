----------------------------- MODULE FailureProofs -----------------------------
(***************************************************************************)
(* Proofs about analyses that do not complete: the failure stage tells     *)
(* which results are there, and only a database call that raises, or a     *)
(* crash, leaves an analysis that nobody works on and that never ended.    *)
(***************************************************************************)
EXTENDS WriteProofs, FiniteSetTheorems

-----------------------------------------------------------------------------
(* How far an analysis came.                                               *)

\* The row has the results of every stage before this one, and of none after it.
Reached(row, stage) ==
  \A s \in WorkStages :
    /\ Rank[s] < Rank[stage] => row.results[s] # None
    /\ Rank[s] > Rank[stage] => row.results[s] = None

\* The stage of a task tells which results its row has, and those the task itself has
\* never run ahead of it; a failed row keeps what it had.
InProgress(t, row) ==
  /\ t.pc \in {"none", "scheduled"} => Reached(row, "preparation")
  /\ t.pc \in LivePcs \ {"scheduled"} => Reached(row, t.stage)
  /\ t.pc \in {"prepare", "load"} => t.stage = "preparation"
  /\ t.pc \in {"scheduled", "prepare", "load"} => \A s \in WorkStages : t.results[s] = None
  /\ t.pc \in PipelinePcs => \A s \in WorkStages : ~Done(t, s) => t.results[s] = None
  /\ row.status = "failed" => Reached(row, row.failure_stage)

ProgressInv == \A a \in Analyses : InProgress(tasks[a], analyses[a])

\* What a step of task a leaves of the two tables.
LEMMA CommittedPair ==
  ASSUME TypeOK, NEW a \in Analyses, NEW legal, NEW row, NEW o, Commit(a, legal, row, o),
         NEW next, TaskOf(a, next)
  PROVE  /\ tasks'[a] = next
         /\ legal /\ o # "rolled_back" => analyses'[a] = row
         /\ ~(legal /\ o # "rolled_back") => analyses'[a] = analyses[a]
BY DEF TypeOK, Commit, TaskOf

\* A write with no results to add leaves the row as far as it was.
LEMMA UpdateReaches ==
  ASSUME NEW row \in Row, NEW metadata \in Metadata, NEW stage \in Stages, NEW reached \in Stages,
         Reached(row, reached)
  PROVE  /\ Reached(UpdateResults(row, NoResults, metadata, stage), reached)
         /\ UpdateResults(row, NoResults, metadata, stage).status = row.status
<1>1. /\ \A s \in WorkStages : UpdateResults(row, NoResults, metadata, stage).results[s] = row.results[s]
      /\ UpdateResults(row, NoResults, metadata, stage).status = row.status
  BY UpdateResultsKeeps, DefaultsType DEF NoResults
<1> QED
  BY <1>1 DEF Reached

LEMMA NothingReached ==
  ASSUME NEW row, row.results = NoResults
  PROVE  Reached(row, "preparation")
BY DEF Reached, NoResults, Rank, WorkStages

\* A task that raises reports the stage it is in.
LEMMA RaisedProgress ==
  ASSUME NEW t \in Task, NEW row, row.status # "failed", Reached(row, t.stage)
  PROVE  InProgress(Raised(t), row)
<1> DEFINE r == Raised(t)
<1>1. r.pc = "record" /\ r.stage = t.stage
  BY DEF Raised, Task
<1> HIDE DEF r
<1>2. InProgress(r, row)
  BY <1>1 DEF InProgress, PipelinePcs
<1> QED
  BY <1>2 DEF r

\* A task that has ended says nothing about a row that has not failed.
LEMMA EndedProgress ==
  ASSUME NEW t, NEW row, t.pc \in EndPcs, row.status = "failed" => Reached(row, row.failure_stage)
  PROVE  InProgress(t, row)
BY DEF InProgress, EndPcs, LivePcs, PipelinePcs

LEMMA AbortedProgress ==
  ASSUME NEW t \in Task, NEW row, row.status # "failed"
  PROVE  InProgress(Aborted(t), row)
<1>1. Aborted(t).pc \in EndPcs
  BY DEF Aborted, Task, EndPcs
<1> QED
  BY <1>1, EndedProgress

-----------------------------------------------------------------------------
(* The steps of a task, one by one.                                        *)

LEMMA MarkRunningProgress ==
  ASSUME IInv, NEW a \in Analyses, InProgress(tasks[a], analyses[a]), NEW o, MarkRunning(a, o)
  PROVE  InProgress(tasks'[a], analyses'[a])
<1> DEFINE t       == tasks[a]
           row     == analyses[a]
           begun   == [t EXCEPT !.pc = "prepare", !.stage = "preparation", !.metadata = ExecutionMetadata]
           legal   == TransitionAllowed(row.status, "running")
           written == [row EXCEPT !.status = "running", !.stage = "preparation"]
           next    == IF legal /\ o = "ok" THEN begun ELSE Aborted(begun)
<1>1. t \in Task /\ row \in Row /\ t.pc = "scheduled" /\ row.status = "pending"
  BY DEF IInv, TypeOK, TasksMatchRows, MarkRunning, Consistent, StatusFits
<1>2. begun \in Task /\ begun.pc = "prepare" /\ begun.stage = "preparation" /\ begun.results = t.results
  BY <1>1, DefaultsType DEF Task, LivePcs, Stages
<1>3. written.status = "running" /\ written.results = row.results
  BY <1>1 DEF Row
<1>4. Commit(a, legal, written, o) /\ TaskOf(a, next)
  BY DEF MarkRunning
<1>5. Reached(row, "preparation") /\ \A s \in WorkStages : t.results[s] = None
  BY <1>1 DEF InProgress
<1>6. legal
  BY <1>1 DEF TransitionAllowed
<1> HIDE DEF begun, written, legal
<1>7. InProgress(begun, written)
  BY <1>2, <1>3, <1>5 DEF InProgress, Reached, PipelinePcs
<1>8. InProgress(Aborted(begun), written) /\ InProgress(Aborted(begun), row)
  BY <1>1, <1>2, <1>3, AbortedProgress
<1> HIDE DEF row, t
<1> QED
  BY <1>4, <1>6, <1>7, <1>8, CommittedPair DEF IInv, row

LEMMA SavePreparationProgress ==
  ASSUME IInv, NEW a \in Analyses, InProgress(tasks[a], analyses[a]), NEW o, SavePreparation(a, o)
  PROVE  InProgress(tasks'[a], analyses'[a])
<1> DEFINE t       == tasks[a]
           row     == analyses[a]
           written == UpdateResults(row, NoResults, t.metadata, "preparation")
           loading == [t EXCEPT !.pc = "load"]
           next    == IF Mutable(row) /\ o = "ok" THEN loading ELSE Aborted(t)
<1>1. t \in Task /\ row \in Row /\ Consistent(t, row) /\ t.pc = "prepare" /\ t.metadata \in Metadata
  BY DEF IInv, TypeOK, TasksMatchRows, SavePreparation, Task
<1>2. row.status = "running" /\ Mutable(row)
  BY <1>1, RunningRow
<1>3. Reached(row, "preparation") /\ t.stage = "preparation" /\ \A s \in WorkStages : t.results[s] = None
  BY <1>1 DEF InProgress, LivePcs
<1>4. Reached(written, "preparation") /\ written.status = "running"
  BY <1>1, <1>2, <1>3, UpdateReaches DEF Stages
<1>5. loading.pc = "load" /\ loading.stage = t.stage /\ loading.results = t.results
  BY <1>1 DEF Task
<1>6. Commit(a, Mutable(row), written, o) /\ TaskOf(a, next)
  BY DEF SavePreparation
<1> HIDE DEF loading, written
<1>7. InProgress(loading, written)
  BY <1>3, <1>4, <1>5 DEF InProgress, PipelinePcs
<1>8. InProgress(Aborted(t), written) /\ InProgress(Aborted(t), row)
  BY <1>1, <1>2, <1>4, AbortedProgress
<1> HIDE DEF row, t
<1> QED
  BY <1>2, <1>6, <1>7, <1>8, CommittedPair DEF IInv, row

LEMMA LoadInputsProgress ==
  ASSUME IInv, NEW a \in Analyses, InProgress(tasks[a], analyses[a]), NEW o, LoadInputs(a, o)
  PROVE  InProgress(tasks'[a], analyses'[a])
<1> DEFINE t      == tasks[a]
           row    == analyses[a]
           loaded == [t EXCEPT !.pc = "enter", !.stage = "underwriting", !.inputs = StoredInputs(a)]
<1>1. t \in Task /\ row \in Row /\ Consistent(t, row) /\ t.pc = "load"
  BY DEF IInv, TypeOK, TasksMatchRows, LoadInputs
<1>2. row.status = "running"
  BY <1>1, RunningRow
<1>3. Reached(row, "preparation") /\ t.stage = "preparation" /\ \A s \in WorkStages : t.results[s] = None
  BY <1>1 DEF InProgress, LivePcs
<1>4. loaded.pc = "enter" /\ loaded.stage = "underwriting" /\ loaded.results = t.results
  BY <1>1 DEF Task
<1>5. analyses'[a] = row /\ tasks'[a] \in {loaded, Raised(t)}
  BY DEF LoadInputs, TaskOf, IInv, TypeOK
<1> HIDE DEF loaded
<1>6. Reached(row, "underwriting")
  BY <1>3 DEF Reached, Rank, WorkStages
<1>7. InProgress(loaded, row)
  BY <1>2, <1>3, <1>4, <1>6 DEF InProgress, PipelinePcs
<1>8. InProgress(Raised(t), row)
  BY <1>1, <1>2, <1>3, RaisedProgress
<1> HIDE DEF row, t
<1> QED
  BY <1>5, <1>7, <1>8

LEMMA EnterStageProgress ==
  ASSUME IInv, NEW a \in Analyses, InProgress(tasks[a], analyses[a]), NEW o, EnterStage(a, o)
  PROVE  InProgress(tasks'[a], analyses'[a])
<1> DEFINE t       == tasks[a]
           row     == analyses[a]
           entered == [t EXCEPT !.metadata = InStage(@, t.stage)]
           working == [entered EXCEPT !.pc = "work"]
           written == UpdateResults(row, NoResults, entered.metadata, t.stage)
           next    == IF Mutable(row) /\ o = "ok" THEN working ELSE Raised(entered)
<1>1. t \in Task /\ row \in Row /\ Consistent(t, row) /\ t.pc = "enter" /\ t.stage \in Stages
  BY DEF IInv, TypeOK, TasksMatchRows, EnterStage, Task
<1>2. row.status = "running" /\ Mutable(row)
  BY <1>1, RunningRow DEF PipelinePcs
<1>3. Reached(row, t.stage) /\ \A s \in WorkStages : ~Done(t, s) => t.results[s] = None
  BY <1>1 DEF InProgress, LivePcs, PipelinePcs
<1>4. entered \in Task /\ entered.metadata \in Metadata /\ entered.stage = t.stage
  BY <1>1 DEF Task, InStage, Metadata
<1>5. Reached(written, t.stage) /\ written.status = "running"
  BY <1>1, <1>2, <1>3, <1>4, UpdateReaches
<1>6. working.pc = "work" /\ working.stage = t.stage /\ working.results = t.results
  BY <1>1 DEF Task
<1>7. Commit(a, Mutable(row), written, o) /\ TaskOf(a, next)
  BY DEF EnterStage
<1> HIDE DEF entered, working, written
<1>8. InProgress(working, written)
  BY <1>1, <1>3, <1>5, <1>6 DEF InProgress, Done
<1>9. InProgress(Raised(entered), written) /\ InProgress(Raised(entered), row)
  BY <1>2, <1>3, <1>4, <1>5, RaisedProgress
<1> HIDE DEF row, t
<1> QED
  BY <1>2, <1>7, <1>8, <1>9, CommittedPair DEF IInv, row

LEMMA FinishStageProgress ==
  ASSUME IInv, NEW a \in Analyses, InProgress(tasks[a], analyses[a]), FinishStage(a)
  PROVE  InProgress(tasks'[a], analyses'[a])
<1> DEFINE t    == tasks[a]
           row  == analyses[a]
           done == [t EXCEPT !.pc = "persist", !.results[t.stage] = ResultOf(t.stage, t.inputs)]
           over == [t.metadata EXCEPT !.status = "completed", !.stage = "persistence", !.completed_at = TRUE]
           next == IF t.stage = "investment_committee" THEN [done EXCEPT !.metadata = over] ELSE done
<1>1. t \in PlacedTask /\ t \in Task /\ row \in Row /\ Consistent(t, row) /\ t.pc = "work"
  BY DEF IInv, TypeOK, Attached, TasksMatchRows, FinishStage
<1>2. t.stage \in WorkStages /\ t.results \in Results
  BY <1>1 DEF PlacedTask, Task
<1>3. row.status = "running"
  BY <1>1, RunningRow DEF PipelinePcs
<1>4. Reached(row, t.stage) /\ \A s \in WorkStages : ~Done(t, s) => t.results[s] = None
  BY <1>1 DEF InProgress, LivePcs, PipelinePcs
<1>5. /\ next.pc = "persist" /\ next.stage = t.stage
      /\ next.results = [t.results EXCEPT ![t.stage] = ResultOf(t.stage, t.inputs)]
  BY <1>1, <1>2 DEF Task
<1>6. tasks'[a] = next /\ analyses'[a] = row
  BY <1>1 DEF FinishStage, TaskOf, IInv, TypeOK
<1> HIDE DEF next
<1>7. \A s \in WorkStages : ~Done(next, s) => ~Done(t, s) /\ next.results[s] = t.results[s]
  BY <1>1, <1>2, <1>5 DEF Done, Results
<1>8. InProgress(next, row)
  BY <1>3, <1>4, <1>5, <1>7 DEF InProgress
<1> HIDE DEF row
<1> QED
  BY <1>6, <1>8

LEMMA PersistStageProgress ==
  ASSUME IInv, NEW a \in Analyses, InProgress(tasks[a], analyses[a]), NEW o, PersistStage(a, o)
  PROVE  InProgress(tasks'[a], analyses'[a])
<1> DEFINE t       == tasks[a]
           row     == analyses[a]
           last    == t.stage = "investment_committee"
           stage   == IF last THEN "persistence" ELSE t.stage
           saved   == [t EXCEPT !.metadata = InStage(@, stage)]
           ready   == [saved EXCEPT !.pc = "complete"]
           onwards == [saved EXCEPT !.pc = "enter", !.stage = NextStage[t.stage]]
           written == UpdateResults(row, t.results, saved.metadata, stage)
           next    == IF ~(Mutable(row) /\ o = "ok") THEN Raised(saved) ELSE IF last THEN ready ELSE onwards
<1>1. t \in PlacedTask /\ t \in Task /\ row \in Row /\ Consistent(t, row) /\ t.pc = "persist"
  BY DEF IInv, TypeOK, Attached, TasksMatchRows, PersistStage
<1>2. t.stage \in WorkStages /\ t.results \in Results /\ t.inputs \in Inputs /\ stage \in Stages
  BY <1>1 DEF PlacedTask, Task, Stages
<1>3. row.status = "running" /\ Mutable(row)
  BY <1>1, RunningRow DEF PipelinePcs
<1>4. Reached(row, t.stage) /\ \A s \in WorkStages : ~Done(t, s) => t.results[s] = None
  BY <1>1 DEF InProgress, LivePcs, PipelinePcs
<1>5. \A s \in WorkStages : Done(t, s) => t.results[s] # None
  <2>1. \A s \in WorkStages : Done(t, s) => t.results[s] = ResultOf(s, t.inputs)
    BY <1>1 DEF Consistent, ResultsFit, PipelinePcs
  <2> QED
    BY <1>2, <2>1, ResultOfKeeps, NoneIsNoRecord
<1>6. saved \in Task /\ saved.metadata \in Metadata /\ saved.stage = t.stage
  BY <1>1, <1>2 DEF Task, InStage, Metadata
<1>7. /\ written.status = "running"
      /\ \A s \in WorkStages : written.results[s] = IF t.results[s] = None THEN row.results[s] ELSE t.results[s]
  BY <1>1, <1>2, <1>3, <1>6, UpdateResultsKeeps
<1>8. /\ ready.pc = "complete" /\ ready.stage = t.stage /\ ready.results = t.results
      /\ onwards.pc = "enter" /\ onwards.stage = NextStage[t.stage] /\ onwards.results = t.results
  BY <1>1 DEF Task
<1>9. Commit(a, Mutable(row), written, o) /\ TaskOf(a, next)
  BY DEF PersistStage, SavedSoFar
<1> HIDE DEF saved, ready, onwards, written
\* The row has the results of the stages the task has done, this one included.
<1>10. \A s \in WorkStages :
         /\ Rank[s] <= Rank[t.stage] => written.results[s] # None
         /\ Rank[s] > Rank[t.stage] => written.results[s] = None
  <2>1. \A s \in WorkStages : Rank[s] <= Rank[t.stage] <=> Done(t, s)
    BY <1>1, <1>2 DEF Done, Rank, WorkStages
  <2>2. \A s \in WorkStages : Rank[s] > Rank[t.stage] => ~Done(t, s)
    BY <1>1, <1>2 DEF Done, Rank, WorkStages
  <2>3. \A s \in WorkStages : Rank[s] > Rank[t.stage] => row.results[s] = None
    BY <1>4 DEF Reached
  <2> HIDE DEF t, row
  <2> QED
    BY <1>4, <1>5, <1>7, <2>1, <2>2, <2>3
<1>11. Reached(written, t.stage)
  BY <1>2, <1>10 DEF Reached, Rank, WorkStages
<1>12. InProgress(Raised(saved), written) /\ InProgress(Raised(saved), row)
  BY <1>3, <1>4, <1>6, <1>7, <1>11, RaisedProgress
<1>13. /\ o = "ok" => tasks'[a] = (IF last THEN ready ELSE onwards) /\ analyses'[a] = written
       /\ o # "ok" => tasks'[a] = Raised(saved) /\ analyses'[a] \in {written, row}
  <2> HIDE DEF row, last
  <2> QED
    BY <1>3, <1>9, CommittedPair DEF IInv, row
<1>14. CASE last
  <2>1. \A s \in WorkStages : Done(ready, s)
    BY <1>8, <1>14 DEF Done, Rank, WorkStages
  <2>2. InProgress(ready, written)
    BY <1>7, <1>8, <1>11, <2>1 DEF InProgress
  <2> QED
    BY <1>12, <1>13, <1>14, <2>2
<1>15. CASE ~last
  <2>1. Reached(written, NextStage[t.stage])
    BY <1>2, <1>10, <1>15 DEF Reached, Rank, NextStage, WorkStages
  <2>2. \A s \in WorkStages : ~Done(onwards, s) => ~Done(t, s)
    BY <1>1, <1>2, <1>8, <1>15 DEF Done, Rank, NextStage, WorkStages
  <2>3. InProgress(onwards, written)
    BY <1>4, <1>7, <1>8, <2>1, <2>2 DEF InProgress
  <2> QED
    BY <1>12, <1>13, <1>15, <2>3
<1> QED
  BY <1>14, <1>15

LEMMA CompleteProgress ==
  ASSUME IInv, NEW a \in Analyses, InProgress(tasks[a], analyses[a]), NEW o, Complete(a, o)
  PROVE  InProgress(tasks'[a], analyses'[a])
<1> DEFINE t        == tasks[a]
           row      == analyses[a]
           legal    == TransitionAllowed(row.status, "completed")
           written  == [row EXCEPT !.status = "completed", !.stage = "persistence"]
           finished == [t EXCEPT !.pc = "finished"]
           next     == IF legal /\ o = "ok" THEN finished ELSE Raised(t)
<1>1. t \in Task /\ row \in Row /\ Consistent(t, row) /\ t.pc = "complete"
  BY DEF IInv, TypeOK, TasksMatchRows, Complete
<1>2. row.status = "running" /\ Reached(row, t.stage)
  BY <1>1, RunningRow DEF PipelinePcs, LivePcs, InProgress
<1>3. written.status = "completed" /\ written.results = row.results
  BY <1>1 DEF Row
<1>4. finished.pc \in EndPcs
  BY <1>1 DEF Task, EndPcs
<1>5. Commit(a, legal, written, o) /\ TaskOf(a, next)
  BY DEF Complete
<1> HIDE DEF finished, written
<1>6. InProgress(Raised(t), written) /\ InProgress(Raised(t), row)
  BY <1>1, <1>2, <1>3, RaisedProgress DEF Reached
<1>7. InProgress(finished, written)
  BY <1>3, <1>4, EndedProgress
<1>8. legal
  BY <1>2 DEF TransitionAllowed
<1> HIDE DEF legal, row, t
<1> QED
  BY <1>5, <1>6, <1>7, <1>8, CommittedPair DEF IInv, row

LEMMA RecordFailureProgress ==
  ASSUME IInv, NEW a \in Analyses, InProgress(tasks[a], analyses[a]), NEW o, RecordFailure(a, o)
  PROVE  InProgress(tasks'[a], analyses'[a])
<1> DEFINE t       == tasks[a]
           row     == analyses[a]
           marking == [t EXCEPT !.pc = "mark"]
           written == UpdateResults(row, NoResults, t.metadata, t.stage)
           next    == IF Mutable(row) /\ o = "ok" THEN marking ELSE Aborted(t)
<1>1. /\ t \in Task /\ row \in Row /\ Consistent(t, row) /\ t.pc = "record"
      /\ t.metadata \in Metadata /\ t.stage \in Stages
  BY DEF IInv, TypeOK, TasksMatchRows, RecordFailure, Task
<1>2. row.status \in {"running", "completed"} /\ Reached(row, t.stage)
  BY <1>1 DEF Consistent, StatusFits, InProgress, LivePcs
<1>3. written.status = row.status /\ Reached(written, t.stage)
  BY <1>1, <1>2, UpdateReaches
<1>4. marking.pc = "mark" /\ marking.stage = t.stage
  BY <1>1 DEF Task
<1>5. Commit(a, Mutable(row), written, o) /\ TaskOf(a, next)
  BY DEF RecordFailure
<1> HIDE DEF marking, written
<1>6. InProgress(marking, written)
  BY <1>2, <1>3, <1>4 DEF InProgress, PipelinePcs
<1>7. InProgress(Aborted(t), written) /\ InProgress(Aborted(t), row)
  BY <1>1, <1>2, <1>3, AbortedProgress
<1> HIDE DEF row, t
<1> QED
  BY <1>5, <1>6, <1>7, CommittedPair DEF IInv, row

LEMMA MarkFailedProgress ==
  ASSUME IInv, NEW a \in Analyses, InProgress(tasks[a], analyses[a]), NEW o, MarkFailed(a, o)
  PROVE  InProgress(tasks'[a], analyses'[a])
<1> DEFINE t       == tasks[a]
           row     == analyses[a]
           legal   == TransitionAllowed(row.status, "failed")
           written == [row EXCEPT !.status = "failed", !.stage = t.stage, !.failure_stage = t.stage]
           failed  == [t EXCEPT !.pc = "failed"]
           next    == IF legal /\ o = "ok" THEN failed ELSE Aborted(t)
<1>1. t \in Task /\ row \in Row /\ Consistent(t, row) /\ t.pc = "mark"
  BY DEF IInv, TypeOK, TasksMatchRows, MarkFailed
<1>2. row.status = "running" /\ Reached(row, t.stage)
  BY <1>1, RunningRow DEF InProgress, LivePcs
<1>3. written.failure_stage = t.stage /\ written.results = row.results
  BY <1>1 DEF Row
<1>4. failed.pc \in EndPcs /\ Aborted(t).pc \in EndPcs
  BY <1>1 DEF Task, EndPcs, Aborted
<1>5. Commit(a, legal, written, o) /\ TaskOf(a, next)
  BY DEF MarkFailed
<1> HIDE DEF failed, written
<1>6. Reached(written, written.failure_stage)
  BY <1>2, <1>3 DEF Reached
<1>7. InProgress(failed, written) /\ InProgress(Aborted(t), written) /\ InProgress(Aborted(t), row)
  BY <1>2, <1>4, <1>6, EndedProgress
<1>8. legal
  BY <1>2 DEF TransitionAllowed
<1> HIDE DEF legal, row, t
<1> QED
  BY <1>5, <1>7, <1>8, CommittedPair DEF IInv, row

\* FailStage raises before anything is written.
LEMMA TaskStepProgress ==
  ASSUME IInv, NEW a \in Analyses, InProgress(tasks[a], analyses[a]), TaskStep(a)
  PROVE  InProgress(tasks'[a], analyses'[a])
<1>1. ASSUME FailStage(a)
      PROVE  InProgress(tasks'[a], analyses'[a])
  <2>1. /\ tasks[a] \in Task /\ analyses[a] \in Row
        /\ Consistent(tasks[a], analyses[a]) /\ tasks[a].pc = "work"
    BY <1>1 DEF IInv, TypeOK, TasksMatchRows, FailStage
  <2>2. analyses[a].status = "running" /\ Reached(analyses[a], tasks[a].stage)
    BY <2>1, RunningRow DEF PipelinePcs, InProgress, LivePcs
  <2>3. tasks'[a] = Raised(tasks[a]) /\ analyses'[a] = analyses[a]
    BY <1>1 DEF FailStage, TaskOf, IInv, TypeOK
  <2> QED
    BY <2>1, <2>2, <2>3, RaisedProgress
<1> QED
  BY <1>1, MarkRunningProgress, SavePreparationProgress, LoadInputsProgress, EnterStageProgress,
     FinishStageProgress, PersistStageProgress, CompleteProgress, RecordFailureProgress, MarkFailedProgress
     DEF TaskStep

-----------------------------------------------------------------------------
(* The other steps.                                                        *)

\* A step of one task leaves every other pair of task and row alone.
LEMMA TaskStepFrame ==
  ASSUME TypeOK, NEW a \in Analyses, TaskStep(a)
  PROVE  /\ \A b \in Analyses \ {a} : tasks'[b] = tasks[b] /\ analyses'[b] = analyses[b]
         /\ UNCHANGED <<properties, requests, asked, crashes>>
BY DEF TypeOK, TaskStep, MarkRunning, SavePreparation, LoadInputs, EnterStage, FinishStage, FailStage,
       PersistStage, Complete, RecordFailure, MarkFailed, Commit, TaskOf, UnchangedByTask

\* A request inserts the row of its analysis with no results, and schedules its task
\* with none; it touches no other.
LEMMA RequestStepProgress ==
  ASSUME IInv, NEW w \in Workers, RequestStep(w), ProgressInv
  PROVE  ProgressInv'
<1> DEFINE q == requests[w]
           row == analyses[q.id]
<1>1. /\ Busy(w) /\ q \in Request /\ q.id \in Analyses /\ tasks[q.id].pc = "none"
      /\ row \in Row /\ InProgress(tasks[q.id], row)
  BY DEF IInv, TypeOK, Attached, TasksMatchRows, RequestsOwnIds, ProgressInv, RequestStep, AllocateVersion,
         InsertAnalysis, SaveInputs, Busy
<1>2. SUFFICES ASSUME ~AllocateVersion(w)
               PROVE  /\ \A b \in Analyses \ {q.id} : tasks'[b] = tasks[b] /\ analyses'[b] = analyses[b]
                      /\ InProgress(tasks'[q.id], analyses'[q.id])
  BY DEF AllocateVersion, ProgressInv
<1>3. ASSUME NEW o, InsertAnalysis(w, o)
      PROVE  /\ \A b \in Analyses \ {q.id} : tasks'[b] = tasks[b] /\ analyses'[b] = analyses[b]
             /\ InProgress(tasks'[q.id], analyses'[q.id])
  <2>1. Commit(q.id, UniqueVersion(q), NewRow(q), o) /\ UNCHANGED tasks
    BY <1>3 DEF InsertAnalysis
  <2>2. NewRow(q).status = "pending" /\ NewRow(q).results = NoResults
    BY DEF NewRow, NoRow
  <2>3. InProgress(tasks[q.id], NewRow(q))
    BY <1>1, <2>2, NothingReached DEF InProgress, LivePcs, PipelinePcs
  <2> HIDE DEF q
  <2> QED
    BY <1>1, <2>1, <2>3 DEF Commit, IInv, TypeOK
<1>4. ASSUME NEW o, SaveInputs(w, o)
      PROVE  /\ \A b \in Analyses \ {q.id} : tasks'[b] = tasks[b] /\ analyses'[b] = analyses[b]
             /\ InProgress(tasks'[q.id], analyses'[q.id])
  <2> DEFINE written == UpdateResults(row, NoResults, InputsMetadata(q.context), row.stage)
  <2>1. /\ Commit(q.id, Mutable(row), written, o) /\ q.step = "inputs"
        /\ \/ UNCHANGED tasks
           \/ tasks' = [tasks EXCEPT ![q.id] = ScheduledTask(w)]
    BY <1>4 DEF SaveInputs
  <2>2. row.status = "pending" /\ Reached(row, "preparation")
    BY <1>1, <2>1 DEF IInv, TasksMatchRows, RequestsOwnIds, InProgress
  <2>3. written.status = "pending" /\ Reached(written, "preparation")
    <3>1. InputsMetadata(q.context) \in Metadata /\ row.stage \in Stages /\ "preparation" \in Stages
      BY <1>1, DefaultsType DEF Request, Row, Stages
    <3> QED
      BY <1>1, <2>2, <3>1, UpdateReaches
  <2>4. ScheduledTask(w).pc = "scheduled" /\ \A s \in WorkStages : ScheduledTask(w).results[s] = None
    BY DEF ScheduledTask, NoTask, NoResults
  <2> HIDE DEF written, row, q
  <2>5. /\ \A b \in Analyses \ {q.id} : tasks'[b] = tasks[b] /\ analyses'[b] = analyses[b]
        /\ tasks'[q.id] \in {tasks[q.id], ScheduledTask(w)} /\ analyses'[q.id] \in {row, written}
    BY <1>1, <2>1 DEF Commit, IInv, TypeOK, row
  <2>6. \A t \in {tasks[q.id], ScheduledTask(w)}, r \in {row, written} : InProgress(t, r)
    BY <1>1, <2>2, <2>3, <2>4 DEF InProgress, LivePcs, PipelinePcs
  <2> QED
    BY <2>5, <2>6
<1> QED
  BY <1>2, <1>3, <1>4 DEF RequestStep

LEMMA StepKeepsProgress == IInv /\ ProgressInv /\ [Next]_vars => ProgressInv'
<1> SUFFICES ASSUME IInv, ProgressInv, [Next]_vars
             PROVE  ProgressInv'
  OBVIOUS
<1>1. UNCHANGED <<analyses, tasks>> => ProgressInv'
  BY DEF ProgressInv
<1>2. ClientStep \/ UNCHANGED vars => UNCHANGED <<analyses, tasks>>
  BY DEF ClientStep, CreateProperty, PatchProperty, CreateAnalysis, RerunAnalysis, vars
<1>3. ASSUME NEW a \in Analyses, TaskStep(a)
      PROVE  ProgressInv'
  <2>1. \A b \in Analyses \ {a} : tasks'[b] = tasks[b] /\ analyses'[b] = analyses[b]
    BY <1>3, TaskStepFrame DEF IInv
  <2>2. InProgress(tasks'[a], analyses'[a])
    BY <1>3, TaskStepProgress DEF ProgressInv
  <2> QED
    BY <2>1, <2>2 DEF ProgressInv
<1>4. ASSUME NEW w \in Workers, Crash(w)
      PROVE  ProgressInv'
  <2> SUFFICES ASSUME NEW a \in Analyses
               PROVE  InProgress(tasks'[a], analyses'[a])
    BY DEF ProgressInv
  <2>1. InProgress(tasks[a], analyses[a]) /\ analyses'[a] = analyses[a]
    BY <1>4 DEF ProgressInv, Crash
  <2>2. tasks'[a] = tasks[a] \/ tasks'[a].pc \in EndPcs
    BY <1>4 DEF Crash, IInv, TypeOK, Task, EndPcs
  <2> QED
    BY <2>1, <2>2, EndedProgress DEF InProgress
<1> QED
  BY <1>1, <1>2, <1>3, <1>4, RequestStepProgress DEF Next

\* The failure stage of a failed analysis is how far it came: the results of the stages
\* before it are there and no others, in every execution.
THEOREM FailureStagesMatchResults == Spec => []FailureStageMatchesResults
<1>1. Init => ProgressInv
  <2>1. /\ NoTask.pc = "none" /\ NoRow.status = "absent" /\ Reached(NoRow, "preparation")
    BY NothingReached DEF NoTask, NoRow
  <2>2. InProgress(NoTask, NoRow)
    BY <2>1 DEF InProgress, LivePcs, PipelinePcs
  <2> QED
    BY <2>2 DEF Init, ProgressInv
<1>2. ProgressInv => FailureStageMatchesResults
  BY DEF ProgressInv, InProgress, Reached, FailureStageMatchesResults
<1> QED
  BY <1>1, <1>2, StepKeepsProgress, InvariantHolds, PTL DEF Spec

-----------------------------------------------------------------------------
(* What leaves an analysis stranded.                                       *)

StrandedSet == {a \in Analyses : Stranded(a)}

\* A step of a task raises no more than one database call; if it raises none, the task
\* goes on or its analysis has ended.
LEMMA TaskStepStrands ==
  ASSUME IInv, NEW a \in Analyses, TaskStep(a)
  PROVE  \/ faults' = faults + 1
         \/ faults' = faults /\ ~Stranded(a)'
<1> DEFINE t   == tasks[a]
           row == analyses[a]
<1>1. t \in Task /\ row \in Row /\ Consistent(t, row)
  BY DEF IInv, TypeOK, TasksMatchRows
<1>2. t.pc \in PipelinePcs \cup {"prepare", "load", "mark"} => row.status = "running" /\ Mutable(row)
  BY <1>1, RunningRow
<1>3. ASSUME NEW next, TaskOf(a, next), next.pc \in LivePcs
      PROVE  ~Stranded(a)'
  BY <1>3 DEF TaskOf, IInv, TypeOK, Stranded, Attended
<1>4. ASSUME NEW legal, NEW written, NEW o, Commit(a, legal, written, o)
      PROVE  /\ o = "ok" => faults' = faults
             /\ o # "ok" => faults' = faults + 1
             /\ legal /\ o = "ok" => analyses'[a] = written
             /\ ~legal => analyses'[a] = row
  BY <1>4 DEF Commit, IInv, TypeOK
<1>5. ASSUME analyses'[a].status \in {"completed", "failed"}
      PROVE  ~Stranded(a)'
  BY <1>5 DEF Stranded, Terminal
<1>6. Raised(t).pc \in LivePcs
  BY <1>1 DEF Raised, Task, LivePcs
<1>7. ASSUME NEW o, MarkRunning(a, o)
      PROVE  faults' = faults + 1 \/ (faults' = faults /\ ~Stranded(a)')
  <2> DEFINE begun   == [t EXCEPT !.pc = "prepare", !.stage = "preparation", !.metadata = ExecutionMetadata]
             legal   == TransitionAllowed(row.status, "running")
             next    == IF legal /\ o = "ok" THEN begun ELSE Aborted(begun)
             written == [row EXCEPT !.status = "running", !.stage = "preparation"]
  <2>1. Commit(a, legal, written, o) /\ TaskOf(a, next)
    BY <1>7 DEF MarkRunning
  <2>2. legal
    BY <1>1, <1>7 DEF MarkRunning, Consistent, StatusFits, TransitionAllowed
  <2>3. begun.pc \in LivePcs
    BY <1>1 DEF Task, LivePcs
  <2> HIDE DEF legal, begun, written, row, t
  <2> QED
    BY <1>3, <1>4, <2>1, <2>2, <2>3 DEF row
<1>8. ASSUME NEW o, SavePreparation(a, o)
      PROVE  faults' = faults + 1 \/ (faults' = faults /\ ~Stranded(a)')
  <2> DEFINE loading == [t EXCEPT !.pc = "load"]
             next    == IF Mutable(row) /\ o = "ok" THEN loading ELSE Aborted(t)
             written == UpdateResults(row, NoResults, t.metadata, "preparation")
  <2>1. Commit(a, Mutable(row), written, o) /\ TaskOf(a, next) /\ Mutable(row)
    BY <1>2, <1>8 DEF SavePreparation
  <2>2. loading.pc \in LivePcs
    BY <1>1 DEF Task, LivePcs
  <2> HIDE DEF loading, written, row, t
  <2> QED
    BY <1>3, <1>4, <2>1, <2>2 DEF row
<1>9. ASSUME NEW o, LoadInputs(a, o)
      PROVE  faults' = faults + 1 \/ (faults' = faults /\ ~Stranded(a)')
  <2> DEFINE loaded == [t EXCEPT !.pc = "enter", !.stage = "underwriting", !.inputs = StoredInputs(a)]
  <2>1. loaded.pc \in LivePcs
    BY <1>1 DEF Task, LivePcs
  <2>2. faults' = faults + 1 \/ (faults' = faults /\ TaskOf(a, loaded))
    BY <1>9 DEF LoadInputs
  <2> HIDE DEF loaded
  <2> QED
    BY <1>3, <2>1, <2>2
<1>10. ASSUME NEW o, EnterStage(a, o)
       PROVE  faults' = faults + 1 \/ (faults' = faults /\ ~Stranded(a)')
  <2> DEFINE entered == [t EXCEPT !.metadata = InStage(@, t.stage)]
             working == [entered EXCEPT !.pc = "work"]
             written == UpdateResults(row, NoResults, entered.metadata, t.stage)
             next    == IF Mutable(row) /\ o = "ok" THEN working ELSE Raised(entered)
  <2>1. Commit(a, Mutable(row), written, o) /\ TaskOf(a, next) /\ Mutable(row)
    BY <1>2, <1>10 DEF EnterStage, PipelinePcs
  <2>2. working.pc \in LivePcs
    BY <1>1 DEF Task, LivePcs
  <2> HIDE DEF working, entered, written, row, t
  <2> QED
    BY <1>3, <1>4, <2>1, <2>2 DEF row
<1>11. CASE FinishStage(a)
  <2> DEFINE done == [t EXCEPT !.pc = "persist", !.results[t.stage] = ResultOf(t.stage, t.inputs)]
             over == [done EXCEPT !.metadata = [@ EXCEPT !.status = "completed", !.stage = "persistence",
                                                         !.completed_at = TRUE]]
  <2>1. done.pc \in LivePcs /\ over.pc \in LivePcs
    BY <1>1 DEF Task, LivePcs
  <2>2. (TaskOf(a, done) \/ TaskOf(a, over)) /\ faults' = faults
    BY <1>11 DEF FinishStage
  <2> HIDE DEF done, over
  <2> QED
    BY <1>3, <2>1, <2>2
<1>12. CASE FailStage(a)
  BY <1>3, <1>6, <1>12 DEF FailStage
<1>13. ASSUME NEW o, PersistStage(a, o)
       PROVE  faults' = faults + 1 \/ (faults' = faults /\ ~Stranded(a)')
  <2> DEFINE last    == t.stage = "investment_committee"
             stage   == IF last THEN "persistence" ELSE t.stage
             saved   == [t EXCEPT !.metadata = InStage(@, stage)]
             ready   == [saved EXCEPT !.pc = "complete"]
             onwards == [saved EXCEPT !.pc = "enter", !.stage = NextStage[t.stage]]
             written == UpdateResults(row, SavedSoFar(t), saved.metadata, stage)
             next    == IF ~(Mutable(row) /\ o = "ok") THEN Raised(saved) ELSE IF last THEN ready ELSE onwards
  <2>1. Commit(a, Mutable(row), written, o) /\ TaskOf(a, next) /\ Mutable(row)
    BY <1>2, <1>13 DEF PersistStage, PipelinePcs
  <2>2. ready.pc \in LivePcs /\ onwards.pc \in LivePcs
    BY <1>1 DEF Task, LivePcs
  <2> HIDE DEF ready, onwards, saved, written, last, row, t
  <2> QED
    BY <1>3, <1>4, <2>1, <2>2 DEF row
<1>14. ASSUME NEW o, Complete(a, o)
       PROVE  faults' = faults + 1 \/ (faults' = faults /\ ~Stranded(a)')
  <2> DEFINE legal   == TransitionAllowed(row.status, "completed")
             written == [row EXCEPT !.status = "completed", !.stage = "persistence"]
  <2>1. Commit(a, legal, written, o) /\ legal
    BY <1>2, <1>14 DEF Complete, PipelinePcs, TransitionAllowed
  <2>2. written.status = "completed"
    BY <1>1 DEF Row
  <2> HIDE DEF legal, written, row
  <2> QED
    BY <1>4, <1>5, <2>1, <2>2 DEF row
\* A completed row makes _handle_failure raise, but nobody waits for it any more.
<1>15. ASSUME NEW o, RecordFailure(a, o)
       PROVE  faults' = faults + 1 \/ (faults' = faults /\ ~Stranded(a)')
  <2> DEFINE marking == [t EXCEPT !.pc = "mark"]
             written == UpdateResults(row, NoResults, t.metadata, t.stage)
             next    == IF Mutable(row) /\ o = "ok" THEN marking ELSE Aborted(t)
  <2>1. Commit(a, Mutable(row), written, o) /\ TaskOf(a, next)
    BY <1>15 DEF RecordFailure
  <2>2. marking.pc \in LivePcs
    BY <1>1 DEF Task, LivePcs
  <2>3. ~Mutable(row) => row.status = "completed"
    BY DEF Mutable
  <2> HIDE DEF marking, written, row, t
  <2> QED
    BY <1>3, <1>4, <1>5, <2>1, <2>2, <2>3 DEF row
<1>16. ASSUME NEW o, MarkFailed(a, o)
       PROVE  faults' = faults + 1 \/ (faults' = faults /\ ~Stranded(a)')
  <2> DEFINE legal   == TransitionAllowed(row.status, "failed")
             written == [row EXCEPT !.status = "failed", !.stage = t.stage, !.failure_stage = t.stage]
  <2>1. Commit(a, legal, written, o) /\ legal
    BY <1>2, <1>16 DEF MarkFailed, TransitionAllowed
  <2>2. written.status = "failed"
    BY <1>1 DEF Row
  <2> HIDE DEF legal, written, row
  <2> QED
    BY <1>4, <1>5, <2>1, <2>2 DEF row
<1> QED
  BY <1>7, <1>8, <1>9, <1>10, <1>11, <1>12, <1>13, <1>14, <1>15, <1>16 DEF TaskStep

\* A handler that raises after its insert leaves its row pending; one that does not
\* schedules the task, and one that is refused has no row.
LEMMA RequestStepStrands ==
  ASSUME IInv, NEW w \in Workers, RequestStep(w), NEW a \in Analyses, requests[w].id = a
  PROVE  /\ \/ faults' = faults + 1
            \/ faults' = faults /\ ~Stranded(a)'
         /\ \A b \in Analyses \ {a} : Stranded(b)' => Stranded(b)
<1> DEFINE q == requests[w]
<1>1. /\ Busy(w) /\ q \in Request /\ q.id = a /\ analyses[a] \in Row
      /\ \A v \in Workers \ {w} : requests[v].id # a
  BY DEF IInv, TypeOK, TasksMatchRows, RequestsOwnIds, RequestStep, AllocateVersion,
         InsertAnalysis, SaveInputs, Busy
<1>2. ASSUME NEW next, requests' = [requests EXCEPT ![w] = next], next.id \in {a, None},
             \A b \in Analyses \ {a} : tasks'[b] = tasks[b] /\ analyses'[b] = analyses[b],
             NEW b \in Analyses \ {a}, Stranded(b)'
      PROVE  Stranded(b)
  <2>1. \A v \in Workers : requests[v].id = b => requests'[v] = requests[v]
    BY <1>2 DEF IInv, TypeOK
  <2> QED
    BY <1>2, <2>1 DEF Stranded, Attended, Persisted, Terminal
<1>3. ASSUME NEW next, requests' = [requests EXCEPT ![w] = next], next.id = a
      PROVE  ~Stranded(a)'
  <2>1. requests'[w].id = a
    BY <1>3 DEF IInv, TypeOK
  <2> QED
    BY <2>1 DEF Stranded, Attended
<1>4. IdleRequest.id = None
  BY DEF IdleRequest
<1>5. CASE AllocateVersion(w)
  <2>1. PICK v \in NextVersion(q.property) : requests' = [requests EXCEPT ![w].step = "insert", ![w].version = v]
    BY <1>5 DEF AllocateVersion
  <2> DEFINE next == [[q EXCEPT !.step = "insert"] EXCEPT !.version = v]
  <2>2. requests' = [requests EXCEPT ![w] = next] /\ next.id = a
    BY <1>1, <2>1 DEF IInv, TypeOK, Request
  <2>3. UNCHANGED <<analyses, tasks, faults>>
    BY <1>5 DEF AllocateVersion
  <2> HIDE DEF next, q
  <2> QED
    BY <1>1, <1>2, <1>3, <2>2, <2>3 DEF q
<1>6. ASSUME NEW o, InsertAnalysis(w, o)
      PROVE  /\ faults' = faults + 1 \/ (faults' = faults /\ ~Stranded(a)')
             /\ \A b \in Analyses \ {a} : Stranded(b)' => Stranded(b)
  <2> DEFINE next == IF UniqueVersion(q) /\ o = "ok" THEN [q EXCEPT !.step = "inputs"] ELSE IdleRequest
  <2>1. /\ Commit(a, UniqueVersion(q), NewRow(q), o) /\ requests' = [requests EXCEPT ![w] = next]
        /\ UNCHANGED tasks /\ q.step = "insert"
    BY <1>6 DEF InsertAnalysis
  <2>2. next.id \in {a, None} /\ (UniqueVersion(q) /\ o = "ok" => next.id = a)
    BY <1>1, <1>4 DEF Request
  <2>3. \A b \in Analyses \ {a} : tasks'[b] = tasks[b] /\ analyses'[b] = analyses[b]
    BY <2>1 DEF Commit, IInv, TypeOK
  <2>4. ~UniqueVersion(q) => ~Stranded(a)'
    <3>1. ~UniqueVersion(q) => analyses'[a] = analyses[a]
      BY <2>1 DEF Commit
    <3>2. analyses[a].status = "absent"
      BY <1>1, <2>1 DEF IInv, TasksMatchRows, RequestsOwnIds, Persisted
        <3>3. ~UniqueVersion(q) => analyses'[a].status = "absent"
      BY <3>1, <3>2
    <3> QED
      BY <3>3 DEF Stranded, Persisted
  <2>5. faults' = faults + 1 \/ (faults' = faults /\ o = "ok")
    BY <2>1 DEF Commit
  <2> HIDE DEF next, q
  <2> QED
    BY <1>2, <1>3, <2>1, <2>2, <2>3, <2>4, <2>5
<1>7. ASSUME NEW o, SaveInputs(w, o)
      PROVE  /\ faults' = faults + 1 \/ (faults' = faults /\ ~Stranded(a)')
             /\ \A b \in Analyses \ {a} : Stranded(b)' => Stranded(b)
  <2> DEFINE row     == analyses[a]
             written == UpdateResults(row, NoResults, InputsMetadata(q.context), row.stage)
  <2>1. /\ Commit(a, Mutable(row), written, o) /\ requests' = [requests EXCEPT ![w] = IdleRequest]
        /\ tasks' = IF Mutable(row) /\ o = "ok" THEN [tasks EXCEPT ![a] = ScheduledTask(w)] ELSE tasks
        /\ q.step = "inputs"
    BY <1>7 DEF SaveInputs
  <2>2. Mutable(row)
    BY <1>1, <2>1 DEF IInv, TasksMatchRows, RequestsOwnIds, Mutable
  <2> HIDE DEF written, row
  <2>3. \A b \in Analyses \ {a} : tasks'[b] = tasks[b] /\ analyses'[b] = analyses[b]
    BY <2>1 DEF Commit, IInv, TypeOK
  <2>4. ScheduledTask(w).pc \in LivePcs
    BY DEF ScheduledTask, NoTask, LivePcs
  <2>5. o = "ok" => ~Stranded(a)'
    BY <1>1, <2>1, <2>2, <2>4 DEF Stranded, Attended, IInv, TypeOK
  <2>6. faults' = faults + 1 \/ (faults' = faults /\ o = "ok")
    BY <2>1 DEF Commit
  <2> HIDE DEF q
  <2> QED
    BY <1>2, <1>4, <2>1, <2>3, <2>5, <2>6
<1> QED
  BY <1>1, <1>5, <1>6, <1>7 DEF RequestStep

\* Every step but a crash strands one analysis more, and then a database call has
\* raised in it, or none.
LEMMA StepStrands ==
  ASSUME IInv, [Next]_vars, crashes' = crashes
  PROVE  \/ faults' = faults /\ StrandedSet' \subseteq StrandedSet
         \/ faults' = faults + 1 /\ \E a \in Analyses : StrandedSet' \subseteq StrandedSet \cup {a}
<1>1. CASE ClientStep
  <2>1. UNCHANGED <<analyses, tasks, faults>>
    BY <1>1 DEF ClientStep, CreateProperty, PatchProperty, CreateAnalysis, RerunAnalysis
  <2>2. \A w \in Workers : LoopFree(w) => requests[w].id = None
    BY DEF IInv, TasksMatchRows, RequestsOwnIds, LoopFree, Busy
  <2>3. requests' = requests \/ \E w \in Workers : LoopFree(w) /\ \A v \in Workers \ {w} : requests'[v] = requests[v]
    BY <1>1 DEF ClientStep, CreateProperty, PatchProperty, CreateAnalysis, RerunAnalysis, IInv, TypeOK
  <2>4. \A a \in Analyses : \A v \in Workers : requests[v].id = a => requests'[v] = requests[v]
    BY <2>2, <2>3, NoneIsNoValue
  <2>5. \A a \in Analyses : Stranded(a)' => Stranded(a)
    BY <2>1, <2>4 DEF Stranded, Attended, Persisted, Terminal
  <2> QED
    BY <2>1, <2>5 DEF StrandedSet
<1>2. ASSUME NEW w \in Workers, RequestStep(w)
      PROVE  \/ faults' = faults /\ StrandedSet' \subseteq StrandedSet
             \/ faults' = faults + 1 /\ \E a \in Analyses : StrandedSet' \subseteq StrandedSet \cup {a}
  <2>1. PICK a \in Analyses : requests[w].id = a
    BY <1>2 DEF IInv, Attached, RequestStep, AllocateVersion, InsertAnalysis, SaveInputs, Busy
  <2>2. /\ faults' = faults + 1 \/ (faults' = faults /\ ~Stranded(a)')
        /\ \A b \in Analyses \ {a} : Stranded(b)' => Stranded(b)
    BY <1>2, <2>1, RequestStepStrands
  <2> QED
    BY <2>2 DEF StrandedSet
<1>3. ASSUME NEW a \in Analyses, TaskStep(a)
      PROVE  \/ faults' = faults /\ StrandedSet' \subseteq StrandedSet
             \/ faults' = faults + 1 /\ StrandedSet' \subseteq StrandedSet \cup {a}
  <2>1. \A b \in Analyses \ {a} : tasks'[b] = tasks[b] /\ analyses'[b] = analyses[b]
    BY <1>3, TaskStepFrame DEF IInv
  <2>2. requests' = requests
    BY <1>3, TaskStepFrame DEF IInv
  <2>3. \A b \in Analyses \ {a} : Stranded(b)' => Stranded(b)
    BY <2>1, <2>2 DEF Stranded, Attended, Persisted, Terminal
  <2> QED
    BY <1>3, <2>3, TaskStepStrands DEF StrandedSet
<1>4. \A w \in Workers : ~Crash(w)
  BY DEF Crash, IInv, TypeOK
<1>5. CASE UNCHANGED vars
  BY <1>5 DEF vars, StrandedSet, Stranded, Attended, Persisted, Terminal
<1> QED
  BY <1>1, <1>2, <1>3, <1>4, <1>5 DEF Next

\* While no process has crashed, finitely many analyses are stranded, no more than calls raised.
FewStranded == crashes = 0 => IsFiniteSet(StrandedSet) /\ Cardinality(StrandedSet) <= faults

\* Nothing but a raising database call leaves an analysis pending or running with nobody
\* at work on it, and each such call leaves one: failures never spread between analyses.
THEOREM FaultsStrandOne == Spec => []StrandedOnlyByFaults
<1>1. Init => FewStranded
  <2> SUFFICES ASSUME Init
               PROVE  StrandedSet = {} /\ faults = 0
    BY FS_EmptySet DEF FewStranded
  <2> QED
    BY DEF Init, StrandedSet, Stranded, Persisted, NoRow
<1>2. IInv /\ FewStranded /\ [Next]_vars => FewStranded'
  <2> SUFFICES ASSUME IInv, FewStranded, [Next]_vars, crashes' = 0
               PROVE  IsFiniteSet(StrandedSet') /\ Cardinality(StrandedSet') <= faults'
    BY DEF FewStranded
  <2>1. crashes = 0 /\ faults \in Nat
    <3>1. ClientStep \/ (\E w \in Workers : RequestStep(w)) \/ UNCHANGED vars => crashes' = crashes
      BY DEF vars, ClientStep, CreateProperty, PatchProperty, CreateAnalysis, RerunAnalysis,
             RequestStep, AllocateVersion, InsertAnalysis, SaveInputs
    <3>2. \A a \in Analyses : TaskStep(a) => crashes' = crashes
      BY TaskStepFrame DEF IInv
    <3>3. \A w \in Workers : Crash(w) => crashes' = crashes + 1
      BY DEF Crash
    <3>4. crashes \in Nat /\ faults \in Nat
      BY DEF IInv, TypeOK
    <3>5. crashes' = crashes \/ crashes' = crashes + 1
      BY <3>1, <3>2, <3>3 DEF Next
    <3> QED
      BY <3>4, <3>5
  <2>2. IsFiniteSet(StrandedSet) /\ Cardinality(StrandedSet) <= faults /\ Cardinality(StrandedSet) \in Nat
    BY <2>1, FS_CardinalityType DEF FewStranded
  <2>3. CASE faults' = faults /\ StrandedSet' \subseteq StrandedSet
    <3>1. IsFiniteSet(StrandedSet') /\ Cardinality(StrandedSet') <= Cardinality(StrandedSet)
      BY <2>2, <2>3, FS_Subset
    <3>2. Cardinality(StrandedSet') \in Nat
      BY <3>1, FS_CardinalityType
    <3> QED
      BY <2>1, <2>2, <2>3, <3>1, <3>2
  <2>4. ASSUME faults' = faults + 1, NEW a \in Analyses, StrandedSet' \subseteq StrandedSet \cup {a}
        PROVE  IsFiniteSet(StrandedSet') /\ Cardinality(StrandedSet') <= faults'
    <3>1. IsFiniteSet(StrandedSet \cup {a}) /\ Cardinality(StrandedSet \cup {a}) <= Cardinality(StrandedSet) + 1
      <4>1. /\ IsFiniteSet(StrandedSet \cup {a})
            /\ Cardinality(StrandedSet \cup {a})
                 = IF a \in StrandedSet THEN Cardinality(StrandedSet) ELSE Cardinality(StrandedSet) + 1
        BY <2>2, FS_AddElement
      <4> QED
        BY <2>2, <4>1
    <3>2. IsFiniteSet(StrandedSet') /\ Cardinality(StrandedSet') <= Cardinality(StrandedSet \cup {a})
      BY <2>4, <3>1, FS_Subset
    <3>3. Cardinality(StrandedSet') \in Nat /\ Cardinality(StrandedSet \cup {a}) \in Nat
      BY <3>1, <3>2, FS_CardinalityType
    <3> QED
      BY <2>1, <2>2, <2>4, <3>1, <3>2, <3>3
  <2> QED
    BY <2>1, <2>3, <2>4, StepStrands
<1>3. FewStranded => StrandedOnlyByFaults
  BY DEF FewStranded, StrandedSet, StrandedOnlyByFaults
<1> QED
  BY <1>1, <1>2, <1>3, InvariantHolds, PTL DEF Spec
=============================================================================

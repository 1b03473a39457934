----------------------------- MODULE AnalysisProofs -----------------------------
(***************************************************************************)
(* Proofs about AnalysisLifecycle for every number of processes,           *)
(* properties, analyses, snapshots, faults and crashes: its states are well*)
(* typed, a task and its row always agree (TasksMatchRows), and so         *)
(* completed reports are whole and failures explained.                     *)
(***************************************************************************)
EXTENDS AnalysisProperties, TLAPS

-----------------------------------------------------------------------------
(* Types of the values the actions build.                                  *)

\* The overwritten columns of update_results keep a row a row.
LEMMA UpdateResultsType ==
  ASSUME NEW row \in Row, NEW results \in Results, NEW metadata \in Metadata, NEW stage \in Stages
  PROVE  UpdateResults(row, results, metadata, stage) \in Row
BY DEF UpdateResults, Row, Results

\* And leaves the other columns alone.
LEMMA UpdateResultsKeeps ==
  ASSUME NEW row \in Row, NEW results \in Results, NEW metadata \in Metadata, NEW stage \in Stages
  PROVE  /\ UpdateResults(row, results, metadata, stage).status = row.status
         /\ UpdateResults(row, results, metadata, stage).property = row.property
         /\ UpdateResults(row, results, metadata, stage).parent = row.parent
         /\ UpdateResults(row, results, metadata, stage).version = row.version
         /\ UpdateResults(row, results, metadata, stage).snapshot = row.snapshot
         /\ UpdateResults(row, results, metadata, stage).assumptions = row.assumptions
         /\ UpdateResults(row, results, metadata, stage).failure_stage = row.failure_stage
         /\ UpdateResults(row, results, metadata, stage).metadata = metadata
         /\ UpdateResults(row, results, metadata, stage).stage = stage
         /\ \A s \in WorkStages : UpdateResults(row, results, metadata, stage).results[s]
                                 = IF results[s] = None THEN row.results[s] ELSE results[s]
BY DEF UpdateResults, Row

\* The constant records have the types of the variables they initialise.
LEMMA DefaultsType ==
  /\ 0 \in Revisions
  /\ NoInputs \in Inputs
  /\ NoResults \in Results
  /\ NoMetadata \in Metadata
  /\ ExecutionMetadata \in Metadata
  /\ \A context \in Contexts \cup {None} : InputsMetadata(context) \in Metadata
  /\ NoRow \in Row
  /\ IdleRequest \in Request
  /\ NoTask \in Task
<1>1. 0 \in Revisions
  BY BoundsAreNaturals DEF Revisions
<1>2. NoInputs \in Inputs /\ NoResults \in Results
  BY <1>1 DEF NoInputs, Inputs, NoResults, Results
<1>3. NoMetadata \in Metadata
  BY DEF NoMetadata, Metadata
<1>4. ExecutionMetadata \in Metadata /\ \A context \in Contexts \cup {None} : InputsMetadata(context) \in Metadata
  BY DEF NoMetadata, Metadata, ExecutionMetadata, InputsMetadata, Statuses, Stages
<1>5. NoRow \in Row
  BY <1>1, <1>2, <1>3 DEF NoRow, Row, Stages
<1>6. IdleRequest \in Request
  BY <1>1 DEF IdleRequest, Request
<1>7. NoTask \in Task
  BY <1>2, <1>3 DEF NoTask, Task, Stages
<1>8. QED
  BY <1>1, <1>2, <1>3, <1>4, <1>5, <1>6, <1>7

\* A commit of a well-formed row keeps the table and the fault counter well-formed.
LEMMA CommitType ==
  ASSUME TypeOK, NEW a \in Analyses, NEW legal, NEW row \in Row, NEW o, Commit(a, legal, row, o)
  PROVE  analyses' \in [Analyses -> Row] /\ faults' \in Nat
BY DEF TypeOK, Commit

\* A task works on, saves and completes work stages only.
PlacedTask ==
  {t \in Task : t.pc \in {"enter", "work", "persist", "complete"} => t.stage \in WorkStages}

\* Moves of a task that raises.
LEMMA RaisedType ==
  ASSUME NEW t \in Task
  PROVE  Raised(t) \in PlacedTask /\ Aborted(t) \in PlacedTask
<1>1. t.metadata \in Metadata /\ t.stage \in Stages
  BY DEF Task
<1>2. [t.metadata EXCEPT !.status = "failed", !.stage = t.stage, !.failure = t.stage] \in Metadata
  BY <1>1 DEF Metadata, Statuses
<1>3. Raised(t) \in PlacedTask
  BY <1>2 DEF Raised, Task, LivePcs, PlacedTask
<1>4. Aborted(t) \in PlacedTask
  BY DEF Aborted, Task, EndPcs, PlacedTask
<1>5. QED
  BY <1>3, <1>4

-----------------------------------------------------------------------------
(* Type correctness.                                                       *)

\* A row has a property, and a request in progress an analysis and a property.
Attached ==
  /\ \A a \in Analyses : Persisted(a) => analyses[a].property \in Properties
  /\ \A w \in Workers : Busy(w) => requests[w].id \in Analyses /\ requests[w].property \in Properties
  /\ \A a \in Analyses : tasks[a] \in PlacedTask

\* The parts of the invariant a write and a new task state can disturb.
LEMMA WriteType ==
  ASSUME TypeOK, Attached, NEW a \in Analyses, NEW legal, NEW row \in Row, NEW o, Commit(a, legal, row, o),
         legal /\ row.status # "absent" => row.property \in Properties
  PROVE  /\ analyses' \in [Analyses -> Row]
         /\ faults' \in Nat
         /\ \A b \in Analyses : Persisted(b)' => analyses'[b].property \in Properties
<1>1. analyses' \in [Analyses -> Row] /\ faults' \in Nat
  BY CommitType
<1>2. ASSUME NEW b \in Analyses, Persisted(b)'
      PROVE  analyses'[b].property \in Properties
  BY <1>2 DEF Commit, TypeOK, Attached, Persisted
<1> QED
  BY <1>1, <1>2

LEMMA TaskStepType ==
  ASSUME TypeOK, Attached, NEW a \in Analyses, NEW next \in PlacedTask, TaskOf(a, next), UnchangedByTask,
         analyses' \in [Analyses -> Row], faults' \in Nat,
         \A b \in Analyses : Persisted(b)' => analyses'[b].property \in Properties
  PROVE  TypeOK' /\ Attached'
BY DEF TypeOK, Attached, Busy, TaskOf, UnchangedByTask, PlacedTask

\* The client's requests keep the types.
LEMMA ClientStepType ==
  ASSUME TypeOK, Attached, ClientStep
  PROVE  TypeOK' /\ Attached'
<1>1. ASSUME NEW p \in Properties, CreateProperty(p) \/ PatchProperty(p)
      PROVE  TypeOK' /\ Attached'
  <2>1. UNCHANGED <<analyses, requests, tasks, asked, faults, crashes>>
    BY <1>1 DEF CreateProperty, PatchProperty
  <2>2. properties' \in [Properties -> [exists : BOOLEAN, verified : Revisions]]
    <3>1. CASE CreateProperty(p)
      <4>1. PICK verified \in 0 .. 1 :
              /\ verified <= MaxRevision
              /\ properties' = [properties EXCEPT ![p] = [exists |-> TRUE, verified |-> verified]]
        BY <3>1 DEF CreateProperty
      <4>2. verified \in Revisions
        BY <4>1, BoundsAreNaturals DEF Revisions
      <4> QED
        BY <4>1, <4>2 DEF TypeOK
    <3>2. CASE PatchProperty(p)
      <4>1. properties[p].verified \in Nat /\ properties[p].verified < MaxRevision
        BY <3>2, BoundsAreNaturals DEF PatchProperty, TypeOK, Revisions
      <4>2. properties[p].verified + 1 \in Revisions
        BY <4>1, BoundsAreNaturals DEF Revisions
      <4> QED
        BY <3>2, <4>2 DEF PatchProperty, TypeOK
    <3> QED
      BY <1>1, <3>1, <3>2
  <2> QED
    BY <2>1, <2>2 DEF TypeOK, Attached, Busy, Persisted
<1>2. ASSUME NEW w \in Workers, NEW a \in Analyses, NEW p \in Properties, NEW assumptions \in Assumptions,
             NEW context \in Contexts \cup {None}, CreateAnalysis(w, a, p, assumptions, context)
      PROVE  TypeOK' /\ Attached'
  <2> DEFINE q == [step |-> "allocate", id |-> a, property |-> p, parent |-> None,
                   snapshot |-> properties[p].verified, assumptions |-> assumptions,
                   context |-> context, version |-> 0]
  <2>1. q \in Request
    BY DEF TypeOK, Request
  <2>2. requests' = [requests EXCEPT ![w] = q] /\ asked' = [asked EXCEPT ![a] = context]
    BY <1>2 DEF CreateAnalysis
  <2>3. UNCHANGED <<properties, analyses, tasks, faults, crashes>>
    BY <1>2 DEF CreateAnalysis
  <2> QED
    BY <2>1, <2>2, <2>3 DEF TypeOK, Attached, Busy, Persisted
<1>3. ASSUME NEW w \in Workers, NEW a \in Analyses, NEW source \in Analyses,
             NEW override \in Assumptions \cup {None}, RerunAnalysis(w, a, source, override)
      PROVE  TypeOK' /\ Attached'
  <2> DEFINE row == analyses[source]
             q == [step |-> "allocate", id |-> a, property |-> row.property, parent |-> source,
                   snapshot |-> RerunSnapshot(source),
                   assumptions |-> Overridden(row.assumptions, override),
                   context |-> row.metadata.context, version |-> 0]
  <2>1. row \in Row /\ Persisted(source)
    BY <1>3 DEF TypeOK, RerunAnalysis
  <2>2. row.metadata.context \in Contexts \cup {None}
    BY <2>1 DEF Row, Metadata
  <2>3. Overridden(row.assumptions, override) \in Assumptions \cup {None}
    BY <2>1 DEF Row, Overridden
  <2>4. row.property \in Properties
    BY <2>1 DEF Attached
  <2>5. q \in Request
    BY <2>2, <2>3, <2>4 DEF TypeOK, Request, RerunSnapshot
  <2>6. requests' = [requests EXCEPT ![w] = q] /\ asked' = [asked EXCEPT ![a] = asked[source]]
    BY <1>3 DEF RerunAnalysis
  <2>7. UNCHANGED <<properties, analyses, tasks, faults, crashes>>
    BY <1>3 DEF RerunAnalysis
  <2> QED
    BY <2>4, <2>5, <2>6, <2>7 DEF TypeOK, Attached, Busy, Persisted
<1> QED
  BY <1>1, <1>2, <1>3 DEF ClientStep

\* The steps of the create and rerun handlers keep the types.
LEMMA RequestStepType ==
  ASSUME TypeOK, Attached, NEW w \in Workers, RequestStep(w)
  PROVE  TypeOK' /\ Attached'
<1> DEFINE q == requests[w]
<1>1. q \in Request /\ (Busy(w) => q.id \in Analyses /\ q.property \in Properties)
  BY DEF TypeOK, Attached
<1>2. CASE AllocateVersion(w)
  <2>1. PICK v \in NextVersion(q.property) :
          requests' = [requests EXCEPT ![w].step = "insert", ![w].version = v]
    BY <1>2 DEF AllocateVersion
  <2>2. \A a \in Analyses : analyses[a].version \in Nat
    BY DEF TypeOK, Row
  <2>3. v \in Nat
    BY <2>1, <2>2 DEF NextVersion, OfProperty
  <2>4. [q EXCEPT !.step = "insert", !.version = v] \in Request
    BY <1>1, <2>3 DEF Request
  <2>5. UNCHANGED <<properties, analyses, tasks, asked, faults, crashes>> /\ Busy(w)
    BY <1>2 DEF AllocateVersion, Busy
  <2>6. requests' = [requests EXCEPT ![w] = [q EXCEPT !.step = "insert", !.version = v]]
    BY <2>1 DEF TypeOK
  <2> QED
    BY <1>1, <2>4, <2>5, <2>6 DEF TypeOK, Attached, Busy, Persisted
<1>3. ASSUME NEW o, InsertAnalysis(w, o)
      PROVE  TypeOK' /\ Attached'
  <2>1. Busy(w) /\ Commit(q.id, UniqueVersion(q), NewRow(q), o)
    BY <1>3 DEF InsertAnalysis, Busy
  <2>2. NewRow(q) \in Row /\ NewRow(q).property = q.property
    BY <1>1, DefaultsType DEF NewRow, Request, Row, Statuses, NoRow
  <2>3. /\ analyses' \in [Analyses -> Row] /\ faults' \in Nat
        /\ \A b \in Analyses : Persisted(b)' => analyses'[b].property \in Properties
    BY <1>1, <2>1, <2>2, WriteType
  <2> DEFINE next == IF UniqueVersion(q) /\ o = "ok" THEN [q EXCEPT !.step = "inputs"] ELSE IdleRequest
  <2>4. next \in Request /\ (next.step # "idle" => next.id = q.id /\ next.property = q.property)
    BY <1>1, DefaultsType DEF Request, IdleRequest
  <2>5. requests' = [requests EXCEPT ![w] = next] /\ UNCHANGED <<properties, tasks, asked, crashes>>
    BY <1>3 DEF InsertAnalysis
  <2> HIDE DEF next, q
  <2> QED
    BY <1>1, <2>1, <2>3, <2>4, <2>5 DEF TypeOK, Attached, Busy
<1>4. ASSUME NEW o, SaveInputs(w, o)
      PROVE  TypeOK' /\ Attached'
  <2> DEFINE row == analyses[q.id]
             next == UpdateResults(row, NoResults, InputsMetadata(q.context), row.stage)
  <2>1. Busy(w) /\ Commit(q.id, Mutable(row), next, o)
    BY <1>4 DEF SaveInputs, Busy
  <2>2. row \in Row /\ row.stage \in Stages /\ q.context \in Contexts \cup {None}
    BY <1>1, <2>1 DEF TypeOK, Row, Request
  <2>3. next \in Row /\ next.property = row.property /\ next.status = row.status
    <3>1. InputsMetadata(q.context) \in Metadata
      BY <2>2, DefaultsType
    <3>2. next \in Row
      BY <2>2, <3>1, UpdateResultsType, DefaultsType
    <3>3. next.property = row.property /\ next.status = row.status
      BY <2>2, <3>1, UpdateResultsKeeps, DefaultsType
    <3> QED
      BY <3>2, <3>3
  <2>4. next.status # "absent" => next.property \in Properties
    BY <1>1, <2>1, <2>3 DEF Attached, Persisted
  <2>5. /\ analyses' \in [Analyses -> Row] /\ faults' \in Nat
        /\ \A b \in Analyses : Persisted(b)' => analyses'[b].property \in Properties
    BY <1>1, <2>1, <2>3, <2>4, WriteType
  <2>6. ScheduledTask(w) \in Task /\ ScheduledTask(w) \in PlacedTask
    BY DefaultsType DEF ScheduledTask, NoTask, Task, LivePcs, PlacedTask
  <2>7. /\ requests' = [requests EXCEPT ![w] = IdleRequest]
        /\ tasks' = IF Mutable(row) /\ o = "ok" THEN [tasks EXCEPT ![q.id] = ScheduledTask(w)] ELSE tasks
        /\ UNCHANGED <<properties, asked, crashes>>
    BY <1>4 DEF SaveInputs
  <2>8. IdleRequest.step = "idle"
    BY DEF IdleRequest
  <2> HIDE DEF next, row
  <2> QED
    BY <1>1, <2>5, <2>6, <2>7, <2>8, DefaultsType DEF TypeOK, Attached, Busy
<1> QED
  BY <1>2, <1>3, <1>4 DEF RequestStep

\* The steps of run_analysis keep the types.
LEMMA TaskStepKeepsTypes ==
  ASSUME TypeOK, Attached, NEW a \in Analyses, TaskStep(a)
  PROVE  TypeOK' /\ Attached'
<1> DEFINE t == tasks[a]
           row == analyses[a]
<1>1. t \in PlacedTask /\ t \in Task /\ t.stage \in Stages /\ t.metadata \in Metadata /\ t.results \in Results /\ t.inputs \in Inputs
  BY DEF TypeOK, Attached, Task
<1>2. row \in Row /\ row.stage \in Stages /\ (row.status # "absent" => row.property \in Properties)
  BY DEF TypeOK, Row, Attached, Persisted
<1>3. Raised(t) \in PlacedTask /\ Aborted(t) \in PlacedTask
  BY <1>1, RaisedType
<1>4. ASSUME NEW legal, NEW written \in Row, NEW next \in PlacedTask, NEW o,
             Commit(a, legal, written, o), TaskOf(a, next), UnchangedByTask,
             legal /\ written.status # "absent" => written.property \in Properties
      PROVE  TypeOK' /\ Attached'
  BY <1>4, WriteType, TaskStepType
<1>5. ASSUME NEW results \in Results, NEW metadata \in Metadata, NEW stage \in Stages, NEW next \in PlacedTask, NEW o,
             Commit(a, Mutable(row), UpdateResults(row, results, metadata, stage), o),
             TaskOf(a, next), UnchangedByTask
      PROVE  TypeOK' /\ Attached'
  <2> DEFINE written == UpdateResults(row, results, metadata, stage)
  <2>1. written \in Row
    BY <1>2, UpdateResultsType
  <2>2. written.status = row.status /\ written.property = row.property
    BY <1>2, UpdateResultsKeeps
  <2>3. written.status # "absent" => written.property \in Properties
    BY <1>2, <2>2
  <2>4. Commit(a, Mutable(row), written, o)
    BY <1>5
  <2> HIDE DEF written
  <2> QED
    BY <1>4, <1>5, <2>1, <2>3, <2>4
<1>6. ASSUME NEW metadata \in Metadata, NEW stage \in Stages
      PROVE  InStage(metadata, stage) \in Metadata
  BY DEF InStage, Metadata
<1>7. ASSUME NEW next \in PlacedTask, TaskOf(a, next), UnchangedByTask, UNCHANGED analyses, faults' \in Nat
      PROVE  TypeOK' /\ Attached'
  BY <1>7, TaskStepType DEF TypeOK, Attached, Persisted
<1>8. ASSUME NEW o, MarkRunning(a, o)
      PROVE  TypeOK' /\ Attached'
  <2> DEFINE begun == [t EXCEPT !.pc = "prepare", !.stage = "preparation", !.metadata = ExecutionMetadata]
             legal == TransitionAllowed(row.status, "running")
             written == [row EXCEPT !.status = "running", !.stage = "preparation"]
             next == IF legal /\ o = "ok" THEN begun ELSE Aborted(begun)
  <2>1. begun \in Task
    BY <1>1, DefaultsType DEF Task, LivePcs, Stages
  <2>2. next \in PlacedTask
    <3>1. begun \in PlacedTask
      BY <1>1, <2>1 DEF PlacedTask, Task
    <3> QED
      BY <2>1, <3>1, RaisedType
  <2>3. written \in Row /\ written.property = row.property
    BY <1>2 DEF Row, Statuses, Stages
  <2>4. legal => row.status # "absent"
    BY DEF TransitionAllowed
  <2>5. Commit(a, legal, written, o) /\ TaskOf(a, next) /\ UnchangedByTask
    BY <1>8 DEF MarkRunning
  <2> HIDE DEF legal, written, next
  <2> QED
    BY <1>2, <1>4, <2>2, <2>3, <2>4, <2>5
<1>9. ASSUME NEW o, SavePreparation(a, o)
      PROVE  TypeOK' /\ Attached'
  <2> DEFINE next == IF Mutable(row) /\ o = "ok" THEN [t EXCEPT !.pc = "load"] ELSE Aborted(t)
  <2>1. next \in PlacedTask
    BY <1>1, <1>3 DEF Task, LivePcs, PlacedTask
  <2>2. /\ Commit(a, Mutable(row), UpdateResults(row, NoResults, t.metadata, "preparation"), o)
        /\ TaskOf(a, next) /\ UnchangedByTask
    BY <1>9 DEF SavePreparation
  <2> HIDE DEF next
  <2> QED
    BY <1>1, <1>5, <2>1, <2>2, DefaultsType DEF Stages
<1>10. ASSUME NEW o, LoadInputs(a, o)
       PROVE  TypeOK' /\ Attached'
  <2> DEFINE loaded == [t EXCEPT !.pc = "enter", !.stage = "underwriting", !.inputs = StoredInputs(a)]
  <2>1. StoredInputs(a) \in Inputs
    BY <1>2 DEF StoredInputs, Inputs, Row, Metadata
  <2>2. loaded \in PlacedTask
    BY <1>1, <2>1 DEF Task, LivePcs, Stages, WorkStages, PlacedTask
  <2>3. (TaskOf(a, loaded) \/ TaskOf(a, Raised(t))) /\ faults' \in Nat /\ UNCHANGED analyses /\ UnchangedByTask
    BY <1>10 DEF LoadInputs, TypeOK
  <2> HIDE DEF loaded
  <2> QED
    BY <1>3, <1>7, <2>2, <2>3
<1>11. ASSUME NEW o, EnterStage(a, o)
       PROVE  TypeOK' /\ Attached'
  <2> DEFINE entered == [t EXCEPT !.metadata = InStage(@, t.stage)]
             next == IF Mutable(row) /\ o = "ok" THEN [entered EXCEPT !.pc = "work"] ELSE Raised(entered)
  <2>1. entered \in Task /\ entered.metadata \in Metadata /\ entered.stage = t.stage
    BY <1>1, <1>6 DEF Task
  <2>2. next \in PlacedTask
    <3>1. t.stage \in WorkStages
      BY <1>1, <1>11 DEF EnterStage, PlacedTask
    <3>2. [entered EXCEPT !.pc = "work"] \in PlacedTask
      BY <2>1, <3>1 DEF Task, LivePcs, PlacedTask
    <3> QED
      BY <2>1, <3>2, RaisedType
  <2>3. /\ Commit(a, Mutable(row), UpdateResults(row, NoResults, entered.metadata, t.stage), o)
        /\ TaskOf(a, next) /\ UnchangedByTask
    BY <1>11 DEF EnterStage
  <2> HIDE DEF next, entered
  <2> QED
    BY <1>1, <1>5, <2>1, <2>2, <2>3, DefaultsType
<1>12. CASE FinishStage(a)
  <2> DEFINE done == [t EXCEPT !.pc = "persist", !.results[t.stage] = ResultOf(t.stage, t.inputs)]
             over == [t.metadata EXCEPT !.status = "completed", !.stage = "persistence", !.completed_at = TRUE]
             next == IF t.stage = "investment_committee" THEN [done EXCEPT !.metadata = over] ELSE done
  <2>1. ResultOf(t.stage, t.inputs) \in Inputs
    BY <1>1 DEF ResultOf, Inputs
  <2>2. done \in Task /\ done.metadata = t.metadata
    BY <1>1, <2>1 DEF Task, LivePcs, Results
  <2>3. over \in Metadata
    BY <1>1 DEF Metadata, Statuses, Stages
  <2>4. next \in PlacedTask
    BY <1>1, <1>12, <2>2, <2>3 DEF FinishStage, Task, PlacedTask
  <2>5. TaskOf(a, next) /\ UNCHANGED <<analyses, faults>> /\ UnchangedByTask
    BY <1>12, <2>2 DEF FinishStage
  <2> HIDE DEF next
  <2> QED
    BY <1>7, <2>4, <2>5 DEF TypeOK
<1>13. CASE FailStage(a)
  BY <1>3, <1>7, <1>13 DEF FailStage, TypeOK
<1>14. ASSUME NEW o, PersistStage(a, o)
       PROVE  TypeOK' /\ Attached'
  <2> DEFINE last == t.stage = "investment_committee"
             stage == IF last THEN "persistence" ELSE t.stage
             saved == [t EXCEPT !.metadata = InStage(@, stage)]
             next == IF ~(Mutable(row) /\ o = "ok") THEN Raised(saved)
                     ELSE IF last THEN [saved EXCEPT !.pc = "complete"]
                     ELSE [saved EXCEPT !.pc = "enter", !.stage = NextStage[t.stage]]
  <2>1. stage \in Stages
    BY <1>1 DEF Stages
  <2>2. saved \in Task /\ saved.metadata \in Metadata
    BY <1>1, <1>6, <2>1 DEF Task
  <2>3. next \in PlacedTask
    <3>1. t.stage \in WorkStages
      BY <1>1, <1>14 DEF PersistStage, PlacedTask
    <3>2. ~last => NextStage[t.stage] \in WorkStages /\ NextStage[t.stage] \in Stages
      BY <3>1 DEF NextStage, Stages, WorkStages
    <3>3. saved.stage = t.stage
      BY <1>1 DEF Task
    <3> QED
      BY <2>2, <3>1, <3>2, <3>3, RaisedType DEF Task, LivePcs, PlacedTask
  <2>4. /\ Commit(a, Mutable(row), UpdateResults(row, SavedSoFar(t), saved.metadata, stage), o)
        /\ TaskOf(a, next) /\ UnchangedByTask
    BY <1>14 DEF PersistStage
  <2> HIDE DEF next, saved, stage
  <2> QED
    BY <1>1, <1>5, <2>1, <2>2, <2>3, <2>4 DEF SavedSoFar
<1>15. ASSUME NEW o, Complete(a, o)
       PROVE  TypeOK' /\ Attached'
  <2> DEFINE legal == TransitionAllowed(row.status, "completed")
             written == [row EXCEPT !.status = "completed", !.stage = "persistence"]
             next == IF legal /\ o = "ok" THEN [t EXCEPT !.pc = "finished"] ELSE Raised(t)
  <2>1. next \in PlacedTask
    BY <1>1, <1>3 DEF Task, EndPcs, PlacedTask
  <2>2. written \in Row /\ written.property = row.property
    BY <1>2 DEF Row, Statuses, Stages
  <2>3. legal => row.status # "absent"
    BY DEF TransitionAllowed
  <2>4. Commit(a, legal, written, o) /\ TaskOf(a, next) /\ UnchangedByTask
    BY <1>15 DEF Complete
  <2> HIDE DEF legal, written, next
  <2> QED
    BY <1>2, <1>4, <2>1, <2>2, <2>3, <2>4
<1>16. ASSUME NEW o, RecordFailure(a, o)
       PROVE  TypeOK' /\ Attached'
  <2> DEFINE next == IF Mutable(row) /\ o = "ok" THEN [t EXCEPT !.pc = "mark"] ELSE Aborted(t)
  <2>1. next \in PlacedTask
    BY <1>1, <1>3 DEF Task, LivePcs, PlacedTask
  <2>2. /\ Commit(a, Mutable(row), UpdateResults(row, NoResults, t.metadata, t.stage), o)
        /\ TaskOf(a, next) /\ UnchangedByTask
    BY <1>16 DEF RecordFailure
  <2> HIDE DEF next
  <2> QED
    BY <1>1, <1>5, <2>1, <2>2, DefaultsType
<1>17. ASSUME NEW o, MarkFailed(a, o)
       PROVE  TypeOK' /\ Attached'
  <2> DEFINE legal == TransitionAllowed(row.status, "failed")
             written == [row EXCEPT !.status = "failed", !.stage = t.stage, !.failure_stage = t.stage]
             next == IF legal /\ o = "ok" THEN [t EXCEPT !.pc = "failed"] ELSE Aborted(t)
  <2>1. next \in PlacedTask
    BY <1>1, <1>3 DEF Task, EndPcs, PlacedTask
  <2>2. written \in Row /\ written.property = row.property
    BY <1>1, <1>2 DEF Row, Statuses, Stages
  <2>3. legal => row.status # "absent"
    BY DEF TransitionAllowed
  <2>4. Commit(a, legal, written, o) /\ TaskOf(a, next) /\ UnchangedByTask
    BY <1>17 DEF MarkFailed
  <2> HIDE DEF legal, written, next
  <2> QED
    BY <1>2, <1>4, <2>1, <2>2, <2>3, <2>4
<1> QED
  BY <1>8, <1>9, <1>10, <1>11, <1>12, <1>13, <1>14, <1>15, <1>16, <1>17 DEF TaskStep

\* A crash keeps the types.
LEMMA CrashKeepsTypes ==
  ASSUME TypeOK, Attached, NEW w \in Workers, Crash(w)
  PROVE  TypeOK' /\ Attached'
<1>1. ASSUME NEW t \in PlacedTask
      PROVE  [t EXCEPT !.pc = "lost"] \in PlacedTask
  BY DEF PlacedTask, Task, EndPcs
<1>2. tasks' \in [Analyses -> Task] /\ \A a \in Analyses : tasks'[a] \in PlacedTask
  BY <1>1 DEF Crash, TypeOK, Attached, PlacedTask
<1>3. requests' = [requests EXCEPT ![w] = IdleRequest] /\ IdleRequest.step = "idle"
  BY DEF Crash, IdleRequest
<1>4. crashes' \in Nat /\ UNCHANGED <<properties, analyses, asked, faults>>
  BY DEF Crash, TypeOK
<1> QED
  BY <1>2, <1>3, <1>4, DefaultsType DEF TypeOK, Attached, Busy, Persisted

LEMMA StepKeepsTypes == TypeOK /\ Attached /\ [Next]_vars => TypeOK' /\ Attached'
<1> SUFFICES ASSUME TypeOK, Attached, [Next]_vars
             PROVE  TypeOK' /\ Attached'
  OBVIOUS
<1>1. CASE Next
  BY <1>1, ClientStepType, RequestStepType, TaskStepKeepsTypes, CrashKeepsTypes DEF Next
<1>2. CASE UNCHANGED vars
  BY <1>2 DEF vars, TypeOK, Attached, Busy, Persisted
<1> QED
  BY <1>1, <1>2

\* Every variable always has its type: the tables, the handlers' and tasks' local state.
THEOREM TypeCorrect == Spec => []TypeOK
<1>1. Init => TypeOK /\ Attached
  BY DefaultsType DEF Init, TypeOK, Attached, Busy, Persisted, NoRow, IdleRequest, NoTask, PlacedTask
<1> QED
  BY <1>1, StepKeepsTypes, PTL DEF Spec

-----------------------------------------------------------------------------
(* A task and its row.                                                     *)

\* The inductive invariant.
IInv == TypeOK /\ Attached /\ TasksMatchRows

\* A result names the snapshot and, but for research, the assumptions it was given.
LEMMA ResultOfKeeps ==
  ASSUME NEW inputs \in Inputs, NEW s \in WorkStages
  PROVE  /\ ResultOf(s, inputs) \in Inputs
         /\ ResultOf(s, inputs).snapshot = inputs.snapshot
         /\ s # "research" => ResultOf(s, inputs).assumptions = inputs.assumptions
BY DEF ResultOf, Inputs

-----------------------------------------------------------------------------
(* What one step of a task does to the pair of task and row.               *)

\* An exception in the pipeline, whether or not the row was written before it.
LEMMA RaisedMatches ==
  ASSUME NEW t \in Task, NEW row \in Row, row.status \in {"running", "completed"},
         row.failure_stage = None, row.status = "completed" => Whole(row)
  PROVE  Consistent(Raised(t), row)
<1> DEFINE r == Raised(t)
<1>1. r.pc = "record" /\ r.stage = t.stage /\ r.metadata.status = "failed" /\ r.metadata.failure = t.stage
  BY DEF Raised, Task, Metadata
<1> HIDE DEF r
<1>2. StatusFits(r, row)
  BY <1>1 DEF StatusFits, PipelinePcs, EndPcs
<1>3. ResultsFit(r, row)
  BY <1>1 DEF ResultsFit, PipelinePcs
<1>4. FailureFits(r, row)
  BY <1>1 DEF FailureFits
<1>5. Consistent(r, row)
  BY <1>2, <1>3, <1>4 DEF Consistent
<1> QED
  BY <1>5 DEF r

\* A task that ends with an exception leaves its row as it is.
LEMMA AbortedMatches ==
  ASSUME NEW t \in Task, NEW row \in Row, row.status # "absent",
         FailureFits(NoTask, row), row.status = "completed" => Whole(row)
  PROVE  Consistent(Aborted(t), row)
<1> DEFINE r == Aborted(t)
<1>1. r.pc = "aborted"
  BY DEF Aborted, Task
<1> HIDE DEF r
<1>2. StatusFits(r, row)
  BY <1>1 DEF StatusFits, PipelinePcs, EndPcs
<1>3. ResultsFit(r, row)
  BY <1>1 DEF ResultsFit, PipelinePcs
<1>4. FailureFits(r, row)
  BY <1>1 DEF FailureFits, NoTask
<1>5. Consistent(r, row)
  BY <1>2, <1>3, <1>4 DEF Consistent
<1> QED
  BY <1>5 DEF r

\* While its task runs, a row is running and has no failure.
LEMMA RunningRow ==
  ASSUME NEW t \in Task, NEW row \in Row, Consistent(t, row),
         t.pc \in PipelinePcs \cup {"prepare", "load", "mark"}
  PROVE  row.status = "running" /\ row.failure_stage = None /\ Mutable(row)
BY DEF Consistent, StatusFits, FailureFits, Mutable

\* A write of results and metadata to a running row leaves it running, with no failure.
LEMMA UpdatedRow ==
  ASSUME NEW row \in Row, NEW results \in Results, NEW metadata \in Metadata, NEW stage \in Stages,
         row.status \in {"pending", "running"}, row.failure_stage = None
  PROVE  /\ UpdateResults(row, results, metadata, stage) \in Row
         /\ UpdateResults(row, results, metadata, stage).status = row.status
         /\ UpdateResults(row, results, metadata, stage).failure_stage = None
         /\ UpdateResults(row, results, metadata, stage).status # "completed"
         /\ FailureFits(NoTask, UpdateResults(row, results, metadata, stage))
<1> DEFINE u == UpdateResults(row, results, metadata, stage)
<1>1. u \in Row
  BY UpdateResultsType
<1>2. u.status = row.status /\ u.failure_stage = None
  BY UpdateResultsKeeps
<1> HIDE DEF u
<1>3. FailureFits(NoTask, u)
  BY <1>2 DEF FailureFits, NoTask
<1>4. u \in Row /\ u.status = row.status /\ u.failure_stage = None /\ u.status # "completed" /\ FailureFits(NoTask, u)
  BY <1>1, <1>2, <1>3
<1> QED
  BY <1>4 DEF u

\* The frame: a step of task a concerns no other task, and no request.
LEMMA TaskStepMatches ==
  ASSUME IInv, NEW a \in Analyses, tasks[a].pc # "none",
         NEW legal, NEW row, NEW o, Commit(a, legal, row, o), NEW next, TaskOf(a, next), UnchangedByTask,
         legal /\ o # "rolled_back" => Consistent(next, row),
         ~(legal /\ o # "rolled_back") => Consistent(next, analyses[a])
  PROVE  TasksMatchRows'
<1>1. \A b \in Analyses \ {a} : tasks'[b] = tasks[b] /\ analyses'[b] = analyses[b]
  BY DEF IInv, TypeOK, TaskOf, Commit
<1>2. tasks'[a] = next
  BY DEF IInv, TypeOK, TaskOf
<1>3. Consistent(tasks'[a], analyses'[a])
  BY <1>2 DEF IInv, TypeOK, Commit
<1>4. requests' = requests
  BY DEF UnchangedByTask
<1>5. \A w \in Workers : Busy(w) => requests[w].id \in Analyses \ {a}
  BY DEF IInv, Attached, TasksMatchRows, RequestsOwnIds
<1>6. RequestsOwnIds'
  BY <1>1, <1>4, <1>5 DEF IInv, TasksMatchRows, RequestsOwnIds, Busy, Persisted
<1>7. \A b \in Analyses : Consistent(tasks'[b], analyses'[b])
  BY <1>1, <1>3 DEF IInv, TasksMatchRows
<1>8. (\A b \in Analyses : Consistent(tasks[b], analyses[b]))'
  BY <1>7
<1> QED
  BY <1>6, <1>8 DEF TasksMatchRows

\* The same for a step that writes nothing.
LEMMA ReadStepMatches ==
  ASSUME IInv, NEW a \in Analyses, tasks[a].pc # "none", UNCHANGED analyses,
         NEW next, TaskOf(a, next), UnchangedByTask, Consistent(next, analyses[a])
  PROVE  TasksMatchRows'
<1>1. /\ \A b \in Analyses \ {a} : tasks'[b] = tasks[b]
      /\ tasks'[a] = next
  BY DEF IInv, TypeOK, TaskOf
<1>2. requests' = requests
  BY DEF UnchangedByTask
<1>3. \A w \in Workers : Busy(w) => requests[w].id \in Analyses \ {a}
  BY DEF IInv, Attached, TasksMatchRows, RequestsOwnIds
<1>4. RequestsOwnIds'
  BY <1>1, <1>2, <1>3 DEF IInv, TasksMatchRows, RequestsOwnIds, Busy, Persisted
<1>5. \A b \in Analyses : Consistent(tasks'[b], analyses'[b])
  BY <1>1 DEF IInv, TasksMatchRows
<1>6. (\A b \in Analyses : Consistent(tasks[b], analyses[b]))'
  BY <1>5
<1> QED
  BY <1>4, <1>6 DEF TasksMatchRows

-----------------------------------------------------------------------------
(* The steps of a task, one by one.                                        *)

\* MarkRunning: a scheduled analysis is still pending; the task starts afresh.
LEMMA MarkRunningMatches ==
  ASSUME IInv, NEW a \in Analyses, NEW o, MarkRunning(a, o)
  PROVE  TasksMatchRows'
<1> DEFINE t       == tasks[a]
           row     == analyses[a]
           begun   == [t EXCEPT !.pc = "prepare", !.stage = "preparation", !.metadata = ExecutionMetadata]
           legal   == TransitionAllowed(row.status, "running")
           written == [row EXCEPT !.status = "running", !.stage = "preparation"]
           next    == IF legal /\ o = "ok" THEN begun ELSE Aborted(begun)
<1>1. t \in Task /\ row \in Row /\ Consistent(t, row) /\ t.pc = "scheduled"
  BY DEF IInv, TypeOK, TasksMatchRows, MarkRunning
<1>2. row.status = "pending" /\ row.failure_stage = None
  BY <1>1 DEF Consistent, StatusFits, FailureFits
<1>3. begun \in Task /\ begun.pc = "prepare"
  BY <1>1, DefaultsType DEF Task, LivePcs, Stages
<1>4. written \in Row /\ written.status = "running" /\ written.failure_stage = None
  BY <1>1, <1>2 DEF Row, Statuses, Stages
<1>5. Commit(a, legal, written, o) /\ TaskOf(a, next) /\ UnchangedByTask
  BY DEF MarkRunning
<1> HIDE DEF begun, written, row, t
<1>6. Consistent(begun, written)
  BY <1>3, <1>4 DEF Consistent, StatusFits, ResultsFit, FailureFits, PipelinePcs, EndPcs
<1>7. FailureFits(NoTask, row) /\ FailureFits(NoTask, written)
  BY <1>2, <1>4 DEF FailureFits, NoTask
<1>8. Consistent(Aborted(begun), written) /\ Consistent(Aborted(begun), row)
  BY <1>1, <1>2, <1>3, <1>4, <1>7, AbortedMatches
<1>9. legal
  BY <1>2 DEF TransitionAllowed
<1> HIDE DEF legal
<1> QED
  BY <1>1, <1>5, <1>6, <1>8, <1>9, TaskStepMatches DEF t, row

\* SavePreparation: the row is running and the task goes on to load it.
LEMMA SavePreparationMatches ==
  ASSUME IInv, NEW a \in Analyses, NEW o, SavePreparation(a, o)
  PROVE  TasksMatchRows'
<1> DEFINE t       == tasks[a]
           row     == analyses[a]
           written == UpdateResults(row, NoResults, t.metadata, "preparation")
           loading == [t EXCEPT !.pc = "load"]
           next    == IF Mutable(row) /\ o = "ok" THEN loading ELSE Aborted(t)
<1>1. t \in Task /\ row \in Row /\ Consistent(t, row) /\ t.pc = "prepare" /\ t.metadata \in Metadata
  BY DEF IInv, TypeOK, TasksMatchRows, SavePreparation, Task
<1>2. row.status = "running" /\ row.failure_stage = None /\ Mutable(row)
  BY <1>1, RunningRow
<1>3. /\ written \in Row /\ written.status = "running" /\ written.failure_stage = None
      /\ FailureFits(NoTask, written)
  BY <1>1, <1>2, UpdatedRow, DefaultsType DEF Stages
<1>4. loading \in Task /\ loading.pc = "load"
  BY <1>1 DEF Task, LivePcs
<1>5. Commit(a, Mutable(row), written, o) /\ TaskOf(a, next) /\ UnchangedByTask
  BY DEF SavePreparation
<1> HIDE DEF loading, written, row, t
<1>6. Consistent(loading, written)
  BY <1>3, <1>4 DEF Consistent, StatusFits, ResultsFit, FailureFits, PipelinePcs, EndPcs
<1>7. FailureFits(NoTask, row)
  BY <1>2 DEF FailureFits, NoTask
<1>8. Consistent(Aborted(t), written) /\ Consistent(Aborted(t), row)
  BY <1>1, <1>2, <1>3, <1>7, AbortedMatches
<1> QED
  BY <1>1, <1>2, <1>5, <1>6, <1>8, TaskStepMatches DEF t, row

\* LoadInputs: the task has the row's inputs.
LEMMA LoadInputsMatches ==
  ASSUME IInv, NEW a \in Analyses, NEW o, LoadInputs(a, o)
  PROVE  TasksMatchRows'
<1> DEFINE t      == tasks[a]
           row    == analyses[a]
           loaded == [t EXCEPT !.pc = "enter", !.stage = "underwriting", !.inputs = StoredInputs(a)]
<1>1. t \in Task /\ row \in Row /\ Consistent(t, row) /\ t.pc = "load"
  BY DEF IInv, TypeOK, TasksMatchRows, LoadInputs
<1>2. row.status = "running" /\ row.failure_stage = None /\ Mutable(row)
  BY <1>1, RunningRow
<1>3. /\ loaded.pc = "enter" /\ loaded.stage = "underwriting"
      /\ loaded.inputs.snapshot = row.snapshot /\ loaded.inputs.assumptions = row.assumptions
  BY <1>1 DEF Task, StoredInputs
<1>4. (TaskOf(a, loaded) \/ TaskOf(a, Raised(t))) /\ UNCHANGED analyses /\ UnchangedByTask
  BY DEF LoadInputs
<1>5. PICK next \in {loaded, Raised(t)} : TaskOf(a, next)
  BY <1>4
<1> HIDE DEF loaded, row, t
<1>6. \A s \in WorkStages : ~Done(loaded, s)
  BY <1>3 DEF Done, Rank, WorkStages
<1>7. Consistent(loaded, row)
  BY <1>2, <1>3, <1>6 DEF Consistent, StatusFits, ResultsFit, FailureFits, PipelinePcs, EndPcs
<1>8. Consistent(Raised(t), row)
  BY <1>1, <1>2, RaisedMatches
<1> QED
  BY <1>1, <1>4, <1>5, <1>7, <1>8, ReadStepMatches DEF t, row

\* EnterStage: only the metadata and the stage of the row change.
LEMMA EnterStageMatches ==
  ASSUME IInv, NEW a \in Analyses, NEW o, EnterStage(a, o)
  PROVE  TasksMatchRows'
<1> DEFINE t       == tasks[a]
           row     == analyses[a]
           entered == [t EXCEPT !.metadata = InStage(@, t.stage)]
           working == [entered EXCEPT !.pc = "work"]
           written == UpdateResults(row, NoResults, entered.metadata, t.stage)
           next    == IF Mutable(row) /\ o = "ok" THEN working ELSE Raised(entered)
<1>1. t \in Task /\ row \in Row /\ Consistent(t, row) /\ t.pc = "enter" /\ t.stage \in Stages
  BY DEF IInv, TypeOK, TasksMatchRows, EnterStage, Task
<1>2. row.status = "running" /\ row.failure_stage = None /\ Mutable(row)
  BY <1>1, RunningRow DEF PipelinePcs
<1>3. entered \in Task /\ entered.metadata \in Metadata
  BY <1>1 DEF Task, InStage, Metadata
<1>4. /\ written \in Row /\ written.status = "running" /\ written.failure_stage = None
      /\ written.snapshot = row.snapshot /\ written.assumptions = row.assumptions
  BY <1>1, <1>2, <1>3, UpdatedRow, UpdateResultsKeeps, DefaultsType
<1>5. /\ working.pc = "work" /\ working.stage = t.stage
      /\ working.inputs = t.inputs /\ working.results = t.results
  BY <1>1 DEF Task
<1>6. Commit(a, Mutable(row), written, o) /\ TaskOf(a, next) /\ UnchangedByTask
  BY DEF EnterStage
<1> HIDE DEF entered, working, written, row, t
<1>7. Consistent(working, written)
  BY <1>1, <1>4, <1>5
     DEF Consistent, StatusFits, ResultsFit, FailureFits, Done, PipelinePcs, EndPcs
<1>8. Consistent(Raised(entered), written) /\ Consistent(Raised(entered), row)
  BY <1>1, <1>2, <1>3, <1>4, RaisedMatches
<1> QED
  BY <1>1, <1>2, <1>6, <1>7, <1>8, TaskStepMatches DEF t, row

\* FinishStage: the result of the stage joins those of the stages before it.
LEMMA FinishStageMatches ==
  ASSUME IInv, NEW a \in Analyses, FinishStage(a)
  PROVE  TasksMatchRows'
<1> DEFINE t    == tasks[a]
           row  == analyses[a]
           done == [t EXCEPT !.pc = "persist", !.results[t.stage] = ResultOf(t.stage, t.inputs)]
           over == [t.metadata EXCEPT !.status = "completed", !.stage = "persistence", !.completed_at = TRUE]
           next == IF t.stage = "investment_committee" THEN [done EXCEPT !.metadata = over] ELSE done
<1>1. t \in PlacedTask /\ t \in Task /\ row \in Row /\ Consistent(t, row) /\ t.pc = "work"
  BY DEF IInv, TypeOK, Attached, TasksMatchRows, FinishStage
<1>2. t.stage \in WorkStages /\ t.results \in Results /\ t.metadata \in Metadata
  BY <1>1 DEF PlacedTask, Task
<1>3. row.status = "running" /\ row.failure_stage = None /\ Mutable(row)
  BY <1>1, RunningRow DEF PipelinePcs
<1>4. /\ next.pc = "persist" /\ next.stage = t.stage /\ next.inputs = t.inputs
      /\ next.results = [t.results EXCEPT ![t.stage] = ResultOf(t.stage, t.inputs)]
      /\ t.stage = "investment_committee" => next.metadata.status = "completed"
  BY <1>1, <1>2 DEF Task, Metadata
<1>5. TaskOf(a, next) /\ UNCHANGED analyses /\ UnchangedByTask
  BY DEF FinishStage
<1> HIDE DEF next, row, t
<1>6. \A s \in WorkStages : Done(next, s) => next.results[s] = ResultOf(s, next.inputs)
  <2>1. ASSUME NEW s \in WorkStages, Done(next, s), s # t.stage
        PROVE  Done(t, s) /\ next.results[s] = t.results[s]
    BY <1>2, <1>4, <2>1 DEF Done, Results
  <2>2. next.results[t.stage] = ResultOf(t.stage, t.inputs)
    BY <1>2, <1>4 DEF Results
  <2>3. \A s \in WorkStages : Done(t, s) => t.results[s] = ResultOf(s, t.inputs)
    BY <1>1 DEF Consistent, ResultsFit, PipelinePcs
  <2> QED
    BY <1>4, <2>1, <2>2, <2>3
<1>7. next.inputs.snapshot = row.snapshot /\ next.inputs.assumptions = row.assumptions
  BY <1>1, <1>4 DEF Consistent, ResultsFit, PipelinePcs
<1>8. Consistent(next, row)
  BY <1>3, <1>4, <1>6, <1>7 DEF Consistent, StatusFits, ResultsFit, FailureFits, PipelinePcs, EndPcs
<1> QED
  BY <1>1, <1>5, <1>8, ReadStepMatches DEF t, row

\* FailStage: an exception while the row is running.
LEMMA FailStageMatches ==
  ASSUME IInv, NEW a \in Analyses, FailStage(a)
  PROVE  TasksMatchRows'
<1>1. /\ tasks[a] \in Task /\ analyses[a] \in Row
      /\ Consistent(tasks[a], analyses[a]) /\ tasks[a].pc = "work"
  BY DEF IInv, TypeOK, TasksMatchRows, FailStage
<1>2. analyses[a].status = "running" /\ analyses[a].failure_stage = None
  BY <1>1, RunningRow DEF PipelinePcs
<1>3. Consistent(Raised(tasks[a]), analyses[a])
  BY <1>1, <1>2, RaisedMatches
<1> QED
  BY <1>1, <1>3, ReadStepMatches DEF FailStage

\* PersistStage: the row gets every result so far; after the committee it has all four.
LEMMA PersistStageMatches ==
  ASSUME IInv, NEW a \in Analyses, NEW o, PersistStage(a, o)
  PROVE  TasksMatchRows'
<1> DEFINE t       == tasks[a]
           row     == analyses[a]
           last    == t.stage = "investment_committee"
           stage   == IF last THEN "persistence" ELSE t.stage
           saved   == [t EXCEPT !.metadata = InStage(@, stage)]
           ready   == [saved EXCEPT !.pc = "complete"]
           onwards == [saved EXCEPT !.pc = "enter", !.stage = NextStage[t.stage]]
           written == UpdateResults(row, t.results, saved.metadata, stage)
           next    == IF ~(Mutable(row) /\ o = "ok") THEN Raised(saved) ELSE IF last THEN ready ELSE onwards
<1>1. t \in PlacedTask /\ t \in Task /\ row \in Row /\ Consistent(t, row) /\ t.pc = "persist"
  BY DEF IInv, TypeOK, Attached, TasksMatchRows, PersistStage
<1>2. t.stage \in WorkStages /\ t.results \in Results /\ t.inputs \in Inputs /\ stage \in Stages
  BY <1>1 DEF PlacedTask, Task, Stages
<1>3. row.status = "running" /\ row.failure_stage = None /\ Mutable(row)
  BY <1>1, RunningRow DEF PipelinePcs
<1>4. saved \in Task /\ saved.metadata \in Metadata /\ saved.metadata.status = t.metadata.status
  BY <1>1, <1>2 DEF Task, InStage, Metadata
<1>5. /\ written \in Row /\ written.status = "running" /\ written.failure_stage = None
      /\ written.snapshot = row.snapshot /\ written.assumptions = row.assumptions
      /\ written.metadata = saved.metadata
      /\ \A s \in WorkStages : written.results[s] = IF t.results[s] = None THEN row.results[s] ELSE t.results[s]
  BY <1>1, <1>2, <1>3, <1>4, UpdatedRow, UpdateResultsKeeps
<1>6. /\ ready.pc = "complete" /\ ready.stage = t.stage /\ ready.inputs = t.inputs /\ ready.results = t.results
      /\ onwards.pc = "enter" /\ onwards.stage = NextStage[t.stage]
      /\ onwards.inputs = t.inputs /\ onwards.results = t.results
  BY <1>1 DEF Task
<1>7. Commit(a, Mutable(row), written, o) /\ TaskOf(a, next) /\ UnchangedByTask
  BY DEF PersistStage, SavedSoFar
<1> HIDE DEF saved, ready, onwards, written, row, t
<1>8. /\ t.inputs.snapshot = row.snapshot /\ t.inputs.assumptions = row.assumptions
      /\ \A s \in WorkStages : Done(t, s) => t.results[s] = ResultOf(s, t.inputs)
  BY <1>1 DEF Consistent, ResultsFit, PipelinePcs
<1>9. CASE last
  <2>1. \A s \in WorkStages : Done(t, s) /\ Done(ready, s)
    BY <1>1, <1>6, <1>9 DEF Done, Rank, WorkStages
  <2>2. \A s \in WorkStages : written.results[s] = t.results[s]
    <3>1. ASSUME NEW s \in WorkStages
          PROVE  t.results[s] # None
      <4>1. ResultOf(s, t.inputs) \in Inputs
        BY <1>2 DEF ResultOf, Inputs
      <4> QED
        BY <1>8, <2>1, <4>1, NoneIsNoRecord
    <3> QED
      BY <1>5, <3>1
  <2>3. t.metadata.status = "completed"
    BY <1>1, <1>9 DEF Consistent, ResultsFit
  <2>4. Consistent(ready, written)
    BY <1>4, <1>5, <1>6, <1>8, <1>9, <2>1, <2>2, <2>3
       DEF Consistent, StatusFits, ResultsFit, FailureFits, PipelinePcs, EndPcs
  <2> QED
    BY <1>1, <1>3, <1>4, <1>5, <1>7, <1>9, <2>4, RaisedMatches, TaskStepMatches DEF t, row
<1>10. CASE ~last
  <2>1. \A s \in WorkStages : Done(onwards, s) => Done(t, s)
    BY <1>1, <1>2, <1>6, <1>10 DEF Done, Rank, NextStage, WorkStages
  <2>2. Consistent(onwards, written)
    BY <1>5, <1>6, <1>8, <2>1 DEF Consistent, StatusFits, ResultsFit, FailureFits, PipelinePcs, EndPcs
  <2> QED
    BY <1>1, <1>3, <1>4, <1>5, <1>7, <1>10, <2>2, RaisedMatches, TaskStepMatches DEF t, row
<1> QED
  BY <1>9, <1>10

\* Complete: what is completed is a whole report, acknowledged or not.
LEMMA CompleteMatches ==
  ASSUME IInv, NEW a \in Analyses, NEW o, Complete(a, o)
  PROVE  TasksMatchRows'
<1> DEFINE t        == tasks[a]
           row      == analyses[a]
           legal    == TransitionAllowed(row.status, "completed")
           written  == [row EXCEPT !.status = "completed", !.stage = "persistence"]
           finished == [t EXCEPT !.pc = "finished"]
           next     == IF legal /\ o = "ok" THEN finished ELSE Raised(t)
<1>1. t \in Task /\ row \in Row /\ Consistent(t, row) /\ t.pc = "complete" /\ t.inputs \in Inputs
  BY DEF IInv, TypeOK, TasksMatchRows, Complete, Task
<1>2. row.status = "running" /\ row.failure_stage = None
  BY <1>1, RunningRow DEF PipelinePcs
<1>3. /\ written \in Row /\ written.status = "completed" /\ written.stage = "persistence"
      /\ written.failure_stage = None /\ written.metadata = row.metadata /\ written.results = row.results
      /\ written.snapshot = row.snapshot /\ written.assumptions = row.assumptions
  BY <1>1, <1>2 DEF Row, Statuses, Stages
<1>4. finished.pc = "finished"
  BY <1>1 DEF Task
<1>5. Commit(a, legal, written, o) /\ TaskOf(a, next) /\ UnchangedByTask
  BY DEF Complete
<1> HIDE DEF finished, written, row, t
<1>6. Whole(written)
  <2>1. /\ t.stage = "investment_committee" /\ row.metadata.status = "completed"
        /\ \A s \in WorkStages : row.results[s] = t.results[s]
        /\ \A s \in WorkStages : Done(t, s) => t.results[s] = ResultOf(s, t.inputs)
        /\ t.inputs.snapshot = row.snapshot /\ t.inputs.assumptions = row.assumptions
    BY <1>1 DEF Consistent, ResultsFit, PipelinePcs
  <2>2. \A s \in WorkStages : Done(t, s)
    BY <1>1, <2>1 DEF Done, Rank, WorkStages
  <2>3. /\ t.inputs = [snapshot |-> written.snapshot, assumptions |-> written.assumptions,
                       context |-> t.inputs.context]
        /\ t.inputs.context \in Contexts \cup {None}
    BY <1>1, <1>3, <2>1 DEF Inputs
  <2>4. \A s \in WorkStages : written.results[s] = ResultOf(s, t.inputs)
    BY <1>3, <2>1, <2>2
  <2> QED
    BY <1>3, <2>1, <2>3, <2>4 DEF Whole
<1>7. Consistent(finished, written)
  BY <1>3, <1>4, <1>6 DEF Consistent, StatusFits, ResultsFit, FailureFits, PipelinePcs, EndPcs
<1>8. Consistent(Raised(t), written) /\ Consistent(Raised(t), row)
  BY <1>1, <1>2, <1>3, <1>6, RaisedMatches
<1>9. legal
  BY <1>2 DEF TransitionAllowed
<1> HIDE DEF legal
<1> QED
  BY <1>1, <1>5, <1>7, <1>8, <1>9, TaskStepMatches DEF t, row

\* RecordFailure: a running row gets the failure; a completed one is left alone.
LEMMA RecordFailureMatches ==
  ASSUME IInv, NEW a \in Analyses, NEW o, RecordFailure(a, o)
  PROVE  TasksMatchRows'
<1> DEFINE t       == tasks[a]
           row     == analyses[a]
           marking == [t EXCEPT !.pc = "mark"]
           written == UpdateResults(row, NoResults, t.metadata, t.stage)
           next    == IF Mutable(row) /\ o = "ok" THEN marking ELSE Aborted(t)
<1>1. /\ t \in Task /\ row \in Row /\ Consistent(t, row) /\ t.pc = "record"
      /\ t.metadata \in Metadata /\ t.stage \in Stages
  BY DEF IInv, TypeOK, TasksMatchRows, RecordFailure, Task
<1>2. /\ row.status \in {"running", "completed"} /\ row.failure_stage = None
      /\ row.status = "completed" => Whole(row)
      /\ t.metadata.status = "failed" /\ t.metadata.failure = t.stage
  BY <1>1 DEF Consistent, StatusFits, FailureFits
<1>3. marking.pc = "mark" /\ marking.stage = t.stage
  BY <1>1 DEF Task
<1>4. row.status = "running" =>
        /\ written \in Row /\ written.status = "running" /\ written.failure_stage = None
        /\ FailureFits(NoTask, written) /\ written.metadata = t.metadata
  BY <1>1, <1>2, UpdatedRow, UpdateResultsKeeps, DefaultsType
<1>5. Commit(a, Mutable(row), written, o) /\ TaskOf(a, next) /\ UnchangedByTask
  BY DEF RecordFailure
<1> HIDE DEF marking, written, row, t
<1>6. row.status = "running" => Consistent(marking, written)
  BY <1>2, <1>3, <1>4 DEF Consistent, StatusFits, ResultsFit, FailureFits, PipelinePcs, EndPcs
<1>7. FailureFits(NoTask, row)
  BY <1>2 DEF FailureFits, NoTask
<1>8. Consistent(Aborted(t), row) /\ (row.status = "running" => Consistent(Aborted(t), written))
  BY <1>1, <1>2, <1>4, <1>7, AbortedMatches
<1>9. Mutable(row) <=> row.status = "running"
  BY <1>2 DEF Mutable
<1> QED
  BY <1>1, <1>5, <1>6, <1>8, <1>9, TaskStepMatches DEF t, row

\* MarkFailed: the failure the status reports is the one the metadata has.
LEMMA MarkFailedMatches ==
  ASSUME IInv, NEW a \in Analyses, NEW o, MarkFailed(a, o)
  PROVE  TasksMatchRows'
<1> DEFINE t       == tasks[a]
           row     == analyses[a]
           legal   == TransitionAllowed(row.status, "failed")
           written == [row EXCEPT !.status = "failed", !.stage = t.stage, !.failure_stage = t.stage]
           failed  == [t EXCEPT !.pc = "failed"]
           next    == IF legal /\ o = "ok" THEN failed ELSE Aborted(t)
<1>1. t \in Task /\ row \in Row /\ Consistent(t, row) /\ t.pc = "mark" /\ t.stage \in Stages
  BY DEF IInv, TypeOK, TasksMatchRows, MarkFailed, Task
<1>2. /\ row.status = "running" /\ row.failure_stage = None
      /\ row.metadata.status = "failed" /\ row.metadata.failure = t.stage
  BY <1>1, RunningRow DEF Consistent, FailureFits
<1>3. /\ written \in Row /\ written.status = "failed" /\ written.stage = t.stage
      /\ written.failure_stage = t.stage /\ written.metadata = row.metadata
  BY <1>1 DEF Row, Statuses, Stages
<1>4. failed.pc = "failed" /\ t.stage # None
  BY <1>1, NoneIsNoRecord DEF Task
<1>5. Commit(a, legal, written, o) /\ TaskOf(a, next) /\ UnchangedByTask
  BY DEF MarkFailed
<1> HIDE DEF failed, written, row, t
<1>6. FailureFits(NoTask, written) /\ FailureFits(NoTask, row) /\ FailureFits(failed, written)
  BY <1>2, <1>3, <1>4 DEF FailureFits, NoTask
<1>7. Consistent(failed, written)
  BY <1>3, <1>4, <1>6 DEF Consistent, StatusFits, ResultsFit, PipelinePcs, EndPcs
<1>8. Consistent(Aborted(t), written) /\ Consistent(Aborted(t), row)
  BY <1>1, <1>2, <1>3, <1>6, AbortedMatches
<1>9. legal
  BY <1>2 DEF TransitionAllowed
<1> HIDE DEF legal
<1> QED
  BY <1>1, <1>5, <1>7, <1>8, <1>9, TaskStepMatches DEF t, row

LEMMA TaskStepKeepsMatch ==
  ASSUME IInv, NEW a \in Analyses, TaskStep(a)
  PROVE  TasksMatchRows'
BY MarkRunningMatches, SavePreparationMatches, LoadInputsMatches, EnterStageMatches, FinishStageMatches,
   FailStageMatches, PersistStageMatches, CompleteMatches, RecordFailureMatches, MarkFailedMatches
   DEF TaskStep

-----------------------------------------------------------------------------
(* The other steps.                                                        *)

\* An id nobody uses has no task.
LEMMA FreshHasNoTask ==
  ASSUME IInv, NEW a \in Analyses, ~Persisted(a)
  PROVE  tasks[a].pc = "none"
BY DEF IInv, TypeOK, Task, LivePcs, TasksMatchRows, Consistent, StatusFits, PipelinePcs, Persisted

\* A new request with a fresh id.
LEMMA NewRequestMatches ==
  ASSUME IInv, NEW w \in Workers, NEW a \in Analyses, LoopFree(w), Fresh(a), NEW q \in Request,
         q.step = "allocate", q.id = a, requests' = [requests EXCEPT ![w] = q], UNCHANGED <<analyses, tasks>>
  PROVE  TasksMatchRows'
<1>1. tasks[a].pc = "none" /\ ~Persisted(a)
  BY FreshHasNoTask DEF Fresh
<1>2. \A v \in Workers : requests[v].id # a
  BY DEF Fresh
<1>3. requests'[w] = q /\ \A v \in Workers \ {w} : requests'[v] = requests[v]
  BY DEF IInv, TypeOK
<1>4. RequestsOwnIds'
  BY <1>1, <1>2, <1>3 DEF IInv, TasksMatchRows, RequestsOwnIds, Busy, Persisted
<1>5. (\A b \in Analyses : Consistent(tasks[b], analyses[b]))'
  BY DEF IInv, TasksMatchRows
<1> QED
  BY <1>4, <1>5 DEF TasksMatchRows

LEMMA ClientStepKeepsMatch ==
  ASSUME IInv, ClientStep, TypeOK'
  PROVE  TasksMatchRows'
<1>1. ASSUME NEW p \in Properties, CreateProperty(p) \/ PatchProperty(p)
      PROVE  TasksMatchRows'
  <2>1. UNCHANGED <<analyses, requests, tasks>>
    BY <1>1 DEF CreateProperty, PatchProperty
  <2>2. RequestsOwnIds'
    BY <2>1 DEF IInv, TasksMatchRows, RequestsOwnIds, Busy, Persisted
  <2>3. (\A b \in Analyses : Consistent(tasks[b], analyses[b]))'
    BY <2>1 DEF IInv, TasksMatchRows
  <2> QED
    BY <2>2, <2>3 DEF TasksMatchRows
<1>2. ASSUME NEW w \in Workers, NEW a \in Analyses, NEW q, LoopFree(w), Fresh(a), q.step = "allocate", q.id = a,
             requests' = [requests EXCEPT ![w] = q], UNCHANGED <<analyses, tasks>>
      PROVE  TasksMatchRows'
  <2>1. q \in Request
    <3>1. requests'[w] \in Request
      BY DEF TypeOK
    <3> QED
      BY <1>2, <3>1 DEF IInv, TypeOK
  <2> QED
    BY <1>2, <2>1, NewRequestMatches
<1>3. ASSUME NEW w \in Workers, NEW a \in Analyses, NEW p \in Properties, NEW assumptions \in Assumptions,
             NEW context \in Contexts \cup {None}, CreateAnalysis(w, a, p, assumptions, context)
      PROVE  TasksMatchRows'
  <2> DEFINE q == [step |-> "allocate", id |-> a, property |-> p, parent |-> None,
                   snapshot |-> properties[p].verified, assumptions |-> assumptions,
                   context |-> context, version |-> 0]
  <2>1. q.step = "allocate" /\ q.id = a
    OBVIOUS
  <2>2. /\ LoopFree(w) /\ Fresh(a) /\ requests' = [requests EXCEPT ![w] = q]
        /\ UNCHANGED <<analyses, tasks>>
    BY <1>3 DEF CreateAnalysis
  <2> HIDE DEF q
  <2> QED
    BY <1>2, <2>1, <2>2
<1>4. ASSUME NEW w \in Workers, NEW a \in Analyses, NEW source \in Analyses,
             NEW override \in Assumptions \cup {None}, RerunAnalysis(w, a, source, override)
      PROVE  TasksMatchRows'
  <2> DEFINE q == [step |-> "allocate", id |-> a, property |-> analyses[source].property, parent |-> source,
                   snapshot |-> RerunSnapshot(source),
                   assumptions |-> Overridden(analyses[source].assumptions, override),
                   context |-> analyses[source].metadata.context, version |-> 0]
  <2>1. q.step = "allocate" /\ q.id = a
    OBVIOUS
  <2>2. /\ LoopFree(w) /\ Fresh(a) /\ requests' = [requests EXCEPT ![w] = q]
        /\ UNCHANGED <<analyses, tasks>>
    BY <1>4 DEF RerunAnalysis
  <2> HIDE DEF q
  <2> QED
    BY <1>2, <2>1, <2>2
<1> QED
  BY <1>1, <1>3, <1>4 DEF ClientStep

LEMMA RequestStepKeepsMatch ==
  ASSUME IInv, NEW w \in Workers, RequestStep(w)
  PROVE  TasksMatchRows'
<1> DEFINE q   == requests[w]
           row == analyses[q.id]
<1>1. Busy(w) /\ q \in Request
  BY DEF IInv, TypeOK, RequestStep, AllocateVersion, InsertAnalysis, SaveInputs, Busy
<1>2. /\ q.id \in Analyses /\ tasks[q.id].pc = "none"
      /\ \A v \in Workers \ {w} : requests[v].id # q.id
  BY <1>1 DEF IInv, Attached, TasksMatchRows, RequestsOwnIds
<1>3. \A v \in Workers \ {w} : Busy(v) => requests[v].id \in Analyses
  BY DEF IInv, Attached
<1>4. row \in Row /\ tasks[q.id] \in Task /\ Consistent(tasks[q.id], row)
  BY <1>2 DEF IInv, TypeOK, TasksMatchRows
<1>5. CASE AllocateVersion(w)
  <2>1. PICK v \in NextVersion(q.property) : requests' = [requests EXCEPT ![w].step = "insert", ![w].version = v]
    BY <1>5 DEF AllocateVersion
  <2>2. /\ requests'[w].id = q.id /\ requests'[w].step = "insert"
        /\ \A u \in Workers \ {w} : requests'[u] = requests[u]
    BY <1>1, <2>1 DEF IInv, TypeOK, Request
  <2>3. UNCHANGED <<analyses, tasks>> /\ ~Persisted(q.id)
    BY <1>5, <1>1 DEF AllocateVersion, IInv, TasksMatchRows, RequestsOwnIds
  <2>4. RequestsOwnIds'
    BY <1>1, <1>2, <2>2, <2>3 DEF IInv, TasksMatchRows, RequestsOwnIds, Busy, Persisted
  <2>5. (\A b \in Analyses : Consistent(tasks[b], analyses[b]))'
    BY <2>3 DEF IInv, TasksMatchRows
  <2> QED
    BY <2>4, <2>5 DEF TasksMatchRows
<1>6. ASSUME NEW o, InsertAnalysis(w, o)
      PROVE  TasksMatchRows'
  <2> DEFINE written == NewRow(q)
             next == IF UniqueVersion(q) /\ o = "ok" THEN [q EXCEPT !.step = "inputs"] ELSE IdleRequest
  <2>1. /\ Commit(q.id, UniqueVersion(q), written, o) /\ requests' = [requests EXCEPT ![w] = next]
        /\ UNCHANGED tasks /\ q.step = "insert"
    BY <1>6 DEF InsertAnalysis
  <2>2. ~Persisted(q.id)
    BY <1>1, <2>1 DEF IInv, TasksMatchRows, RequestsOwnIds
  <2>3. written.status = "pending" /\ written.failure_stage = None
    BY DEF NewRow, NoRow
  <2>4. Consistent(tasks[q.id], written)
    BY <1>2, <2>3 DEF Consistent, StatusFits, ResultsFit, FailureFits, PipelinePcs, EndPcs
  <2>5. /\ next.step = "idle" => next.id = None
        /\ next.step # "idle" => next.step = "inputs" /\ next.id = q.id /\ UniqueVersion(q) /\ o = "ok"
    BY <1>1 DEF Request, IdleRequest
  <2> HIDE DEF written, next, q
  <2>6. requests'[w] = next /\ \A u \in Workers \ {w} : requests'[u] = requests[u]
    BY <2>1 DEF IInv, TypeOK
  <2>7. /\ \A b \in Analyses \ {q.id} : analyses'[b] = analyses[b]
        /\ UniqueVersion(q) /\ o = "ok" => analyses'[q.id] = written
        /\ analyses'[q.id] \in {written, analyses[q.id]}
    BY <1>2, <2>1 DEF Commit, IInv, TypeOK
  <2>8. RequestsOwnIds'
    BY <1>2, <1>3, <2>1, <2>3, <2>5, <2>6, <2>7, NoneIsNoValue
       DEF IInv, TasksMatchRows, RequestsOwnIds, Busy, Persisted
  <2>9. \A b \in Analyses : Consistent(tasks'[b], analyses'[b])
    BY <2>1, <2>4, <2>7 DEF IInv, TasksMatchRows
  <2>10. (\A b \in Analyses : Consistent(tasks[b], analyses[b]))'
    BY <2>9
  <2> QED
    BY <2>8, <2>10 DEF TasksMatchRows
<1>7. ASSUME NEW o, SaveInputs(w, o)
      PROVE  TasksMatchRows'
  <2> DEFINE written == UpdateResults(row, NoResults, InputsMetadata(q.context), row.stage)
             saved   == Mutable(row) /\ o = "ok"
  <2>1. /\ Commit(q.id, Mutable(row), written, o) /\ requests' = [requests EXCEPT ![w] = IdleRequest]
        /\ tasks' = IF saved THEN [tasks EXCEPT ![q.id] = ScheduledTask(w)] ELSE tasks
        /\ q.step = "inputs"
    BY <1>7 DEF SaveInputs
  <2>2. row.status = "pending" /\ row.failure_stage = None
    BY <1>1, <1>4, <2>1 DEF IInv, TasksMatchRows, RequestsOwnIds, Consistent, FailureFits
  <2>3. written \in Row /\ written.status = "pending" /\ written.failure_stage = None
    <3>1. InputsMetadata(q.context) \in Metadata /\ row.stage \in Stages
      BY <1>1, <1>4, DefaultsType DEF Request, Row
    <3> QED
      BY <1>4, <2>2, <3>1, UpdatedRow, DefaultsType
  <2>4. ScheduledTask(w).pc = "scheduled" /\ IdleRequest.id = None /\ IdleRequest.step = "idle"
    BY DEF ScheduledTask, NoTask, IdleRequest
  <2> HIDE DEF written, saved, row, q
  <2>5. /\ \A b \in Analyses \ {q.id} : analyses'[b] = analyses[b] /\ tasks'[b] = tasks[b]
        /\ analyses'[q.id] \in {written, row}
        /\ tasks'[q.id] \in {tasks[q.id], ScheduledTask(w)}
    BY <1>2, <2>1 DEF Commit, IInv, TypeOK, row
  <2>6. \A t \in {tasks[q.id], ScheduledTask(w)}, r \in {written, row} : Consistent(t, r)
    BY <1>2, <2>2, <2>3, <2>4 DEF Consistent, StatusFits, ResultsFit, FailureFits, PipelinePcs, EndPcs
  <2>7. requests'[w] = IdleRequest /\ \A u \in Workers \ {w} : requests'[u] = requests[u]
    BY <2>1 DEF IInv, TypeOK
  <2>8. RequestsOwnIds'
    BY <1>2, <1>3, <2>4, <2>5, <2>7, NoneIsNoValue DEF IInv, TasksMatchRows, RequestsOwnIds, Busy, Persisted
  <2>9. \A b \in Analyses : Consistent(tasks'[b], analyses'[b])
    BY <2>5, <2>6 DEF IInv, TasksMatchRows
  <2>10. (\A b \in Analyses : Consistent(tasks[b], analyses[b]))'
    BY <2>9
  <2> QED
    BY <2>8, <2>10 DEF TasksMatchRows
<1> QED
  BY <1>5, <1>6, <1>7 DEF RequestStep

\* A crash loses tasks and the request of its process, and touches no row.
LEMMA CrashKeepsMatch ==
  ASSUME IInv, NEW w \in Workers, Crash(w)
  PROVE  TasksMatchRows'
<1>1. /\ UNCHANGED analyses
      /\ requests'[w] = IdleRequest /\ \A v \in Workers \ {w} : requests'[v] = requests[v]
      /\ IdleRequest.id = None /\ IdleRequest.step = "idle"
  BY DEF Crash, IInv, TypeOK, IdleRequest
<1>2. \A a \in Analyses :
        \/ tasks'[a] = tasks[a]
        \/ tasks[a].pc \in LivePcs /\ tasks'[a].pc = "lost"
  BY DEF Crash, IInv, TypeOK, Task
<1>3. \A v \in Workers : Busy(v) => requests[v].id \in Analyses
  BY DEF IInv, Attached
<1>4. RequestsOwnIds'
  BY <1>1, <1>2, <1>3, NoneIsNoValue DEF IInv, TasksMatchRows, RequestsOwnIds, Busy, Persisted, LivePcs
<1>5. ASSUME NEW a \in Analyses
      PROVE  Consistent(tasks'[a], analyses'[a])
  <2>1. Consistent(tasks[a], analyses[a]) /\ analyses'[a] = analyses[a]
    BY <1>1 DEF IInv, TasksMatchRows
  <2>2. CASE tasks[a].pc \in LivePcs /\ tasks'[a].pc = "lost"
    <3> DEFINE next == tasks'[a]
    <3>1. analyses[a].status # "absent"
      BY <2>1, <2>2 DEF Consistent, StatusFits, PipelinePcs, LivePcs
    <3>2. next.pc = "lost"
      BY <2>2
    <3> HIDE DEF next
    <3>3. Consistent(next, analyses[a])
      BY <2>1, <3>1, <3>2 DEF Consistent, StatusFits, ResultsFit, FailureFits, PipelinePcs, EndPcs
    <3> QED
      BY <2>1, <3>3 DEF next
  <2> QED
    BY <1>2, <2>1, <2>2
<1>6. (\A a \in Analyses : Consistent(tasks[a], analyses[a]))'
  BY <1>5
<1> QED
  BY <1>4, <1>6 DEF TasksMatchRows

LEMMA InvariantHolds ==
  /\ Init => IInv
  /\ IInv /\ [Next]_vars => IInv'
<1>1. ASSUME Init PROVE IInv
  <2>1. TypeOK /\ Attached
    BY <1>1, DefaultsType DEF Init, TypeOK, Attached, Busy, Persisted, NoRow, IdleRequest, NoTask, PlacedTask
  <2>2. RequestsOwnIds
    BY <1>1 DEF Init, RequestsOwnIds, Busy, IdleRequest
  <2>3. NoTask.pc = "none" /\ NoRow.status = "absent" /\ NoRow.failure_stage = None
    BY DEF NoTask, NoRow
  <2>4. Consistent(NoTask, NoRow)
    BY <2>3 DEF Consistent, StatusFits, ResultsFit, FailureFits, PipelinePcs, EndPcs
  <2> QED
    BY <1>1, <2>1, <2>2, <2>4 DEF Init, IInv, TasksMatchRows
<1>2. ASSUME IInv, [Next]_vars PROVE IInv'
  <2>1. TypeOK' /\ Attached'
    BY <1>2, StepKeepsTypes DEF IInv
  <2>2. CASE Next
    BY <1>2, <2>1, <2>2, ClientStepKeepsMatch, RequestStepKeepsMatch, TaskStepKeepsMatch, CrashKeepsMatch
       DEF Next, IInv
  <2>3. CASE UNCHANGED vars
    <3>1. RequestsOwnIds'
      BY <1>2, <2>3 DEF vars, IInv, TasksMatchRows, RequestsOwnIds, Busy, Persisted
    <3>2. (\A b \in Analyses : Consistent(tasks[b], analyses[b]))'
      BY <1>2, <2>3 DEF vars, IInv, TasksMatchRows
    <3> QED
      BY <2>1, <3>1, <3>2 DEF IInv, TasksMatchRows
  <2> QED
    BY <1>2, <2>2, <2>3
<1> QED
  BY <1>1, <1>2

-----------------------------------------------------------------------------
(* What follows for every execution.                                       *)

\* A task, its request and its row agree in every state of every execution.
THEOREM RowsMatch == Spec => []TasksMatchRows
BY InvariantHolds, PTL DEF Spec, IInv

\* Nobody ever sees a completed analysis with a result missing or computed from other
\* snapshots than its own.
THEOREM CompletedReportsAreWhole == Spec => []CompletedReportIsWhole
<1>1. IInv => CompletedReportIsWhole
  <2> SUFFICES ASSUME IInv, NEW a \in Analyses, analyses[a].status = "completed"
               PROVE  /\ \A s \in WorkStages :
                           /\ analyses[a].results[s] # None
                           /\ analyses[a].results[s].snapshot = analyses[a].snapshot
                           /\ s # "research" => analyses[a].results[s].assumptions = analyses[a].assumptions
                      /\ analyses[a].stage = "persistence"
                      /\ analyses[a].metadata.status = "completed"
                      /\ analyses[a].failure_stage = None
    BY DEF CompletedReportIsWhole
  <2> DEFINE row == analyses[a]
  <2>1. row \in Row /\ Whole(row) /\ row.failure_stage = None
    BY DEF IInv, TypeOK, TasksMatchRows, Consistent, FailureFits
  <2>2. PICK context \in Contexts \cup {None} :
          \A s \in WorkStages : row.results[s]
            = ResultOf(s, [snapshot |-> row.snapshot, assumptions |-> row.assumptions, context |-> context])
    BY <2>1 DEF Whole
  <2> DEFINE inputs == [snapshot |-> row.snapshot, assumptions |-> row.assumptions, context |-> context]
  <2>3. inputs \in Inputs /\ inputs.snapshot = row.snapshot /\ inputs.assumptions = row.assumptions
    BY <2>1 DEF Inputs, Row
  <2>4. \A s \in WorkStages : row.results[s] = ResultOf(s, inputs)
    BY <2>2
  <2> HIDE DEF inputs
  <2>5. \A s \in WorkStages :
          /\ row.results[s] # None
          /\ row.results[s].snapshot = row.snapshot
          /\ s # "research" => row.results[s].assumptions = row.assumptions
    BY <2>3, <2>4, ResultOfKeeps, NoneIsNoRecord
  <2> QED
    BY <2>1, <2>5 DEF Whole
<1> QED
  BY <1>1, InvariantHolds, PTL DEF Spec

\* The failure columns and the metadata of a failed analysis always say the same.
THEOREM FailuresAreExplained == Spec => []FailureIsExplained
<1>1. IInv => FailureIsExplained
  BY DEF IInv, TasksMatchRows, Consistent, FailureFits, FailureIsExplained
<1> QED
  BY <1>1, InvariantHolds, PTL DEF Spec
===============================================================================

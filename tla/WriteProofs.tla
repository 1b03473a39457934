------------------------------ MODULE WriteProofs ------------------------------
(***************************************************************************)
(* Proofs about who writes the table `analyses`: every step inserts one    *)
(* new row, or rewrites one row that is not completed without touching its *)
(* inputs, or writes nothing. Immutability, versions, lineage and the      *)
(* abstract API follow.                                                    *)
(***************************************************************************)
EXTENDS AnalysisProofs

\* The row q describes is inserted.
Inserted(q) ==
  /\ ~Persisted(q.id)
  /\ UniqueVersion(q)
  /\ analyses' = [analyses EXCEPT ![q.id] = NewRow(q)]

\* Row a, not completed, becomes `row`.
Rewritten(a, row) ==
  /\ Persisted(a) /\ Mutable(analyses[a])
  /\ SameInputs(analyses[a], row)
  /\ row.status # "absent" /\ TransitionAllowed(analyses[a].status, row.status)
  /\ analyses' = [analyses EXCEPT ![a] = row]

-----------------------------------------------------------------------------
(* The writes of each step.                                                *)

\* One repository write either takes effect or leaves the table alone.
LEMMA CommitWrites ==
  ASSUME NEW a \in Analyses, NEW legal, NEW row, NEW o, Commit(a, legal, row, o)
  PROVE  UNCHANGED analyses \/ (legal /\ analyses' = [analyses EXCEPT ![a] = row])
BY DEF Commit

\* update_results of a mutable row rewrites it.
LEMMA UpdateWrites ==
  ASSUME IInv, NEW a \in Analyses, Persisted(a), NEW results \in Results, NEW metadata \in Metadata,
         NEW stage \in Stages, NEW o,
         Commit(a, Mutable(analyses[a]), UpdateResults(analyses[a], results, metadata, stage), o)
  PROVE  UNCHANGED analyses \/ \E row : Rewritten(a, row)
<1> DEFINE written == UpdateResults(analyses[a], results, metadata, stage)
<1>1. analyses[a] \in Row
  BY DEF IInv, TypeOK
<1>2. SameInputs(analyses[a], written) /\ written.status = analyses[a].status
  BY <1>1, UpdateResultsKeeps DEF SameInputs
<1>3. UNCHANGED analyses \/ (Mutable(analyses[a]) /\ analyses' = [analyses EXCEPT ![a] = written])
  BY CommitWrites
<1> HIDE DEF written
<1>4. analyses' = [analyses EXCEPT ![a] = written] /\ Mutable(analyses[a]) => Rewritten(a, written)
  BY <1>2 DEF Rewritten, TransitionAllowed, Persisted
<1> QED
  BY <1>3, <1>4

\* update_status of a row that is not completed rewrites it.
LEMMA StatusWrites ==
  ASSUME IInv, NEW a \in Analyses, Persisted(a), Mutable(analyses[a]), NEW row \in Row, NEW o,
         SameInputs(analyses[a], row), row.status \in Statuses,
         Commit(a, TransitionAllowed(analyses[a].status, row.status), row, o)
  PROVE  UNCHANGED analyses \/ \E next : Rewritten(a, next)
BY CommitWrites DEF Rewritten, Statuses

LEMMA TaskStepWrites ==
  ASSUME IInv, NEW a \in Analyses, TaskStep(a)
  PROVE  UNCHANGED analyses \/ \E row : Rewritten(a, row)
<1> DEFINE t   == tasks[a]
           row == analyses[a]
<1>1. /\ t \in Task /\ row \in Row /\ Consistent(t, row) /\ t.stage \in Stages
      /\ t.metadata \in Metadata /\ t.results \in Results
  BY DEF IInv, TypeOK, TasksMatchRows, Task
<1>2. t.pc \in PipelinePcs \cup {"prepare", "load", "mark"} => row.status = "running"
  BY <1>1 DEF Consistent, StatusFits
<1>3. ASSUME NEW metadata \in Metadata, NEW stage \in Stages
      PROVE  InStage(metadata, stage) \in Metadata
  BY DEF InStage, Metadata
<1>4. ASSUME NEW o, MarkRunning(a, o)
      PROVE  UNCHANGED analyses \/ \E next : Rewritten(a, next)
  <2> DEFINE written == [row EXCEPT !.status = "running", !.stage = "preparation"]
  <2>1. row.status = "pending"
    BY <1>1, <1>4 DEF MarkRunning, Consistent, StatusFits
  <2>2. written \in Row /\ SameInputs(row, written) /\ written.status = "running"
    BY <1>1 DEF Row, Statuses, Stages, SameInputs
  <2>3. Commit(a, TransitionAllowed(row.status, written.status), written, o)
    BY <1>4, <2>2 DEF MarkRunning
  <2> HIDE DEF written
  <2> QED
    BY <2>1, <2>2, <2>3, StatusWrites DEF Persisted, Mutable, Statuses
<1>5. ASSUME NEW o, SavePreparation(a, o)
      PROVE  UNCHANGED analyses \/ \E next : Rewritten(a, next)
  <2>1. Persisted(a) /\ Commit(a, Mutable(row), UpdateResults(row, NoResults, t.metadata, "preparation"), o)
    BY <1>2, <1>5 DEF SavePreparation, Persisted
  <2> QED
    BY <1>1, <2>1, UpdateWrites, DefaultsType DEF Stages
<1>6. ASSUME NEW o, LoadInputs(a, o)
      PROVE  UNCHANGED analyses
  BY <1>6 DEF LoadInputs
<1>7. ASSUME NEW o, EnterStage(a, o)
      PROVE  UNCHANGED analyses \/ \E next : Rewritten(a, next)
  <2> DEFINE entered == [t EXCEPT !.metadata = InStage(@, t.stage)]
  <2>1. entered.metadata \in Metadata
    BY <1>1, <1>3 DEF Task
  <2>2. Persisted(a) /\ Commit(a, Mutable(row), UpdateResults(row, NoResults, entered.metadata, t.stage), o)
    BY <1>2, <1>7 DEF EnterStage, Persisted, PipelinePcs
  <2> HIDE DEF entered
  <2> QED
    BY <1>1, <2>1, <2>2, UpdateWrites, DefaultsType
<1>8. FinishStage(a) \/ FailStage(a) => UNCHANGED analyses
  BY DEF FinishStage, FailStage
<1>9. ASSUME NEW o, PersistStage(a, o)
      PROVE  UNCHANGED analyses \/ \E next : Rewritten(a, next)
  <2> DEFINE stage == IF t.stage = "investment_committee" THEN "persistence" ELSE t.stage
             saved == [t EXCEPT !.metadata = InStage(@, stage)]
  <2>1. stage \in Stages
    BY <1>1 DEF Stages
  <2>2. saved.metadata \in Metadata
    BY <1>1, <1>3, <2>1 DEF Task
  <2>3. Persisted(a) /\ Commit(a, Mutable(row), UpdateResults(row, t.results, saved.metadata, stage), o)
    BY <1>2, <1>9 DEF PersistStage, SavedSoFar, Persisted, PipelinePcs
  <2> HIDE DEF saved, stage
  <2> QED
    BY <1>1, <2>1, <2>2, <2>3, UpdateWrites
<1>10. ASSUME NEW o, Complete(a, o)
       PROVE  UNCHANGED analyses \/ \E next : Rewritten(a, next)
  <2> DEFINE written == [row EXCEPT !.status = "completed", !.stage = "persistence"]
  <2>1. row.status = "running"
    BY <1>2, <1>10 DEF Complete, PipelinePcs
  <2>2. written \in Row /\ SameInputs(row, written) /\ written.status = "completed"
    BY <1>1 DEF Row, Statuses, Stages, SameInputs
  <2>3. Commit(a, TransitionAllowed(row.status, written.status), written, o)
    BY <1>10, <2>2 DEF Complete
  <2> HIDE DEF written
  <2> QED
    BY <2>1, <2>2, <2>3, StatusWrites DEF Persisted, Mutable, Statuses
<1>11. ASSUME NEW o, RecordFailure(a, o)
       PROVE  UNCHANGED analyses \/ \E next : Rewritten(a, next)
  <2>1. Persisted(a)
    BY <1>1, <1>11 DEF RecordFailure, Consistent, StatusFits, Persisted
  <2>2. Commit(a, Mutable(row), UpdateResults(row, NoResults, t.metadata, t.stage), o)
    BY <1>11 DEF RecordFailure
  <2> QED
    BY <1>1, <2>1, <2>2, UpdateWrites, DefaultsType
<1>12. ASSUME NEW o, MarkFailed(a, o)
       PROVE  UNCHANGED analyses \/ \E next : Rewritten(a, next)
  <2> DEFINE written == [row EXCEPT !.status = "failed", !.stage = t.stage, !.failure_stage = t.stage]
  <2>1. row.status = "running"
    BY <1>2, <1>12 DEF MarkFailed
  <2>2. written \in Row /\ SameInputs(row, written) /\ written.status = "failed"
    BY <1>1 DEF Row, Statuses, Stages, SameInputs
  <2>3. Commit(a, TransitionAllowed(row.status, written.status), written, o)
    BY <1>12, <2>2 DEF MarkFailed
  <2> HIDE DEF written
  <2> QED
    BY <2>1, <2>2, <2>3, StatusWrites DEF Persisted, Mutable, Statuses
<1> QED
  BY <1>4, <1>5, <1>6, <1>7, <1>8, <1>9, <1>10, <1>11, <1>12 DEF TaskStep

\* A handler inserts its row, and later rewrites it.
LEMMA RequestStepWrites ==
  ASSUME IInv, NEW w \in Workers, RequestStep(w)
  PROVE  \/ UNCHANGED analyses
         \/ requests[w].step = "insert" /\ Inserted(requests[w])
         \/ \E row : Rewritten(requests[w].id, row)
<1> DEFINE q == requests[w]
<1>1. q \in Request /\ q.id \in Analyses
  BY DEF IInv, TypeOK, Attached, RequestStep, AllocateVersion, InsertAnalysis, SaveInputs, Busy
<1>2. AllocateVersion(w) => UNCHANGED analyses
  BY DEF AllocateVersion
<1>3. ASSUME NEW o, InsertAnalysis(w, o)
      PROVE  UNCHANGED analyses \/ (q.step = "insert" /\ Inserted(q))
  <2>1. q.step = "insert" /\ Commit(q.id, UniqueVersion(q), NewRow(q), o)
    BY <1>3 DEF InsertAnalysis
  <2>2. ~Persisted(q.id)
    BY <2>1 DEF IInv, TasksMatchRows, RequestsOwnIds, Busy
  <2> QED
    BY <1>1, <2>1, <2>2, CommitWrites DEF Inserted
<1>4. ASSUME NEW o, SaveInputs(w, o)
      PROVE  UNCHANGED analyses \/ \E row : Rewritten(q.id, row)
  <2>1. /\ q.step = "inputs"
        /\ Commit(q.id, Mutable(analyses[q.id]),
                  UpdateResults(analyses[q.id], NoResults, InputsMetadata(q.context), analyses[q.id].stage), o)
    BY <1>4 DEF SaveInputs
  <2>2. Persisted(q.id)
    BY <2>1 DEF IInv, TasksMatchRows, RequestsOwnIds, Busy, Persisted
  <2>3. InputsMetadata(q.context) \in Metadata /\ analyses[q.id].stage \in Stages
    BY <1>1, DefaultsType DEF Request, IInv, TypeOK, Row
  <2> HIDE DEF q
  <2> QED
    BY <1>1, <2>1, <2>2, <2>3, UpdateWrites, DefaultsType
<1> QED
  BY <1>2, <1>3, <1>4 DEF RequestStep

\* Every step inserts one row, rewrites one row, or writes none.
LEMMA StepWrites ==
  ASSUME IInv, [Next]_vars
  PROVE  \/ UNCHANGED analyses
         \/ \E w \in Workers : requests[w].step = "insert" /\ requests[w].id \in Analyses /\ Inserted(requests[w])
         \/ \E a \in Analyses : \E row : Rewritten(a, row)
<1>1. ClientStep => UNCHANGED analyses
  BY DEF ClientStep, CreateProperty, PatchProperty, CreateAnalysis, RerunAnalysis
<1>2. ASSUME NEW w \in Workers, RequestStep(w)
      PROVE  /\ requests[w].id \in Analyses
             /\ \/ UNCHANGED analyses
                \/ requests[w].step = "insert" /\ Inserted(requests[w])
                \/ \E row : Rewritten(requests[w].id, row)
  <2>1. requests[w].id \in Analyses
    BY <1>2 DEF IInv, Attached, RequestStep, AllocateVersion, InsertAnalysis, SaveInputs, Busy
  <2> QED
    BY <1>2, <2>1, RequestStepWrites
<1>3. \A w \in Workers : Crash(w) => UNCHANGED analyses
  BY DEF Crash
<1>4. \A a \in Analyses : TaskStep(a) => UNCHANGED analyses \/ \E row : Rewritten(a, row)
  BY TaskStepWrites
<1>5. UNCHANGED vars => UNCHANGED analyses
  BY DEF vars
<1> QED
  BY <1>1, <1>2, <1>3, <1>4, <1>5 DEF Next

-----------------------------------------------------------------------------
(* Immutability.                                                           *)

\* A completed analysis is never written again, whatever raises or crashes.
THEOREM CompletedStaysFrozen == Spec => CompletedIsFrozen
<1>1. IInv /\ [Next]_vars =>
        [\A a \in Analyses : analyses[a].status = "completed" => analyses'[a] = analyses[a]]_vars
  <2> SUFFICES ASSUME IInv, [Next]_vars, NEW a \in Analyses, analyses[a].status = "completed"
               PROVE  analyses'[a] = analyses[a]
    OBVIOUS
  <2>1. analyses \in [Analyses -> Row]
    BY DEF IInv, TypeOK
  <2>2. \A q : q.id \in Analyses /\ Inserted(q) => analyses'[a] = analyses[a]
    BY <2>1 DEF Inserted, Persisted
  <2>3. \A b \in Analyses : \A row : Rewritten(b, row) => analyses'[a] = analyses[a]
    BY <2>1 DEF Rewritten, Mutable
  <2> QED
    BY <2>2, <2>3, StepWrites
<1> QED
  BY <1>1, InvariantHolds, PTL DEF Spec, CompletedIsFrozen

\* Rows are only added, and keep their inputs.
LEMMA StepKeepsInputs == IInv /\ [Next]_vars => InputsKept
<1> SUFFICES ASSUME IInv, [Next]_vars, NEW a \in Analyses, Persisted(a)
             PROVE  Persisted(a)' /\ SameInputs(analyses[a], analyses'[a])
  BY DEF InputsKept
<1>1. analyses \in [Analyses -> Row]
  BY DEF IInv, TypeOK
<1>2. \A q : q.id \in Analyses /\ Inserted(q) => analyses'[a] = analyses[a]
  BY <1>1 DEF Inserted
<1>3. \A b \in Analyses : \A row : Rewritten(b, row) =>
        analyses'[a].status # "absent" /\ SameInputs(analyses[a], analyses'[a])
  BY <1>1 DEF Rewritten, Persisted, SameInputs
<1> QED
  BY <1>2, <1>3, StepWrites DEF Persisted, SameInputs

\* The property, lineage, version, snapshot and assumptions of an analysis never change.
THEOREM InputsStayFrozen == Spec => InputsAreFrozen
<1>1. IInv /\ [Next]_vars => [InputsKept]_vars
  BY StepKeepsInputs
<1> QED
  BY <1>1, InvariantHolds, PTL DEF Spec, InputsAreFrozen

-----------------------------------------------------------------------------
(* Versions and lineage.                                                   *)

\* The insert refuses a version the property has; no other step changes a version.
THEOREM VersionsAreUnique == Spec => []VersionsUnique
<1>1. Init => VersionsUnique
  BY DEF Init, VersionsUnique, Persisted, NoRow
<1>2. IInv /\ VersionsUnique /\ [Next]_vars => VersionsUnique'
  <2> SUFFICES ASSUME IInv, VersionsUnique, [Next]_vars
               PROVE  VersionsUnique'
    OBVIOUS
  <2>1. analyses \in [Analyses -> Row]
    BY DEF IInv, TypeOK
  <2>2. ASSUME UNCHANGED analyses
        PROVE  VersionsUnique'
    BY <2>2 DEF VersionsUnique, Persisted
  <2>3. ASSUME NEW w \in Workers, requests[w].id \in Analyses, Inserted(requests[w])
        PROVE  VersionsUnique'
    <3> DEFINE q == requests[w]
    <3>1. analyses'[q.id].property = q.property /\ analyses'[q.id].version = q.version
      BY <2>1, <2>3 DEF Inserted, NewRow, NoRow
    <3>2. \A b \in Analyses \ {q.id} : analyses'[b] = analyses[b]
      BY <2>1, <2>3 DEF Inserted
    <3>3. \A b \in Analyses : Persisted(b) =>
            analyses[b].property # q.property \/ analyses[b].version # q.version
      BY <2>3 DEF Inserted, UniqueVersion
    <3> HIDE DEF q
    <3> QED
      BY <3>1, <3>2, <3>3 DEF VersionsUnique, Persisted
  <2>4. ASSUME NEW a \in Analyses, NEW row, Rewritten(a, row)
        PROVE  VersionsUnique'
    <3>1. \A b \in Analyses :
            Persisted(b)' => Persisted(b) /\ SameInputs(analyses[b], analyses'[b])
      BY <2>1, <2>4 DEF Rewritten, SameInputs, Persisted
    <3> QED
      BY <3>1 DEF VersionsUnique, SameInputs
  <2> QED
    BY <2>2, <2>3, <2>4, StepWrites
<1> QED
  BY <1>1, <1>2, InvariantHolds, PTL DEF Spec

\* A step starts, numbers, advances or ends the request of a process, or leaves it alone.
LEMMA RequestMoves ==
  ASSUME IInv, [Next]_vars, NEW w \in Workers
  PROVE  \/ requests'[w] = requests[w]
         \/ requests'[w].step = "idle"
         \/ requests'[w].step = "inputs" /\ requests'[w].parent = requests[w].parent
              /\ requests'[w].property = requests[w].property /\ Busy(w)
         \/ requests'[w].step = "allocate" /\ requests'[w].parent = None
         \/ requests'[w].step = "allocate" /\ requests'[w].parent \in OfProperty(requests'[w].property)
         \/ AllocateVersion(w)
<1>1. requests \in [Workers -> Request]
  BY DEF IInv, TypeOK
<1>2. CASE ClientStep
  <2>1. ASSUME NEW p \in Properties, CreateProperty(p) \/ PatchProperty(p)
        PROVE  requests' = requests
    BY <2>1 DEF CreateProperty, PatchProperty
  <2>2. ASSUME NEW v \in Workers, NEW a \in Analyses, NEW p \in Properties, NEW assumptions, NEW context,
               CreateAnalysis(v, a, p, assumptions, context)
        PROVE  requests'[w] = requests[w] \/ (requests'[w].step = "allocate" /\ requests'[w].parent = None)
    BY <1>1, <2>2 DEF CreateAnalysis
  <2>3. ASSUME NEW v \in Workers, NEW a \in Analyses, NEW source \in Analyses, NEW override,
               RerunAnalysis(v, a, source, override)
        PROVE  \/ requests'[w] = requests[w]
               \/ requests'[w].step = "allocate" /\ requests'[w].parent \in OfProperty(requests'[w].property)
    BY <1>1, <2>3 DEF RerunAnalysis, OfProperty
  <2> QED
    BY <1>2, <2>1, <2>2, <2>3 DEF ClientStep
<1>3. ASSUME NEW v \in Workers, RequestStep(v), ~AllocateVersion(v)
      PROVE  \/ requests'[w] = requests[w] \/ requests'[w].step = "idle"
             \/ requests'[w].step = "inputs" /\ requests'[w].parent = requests[w].parent
                  /\ requests'[w].property = requests[w].property /\ Busy(w)
  <2> DEFINE q == requests[v]
  <2>1. IdleRequest.step = "idle"
    BY DEF IdleRequest
  <2>2. ASSUME NEW o, InsertAnalysis(v, o)
        PROVE  \/ requests' = [requests EXCEPT ![v] = IdleRequest]
               \/ Busy(v) /\ requests' = [requests EXCEPT ![v] = [q EXCEPT !.step = "inputs"]]
    BY <2>2 DEF InsertAnalysis, Busy
  <2>3. ASSUME NEW o, SaveInputs(v, o)
        PROVE  requests' = [requests EXCEPT ![v] = IdleRequest]
    BY <2>3 DEF SaveInputs
  <2>4. /\ [q EXCEPT !.step = "inputs"].step = "inputs"
        /\ [q EXCEPT !.step = "inputs"].parent = q.parent
        /\ [q EXCEPT !.step = "inputs"].property = q.property
    BY <1>1 DEF Request
  <2>5. \/ requests' = [requests EXCEPT ![v] = IdleRequest]
        \/ Busy(v) /\ requests' = [requests EXCEPT ![v] = [q EXCEPT !.step = "inputs"]]
    BY <1>3, <2>2, <2>3 DEF RequestStep
  <2>6. CASE w = v
    BY <1>1, <2>1, <2>4, <2>5, <2>6
  <2>7. CASE w # v
    BY <1>1, <2>5, <2>7
  <2> QED
    BY <2>6, <2>7
<1>4. ASSUME NEW v \in Workers, AllocateVersion(v)
      PROVE  AllocateVersion(w) \/ requests'[w] = requests[w]
  <2>1. w # v => requests'[w] = requests[w]
    BY <1>1, <1>4 DEF AllocateVersion
  <2> QED
    BY <1>4, <2>1
<1>5. ASSUME NEW v \in Workers, Crash(v)
      PROVE  requests'[w] = requests[w] \/ requests'[w].step = "idle"
  BY <1>1, <1>5 DEF Crash, IdleRequest
<1>6. ASSUME NEW a \in Analyses, TaskStep(a)
      PROVE  requests' = requests
  BY <1>6 DEF TaskStep, MarkRunning, SavePreparation, LoadInputs, EnterStage, FinishStage, FailStage,
              PersistStage, Complete, RecordFailure, MarkFailed, UnchangedByTask
<1>7. UNCHANGED vars => requests' = requests
  BY DEF vars
<1> QED
  BY <1>2, <1>3, <1>4, <1>5, <1>6, <1>7 DEF Next

\* What get_next_version returns: every version below it is taken, every version taken is below it.
LEMMA NextVersionBounds ==
  ASSUME TypeOK, NEW p, NEW v \in NextVersion(p), VersionsDense
  PROVE  /\ v \in Nat /\ v >= 1
         /\ \A a \in OfProperty(p) : analyses[a].version < v
         /\ \A u \in 1 .. v - 1 : \E b \in OfProperty(p) : analyses[b].version = u
<1>1. \A a \in Analyses : analyses[a].version \in Nat
  BY DEF TypeOK, Row
<1>2. \A a \in OfProperty(p) : a \in Analyses /\ Persisted(a) /\ analyses[a].property = p
  BY DEF OfProperty
<1>3. v = 1 \/ \E a \in OfProperty(p) : v = analyses[a].version + 1
  BY DEF NextVersion
<1>4. \A a \in OfProperty(p) : analyses[a].version < v
  BY DEF NextVersion
<1>5. ASSUME NEW a \in OfProperty(p), v = analyses[a].version + 1, NEW u \in 1 .. v - 1
      PROVE  \E b \in OfProperty(p) : analyses[b].version = u
  <2>1. CASE u = analyses[a].version
    BY <2>1
  <2>2. CASE u # analyses[a].version
    <3>1. u \in 1 .. analyses[a].version - 1
      BY <1>1, <1>2, <1>5, <2>2
    <3> QED
      BY <1>2, <3>1 DEF VersionsDense
  <2> QED
    BY <2>1, <2>2
<1> QED
  BY <1>1, <1>2, <1>3, <1>4, <1>5

\* The versions of a property and the requests about to extend them.
VersionInv == RequestsAreNumbered /\ VersionsDense /\ RerunLineage

\* The rows of a property after the step.
After(p) == {a \in Analyses : analyses'[a].status # "absent" /\ analyses'[a].property = p}

\* No row of a property goes away, and none changes its version.
LEMMA OfPropertyGrows ==
  ASSUME IInv, InputsKept, NEW p, NEW b \in OfProperty(p)
  PROVE  b \in After(p) /\ analyses'[b].version = analyses[b].version
BY DEF InputsKept, SameInputs, OfProperty, After, Persisted

LEMMA StepKeepsVersionInv == IInv /\ VersionInv /\ [Next]_vars => VersionInv'
<1> SUFFICES ASSUME IInv, VersionInv, [Next]_vars
             PROVE  VersionInv'
  OBVIOUS
<1>1. InputsKept
  BY StepKeepsInputs
<1>2. analyses \in [Analyses -> Row] /\ requests \in [Workers -> Request]
  BY DEF IInv, TypeOK
<1>3. RequestsAreNumbered'
  <2> SUFFICES ASSUME NEW w \in Workers
               PROVE  /\ requests'[w].step = "insert" =>
                           /\ requests'[w].version >= 1
                           /\ \A v \in 1 .. requests'[w].version - 1 :
                                \E b \in After(requests'[w].property) : analyses'[b].version = v
                      /\ requests'[w].step # "idle" /\ requests'[w].parent # None =>
                           /\ requests'[w].parent \in After(requests'[w].property)
                           /\ requests'[w].step = "insert" =>
                                analyses'[requests'[w].parent].version < requests'[w].version
    BY DEF RequestsAreNumbered, Busy, OfProperty, Persisted, After
  <2> DEFINE q == requests[w]
  <2>1. /\ q.step = "insert" =>
             /\ q.version >= 1
             /\ \A v \in 1 .. q.version - 1 : \E b \in OfProperty(q.property) : analyses[b].version = v
        /\ Busy(w) /\ q.parent # None =>
             /\ q.parent \in OfProperty(q.property)
             /\ q.step = "insert" => analyses[q.parent].version < q.version
    BY DEF VersionInv, RequestsAreNumbered
  <2>2. \A p : \A b \in OfProperty(p) : b \in After(p) /\ analyses'[b].version = analyses[b].version
    BY <1>1, OfPropertyGrows
  <2>3. CASE requests'[w] = q
    BY <2>1, <2>2, <2>3 DEF Busy
  <2>4. CASE AllocateVersion(w)
    <3>1. PICK v \in NextVersion(q.property) : requests' = [requests EXCEPT ![w].step = "insert", ![w].version = v]
      BY <2>4 DEF AllocateVersion
    <3>2. /\ requests'[w].version = v /\ requests'[w].step = "insert"
          /\ requests'[w].property = q.property /\ requests'[w].parent = q.parent
      BY <1>2, <3>1 DEF Request
    <3>3. Busy(w)
      BY <2>4 DEF AllocateVersion, Busy
    <3>4. /\ v \in Nat /\ v >= 1
          /\ \A a \in OfProperty(q.property) : analyses[a].version < v
          /\ \A u \in 1 .. v - 1 : \E b \in OfProperty(q.property) : analyses[b].version = u
      BY <3>1, NextVersionBounds DEF IInv, VersionInv
    <3> QED
      BY <2>1, <2>2, <3>2, <3>3, <3>4
  <2>5. CASE requests'[w].step = "inputs" /\ requests'[w].parent = q.parent /\ requests'[w].property = q.property /\ Busy(w)
    BY <2>1, <2>2, <2>5
  <2>6. CASE requests'[w].step = "idle"
    BY <2>6
  <2>7. CASE requests'[w].step = "allocate" /\
             (requests'[w].parent = None \/ requests'[w].parent \in OfProperty(requests'[w].property))
    BY <2>2, <2>7
  <2> HIDE DEF q
  <2> QED
    BY <2>3, <2>4, <2>5, <2>6, <2>7, RequestMoves DEF q
<1>4. ASSUME NEW a \in Analyses, ~Persisted(a), Persisted(a)'
      PROVE  \E w \in Workers :
               /\ requests[w].step = "insert" /\ requests[w].id = a
               /\ analyses'[a].property = requests[w].property /\ analyses'[a].version = requests[w].version
               /\ analyses'[a].parent = requests[w].parent
  <2>1. UNCHANGED analyses => FALSE
    BY <1>4 DEF Persisted
  <2>2. \A b \in Analyses : \A row : Rewritten(b, row) => FALSE
    BY <1>2, <1>4 DEF Rewritten, Persisted
  <2>3. PICK w \in Workers : requests[w].step = "insert" /\ requests[w].id \in Analyses /\ Inserted(requests[w])
    BY <2>1, <2>2, StepWrites
  <2>4. requests[w].id = a
    BY <1>2, <1>4, <2>3 DEF Inserted, Persisted
  <2>5. analyses'[a] = NewRow(requests[w])
    BY <1>2, <2>3, <2>4 DEF Inserted
  <2> QED
    BY <2>3, <2>4, <2>5 DEF NewRow, NoRow
<1>5. VersionsDense'
  <2> SUFFICES ASSUME NEW a \in Analyses, Persisted(a)'
               PROVE  /\ analyses'[a].version >= 1
                      /\ \A v \in 1 .. analyses'[a].version - 1 :
                           \E b \in After(analyses'[a].property) : analyses'[b].version = v
    BY DEF VersionsDense, OfProperty, Persisted, After
  <2>1. \A p : \A b \in OfProperty(p) : b \in After(p) /\ analyses'[b].version = analyses[b].version
    BY <1>1, OfPropertyGrows
  <2>2. CASE Persisted(a)
    BY <1>1, <2>1, <2>2 DEF InputsKept, SameInputs, VersionInv, VersionsDense
  <2>3. CASE ~Persisted(a)
    BY <1>4, <2>1, <2>3 DEF VersionInv, RequestsAreNumbered
  <2> QED
    BY <2>2, <2>3
<1>6. RerunLineage'
  <2> SUFFICES ASSUME NEW a \in Analyses, Persisted(a)', analyses'[a].parent # None
               PROVE  /\ analyses'[analyses'[a].parent].status # "absent"
                      /\ analyses'[analyses'[a].parent].property = analyses'[a].property
                      /\ analyses'[analyses'[a].parent].version < analyses'[a].version
    BY DEF RerunLineage, Persisted
  <2>1. \A b \in Analyses : Persisted(b) =>
          /\ analyses'[b].status # "absent" /\ analyses'[b].property = analyses[b].property
          /\ analyses'[b].version = analyses[b].version /\ analyses'[b].parent = analyses[b].parent
    BY <1>1 DEF InputsKept, SameInputs, Persisted
  <2>2. CASE Persisted(a)
    <3>1. analyses[a].parent \in Analyses
      BY <1>2, <2>1, <2>2 DEF Row
    <3>2. /\ Persisted(analyses[a].parent)
          /\ analyses[analyses[a].parent].property = analyses[a].property
          /\ analyses[analyses[a].parent].version < analyses[a].version
      BY <2>1, <2>2 DEF VersionInv, RerunLineage
    <3> QED
      BY <2>1, <2>2, <3>1, <3>2
  <2>3. CASE ~Persisted(a)
    <3>1. PICK w \in Workers :
            /\ requests[w].step = "insert"
            /\ analyses'[a].property = requests[w].property /\ analyses'[a].version = requests[w].version
            /\ analyses'[a].parent = requests[w].parent
      BY <1>4, <2>3
    <3>2. /\ requests[w].parent \in OfProperty(requests[w].property)
          /\ analyses[requests[w].parent].version < requests[w].version
      BY <3>1 DEF VersionInv, RequestsAreNumbered, Busy
    <3>3. requests[w].parent \in Analyses /\ Persisted(requests[w].parent)
          /\ analyses[requests[w].parent].property = requests[w].property
      BY <3>2 DEF OfProperty
    <3> QED
      BY <2>1, <3>1, <3>2, <3>3
  <2> QED
    BY <2>2, <2>3
<1> QED
  BY <1>3, <1>5, <1>6 DEF VersionInv

LEMMA InitVersionInv == Init => VersionInv
BY DEF Init, VersionInv, RequestsAreNumbered, VersionsDense, RerunLineage, Busy, Persisted, NoRow, IdleRequest

\* The versions of every property are 1, 2, 3, ..., with any number of processes.
THEOREM VersionsAreDense == Spec => []VersionsDense
BY InvariantHolds, InitVersionInv, StepKeepsVersionInv, PTL DEF Spec, VersionInv

\* The numbers of a property's analyses are 1, 2, 3, ..., each once, whoever creates them.
THEOREM VersionsNumberAnalyses == Spec => []VersionsAreNumbers
BY VersionsAreUnique, VersionsAreDense, PTL DEF VersionsAreNumbers

\* The lineage of every rerun leads to an earlier analysis of the same property.
THEOREM LineageIsSound == Spec => []RerunLineage
BY InvariantHolds, InitVersionInv, StepKeepsVersionInv, PTL DEF Spec, VersionInv

-----------------------------------------------------------------------------
(* Versions and snapshots, in one process.                                 *)

\* A request keeps the verified snapshot of its property as long as it holds the event
\* loop; no row is ahead of it; the next version is above those of the rows there are.
SnapshotInv ==
  /\ VersionsFollowSnapshots
  /\ \A p \in Properties : ~properties[p].exists => properties[p].verified = 0
  /\ \A a \in Analyses : Persisted(a) => analyses[a].snapshot <= properties[analyses[a].property].verified
  /\ \A w \in Workers : Busy(w) => requests[w].snapshot = properties[requests[w].property].verified
  /\ \A w \in Workers : requests[w].step = "insert" =>
       \A b \in OfProperty(requests[w].property) : analyses[b].version < requests[w].version

\* A step that adds no row and lowers no verified snapshot keeps what rows say.
LEMMA RowsKeepOrder ==
  ASSUME IInv, SnapshotInv, InputsKept, properties' \in [Properties -> [exists : BOOLEAN, verified : Revisions]],
         \A p \in Properties : properties[p].verified <= properties'[p].verified,
         \A a \in Analyses : Persisted(a)' => Persisted(a)
  PROVE  /\ VersionsFollowSnapshots'
         /\ \A a \in Analyses : Persisted(a)' => analyses'[a].snapshot <= properties'[analyses'[a].property].verified
         /\ \A p : \A b \in After(p) : b \in OfProperty(p) /\ analyses'[b].version = analyses[b].version
<1>1. \A a \in Analyses : Persisted(a)' => Persisted(a) /\ SameInputs(analyses[a], analyses'[a])
  BY DEF InputsKept
<1>2. VersionsFollowSnapshots'
  BY <1>1 DEF SnapshotInv, VersionsFollowSnapshots, SameInputs
<1>3. ASSUME NEW a \in Analyses, Persisted(a)'
      PROVE  analyses'[a].snapshot <= properties'[analyses'[a].property].verified
  <2> DEFINE p == analyses[a].property
  <2>1. /\ Persisted(a) /\ analyses'[a].snapshot = analyses[a].snapshot /\ analyses'[a].property = p
    BY <1>1, <1>3 DEF SameInputs
  <2>2. p \in Properties /\ analyses[a].snapshot <= properties[p].verified
    BY <2>1 DEF IInv, Attached, SnapshotInv
  <2>3. analyses[a].snapshot \in Nat /\ properties[p].verified \in Nat /\ properties'[p].verified \in Nat
    BY <2>2, BoundsAreNaturals DEF IInv, TypeOK, Row, Revisions
  <2> HIDE DEF p
  <2> QED
    BY <2>1, <2>2, <2>3
<1>4. \A p : \A b \in After(p) : b \in OfProperty(p) /\ analyses'[b].version = analyses[b].version
  BY <1>1 DEF After, OfProperty, SameInputs, Persisted
<1> QED
  BY <1>2, <1>3, <1>4

LEMMA StepKeepsSnapshotInv ==
  ASSUME \A v, w \in Workers : v = w,
         IInv, IInv', VersionInv, SnapshotInv, [Next]_vars
  PROVE  SnapshotInv'
<1> DEFINE Typed == properties' \in [Properties -> [exists : BOOLEAN, verified : Revisions]]
<1>1. InputsKept /\ Typed
  BY StepKeepsInputs DEF IInv, TypeOK
<1>2. properties \in [Properties -> [exists : BOOLEAN, verified : Revisions]] /\ analyses \in [Analyses -> Row]
      /\ requests \in [Workers -> Request]
  BY DEF IInv, TypeOK
<1>3. ASSUME NEW w \in Workers, LoopFree(w)
      PROVE  \A v \in Workers : ~Busy(v)
  BY <1>3 DEF LoopFree, Busy
<1>4. ASSUME UNCHANGED <<properties, requests>>, \A a \in Analyses : Persisted(a)' => Persisted(a)
      PROVE  SnapshotInv'
  <2>1. \A p \in Properties : properties[p].verified <= properties'[p].verified
    BY <1>2, <1>4, BoundsAreNaturals DEF Revisions
  <2>2. /\ VersionsFollowSnapshots'
        /\ \A a \in Analyses : Persisted(a)' => analyses'[a].snapshot <= properties'[analyses'[a].property].verified
        /\ \A p : \A b \in After(p) : b \in OfProperty(p) /\ analyses'[b].version = analyses[b].version
    BY <1>1, <1>4, <2>1, RowsKeepOrder
  <2>3. \A w \in Workers : requests[w].step = "insert" =>
          \A b \in After(requests[w].property) : analyses'[b].version < requests[w].version
    BY <2>2 DEF SnapshotInv
  <2>4. (\A w \in Workers : requests[w].step = "insert" =>
          \A b \in OfProperty(requests[w].property) : analyses[b].version < requests[w].version)'
    BY <1>4, <2>3 DEF OfProperty, After, Persisted
  <2>5. (\A a \in Analyses : Persisted(a) => analyses[a].snapshot <= properties[analyses[a].property].verified)'
    BY <2>2
  <2> QED
    BY <1>4, <2>2, <2>4, <2>5 DEF SnapshotInv, Busy
<1>5. ASSUME UNCHANGED <<analyses, requests>>, NEW w \in Workers, LoopFree(w),
             \A p \in Properties : properties[p].verified <= properties'[p].verified,
             \A p \in Properties : ~properties'[p].exists => properties'[p].verified = 0
      PROVE  SnapshotInv'
  <2>1. /\ VersionsFollowSnapshots'
        /\ \A a \in Analyses : Persisted(a)' => analyses'[a].snapshot <= properties'[analyses'[a].property].verified
    BY <1>1, <1>5, RowsKeepOrder DEF Persisted
  <2>2. \A v \in Workers : requests'[v].step = "idle"
    BY <1>3, <1>5 DEF Busy
  <2>3. (\A a \in Analyses : Persisted(a) => analyses[a].snapshot <= properties[analyses[a].property].verified)'
    BY <2>1
  <2>4. (\A p \in Properties : ~properties[p].exists => properties[p].verified = 0)'
    BY <1>5
  <2> QED
    BY <2>1, <2>2, <2>3, <2>4 DEF SnapshotInv, Busy
\* A request that does not insert writes no new row.
<1>6. ASSUME UNCHANGED <<properties, analyses>>, NEW w \in Workers,
             requests'[w].step # "idle" =>
               requests'[w].snapshot = properties[requests'[w].property].verified,
             requests'[w].step = "insert" =>
               \A b \in OfProperty(requests'[w].property) : analyses[b].version < requests'[w].version
      PROVE  SnapshotInv'
  <2>1. \A v \in Workers : v = w
    OBVIOUS
  <2>2. VersionsFollowSnapshots'
    BY <1>6 DEF SnapshotInv, VersionsFollowSnapshots, Persisted
  <2>3. /\ (\A p \in Properties : ~properties[p].exists => properties[p].verified = 0)'
        /\ (\A a \in Analyses : Persisted(a) => analyses[a].snapshot <= properties[analyses[a].property].verified)'
    BY <1>6 DEF SnapshotInv, Persisted
  <2>4. (\A v \in Workers : Busy(v) => requests[v].snapshot = properties[requests[v].property].verified)'
    BY <1>6, <2>1 DEF Busy
  <2>5. (\A v \in Workers : requests[v].step = "insert" =>
           \A b \in OfProperty(requests[v].property) : analyses[b].version < requests[v].version)'
    BY <1>6, <2>1 DEF OfProperty, Persisted
  <2> QED
    BY <2>2, <2>3, <2>4, <2>5 DEF SnapshotInv
<1>7. ASSUME NEW p \in Properties, CreateProperty(p)
      PROVE  SnapshotInv'
  <2>1. PICK w \in Workers : LoopFree(w)
    BY <1>7 DEF CreateProperty
  <2>2. PICK verified \in 0 .. 1 : properties' = [properties EXCEPT ![p] = [exists |-> TRUE, verified |-> verified]]
    BY <1>7 DEF CreateProperty
  <2>3. properties[p].verified = 0
    BY <1>7 DEF CreateProperty, SnapshotInv
  <2>4. \A q \in Properties : properties[q].verified <= properties'[q].verified
    BY <1>2, <2>2, <2>3, BoundsAreNaturals DEF Revisions
  <2>5. \A q \in Properties : ~properties'[q].exists => properties'[q].verified = 0
    BY <1>2, <2>2 DEF SnapshotInv
  <2> QED
    BY <1>5, <1>7, <2>1, <2>4, <2>5 DEF CreateProperty
<1>8. ASSUME NEW p \in Properties, PatchProperty(p)
      PROVE  SnapshotInv'
  <2>1. PICK w \in Workers : LoopFree(w)
    BY <1>8 DEF PatchProperty
  <2>2. properties' = [properties EXCEPT ![p].verified = @ + 1] /\ properties[p].exists
    BY <1>8 DEF PatchProperty
  <2>3. \A q \in Properties : properties[q].verified <= properties'[q].verified
    BY <1>2, <2>2, BoundsAreNaturals DEF Revisions
  <2>4. \A q \in Properties : ~properties'[q].exists => properties'[q].verified = 0
    BY <1>2, <2>2 DEF SnapshotInv
  <2> QED
    BY <1>5, <1>8, <2>1, <2>3, <2>4 DEF PatchProperty
<1>9. ASSUME NEW w \in Workers, NEW a \in Analyses, NEW p \in Properties, NEW assumptions, NEW context,
             CreateAnalysis(w, a, p, assumptions, context)
      PROVE  SnapshotInv'
  <2>1. /\ requests'[w].step = "allocate" /\ requests'[w].property = p
        /\ requests'[w].snapshot = properties[p].verified
    BY <1>2, <1>9 DEF CreateAnalysis
  <2> QED
    BY <1>6, <1>9, <2>1 DEF CreateAnalysis
<1>10. ASSUME NEW w \in Workers, NEW a \in Analyses, NEW source \in Analyses, NEW override,
              RerunAnalysis(w, a, source, override)
       PROVE  SnapshotInv'
  <2>1. /\ requests'[w].step = "allocate" /\ requests'[w].property = analyses[source].property
        /\ requests'[w].snapshot = properties[analyses[source].property].verified
    BY <1>2, <1>10 DEF RerunAnalysis, RerunSnapshot
  <2> QED
    BY <1>6, <1>10, <2>1 DEF RerunAnalysis
<1>11. ASSUME NEW w \in Workers, AllocateVersion(w)
       PROVE  SnapshotInv'
  <2>1. PICK v \in NextVersion(requests[w].property) :
          requests' = [requests EXCEPT ![w].step = "insert", ![w].version = v]
    BY <1>11 DEF AllocateVersion
  <2>2. /\ requests'[w].version = v /\ requests'[w].property = requests[w].property
        /\ requests'[w].snapshot = requests[w].snapshot
    BY <1>2, <2>1 DEF Request
  <2>3. \A b \in OfProperty(requests[w].property) : analyses[b].version < v
    BY <2>1, NextVersionBounds DEF IInv, VersionInv
  <2>4. requests[w].snapshot = properties[requests[w].property].verified
    BY <1>11 DEF SnapshotInv, AllocateVersion, Busy
  <2> QED
    BY <1>6, <1>11, <2>2, <2>3, <2>4 DEF AllocateVersion
\* The row inserted has the highest version of its property, and the snapshot of now.
<1>12. ASSUME NEW w \in Workers, NEW o, InsertAnalysis(w, o)
       PROVE  SnapshotInv'
  <2> DEFINE q == requests[w]
  <2>1. /\ q \in Request /\ q.step = "insert" /\ q.id \in Analyses /\ q.property \in Properties
        /\ q.snapshot = properties[q.property].verified
        /\ \A b \in OfProperty(q.property) : analyses[b].version < q.version
    BY <1>2, <1>12 DEF InsertAnalysis, IInv, Attached, Busy, SnapshotInv
  <2>2. /\ UNCHANGED properties
        /\ requests'[w].step # "insert"
        /\ requests'[w].step # "idle" =>
             requests'[w].snapshot = q.snapshot /\ requests'[w].property = q.property
    BY <1>2, <1>12, <2>1 DEF InsertAnalysis, Request, IdleRequest
  <2>3. CASE UNCHANGED analyses
    BY <1>6, <2>1, <2>2, <2>3
  <2>4. CASE analyses' = [analyses EXCEPT ![q.id] = NewRow(q)] /\ ~Persisted(q.id)
    <3>1. /\ analyses'[q.id].property = q.property /\ analyses'[q.id].version = q.version
          /\ analyses'[q.id].snapshot = q.snapshot
          /\ \A b \in Analyses \ {q.id} : analyses'[b] = analyses[b]
      BY <1>2, <2>1, <2>4 DEF NewRow, NoRow
    <3>2. ASSUME NEW b \in Analyses \ {q.id}, Persisted(b)', analyses'[b].property = q.property
          PROVE  analyses'[b].version < q.version /\ analyses'[b].snapshot <= q.snapshot
      <4>1. analyses'[b] = analyses[b] /\ b \in OfProperty(q.property) /\ Persisted(b)
        BY <3>1, <3>2 DEF OfProperty, Persisted
      <4> QED
        BY <2>1, <3>2, <4>1 DEF SnapshotInv
    <3>3. q.version \in Nat /\ q.snapshot \in Nat /\ \A b \in Analyses : analyses'[b].version \in Nat
      BY <2>1, BoundsAreNaturals DEF Request, Revisions, IInv, TypeOK, Row
    <3>4. VersionsFollowSnapshots'
      <4> SUFFICES ASSUME NEW a \in Analyses, NEW b \in Analyses, Persisted(a)', Persisted(b)',
                          analyses'[a].property = analyses'[b].property,
                          analyses'[a].version < analyses'[b].version
                   PROVE  analyses'[a].snapshot <= analyses'[b].snapshot
        BY DEF VersionsFollowSnapshots
      <4>1. CASE a = q.id
        <5>1. a = b \/ analyses'[b].version < analyses'[a].version
          BY <3>1, <3>2, <4>1
        <5> QED
          BY <3>3, <5>1
      <4>2. CASE a # q.id /\ b = q.id
        BY <3>1, <3>2, <4>2
      <4>3. CASE a # q.id /\ b # q.id
        BY <3>1, <4>3 DEF SnapshotInv, VersionsFollowSnapshots, Persisted
      <4> QED
        BY <4>1, <4>2, <4>3
    <3>5. ASSUME NEW a \in Analyses, Persisted(a)'
          PROVE  analyses'[a].snapshot <= properties'[analyses'[a].property].verified
      <4>1. CASE a = q.id
        BY <2>1, <2>2, <3>1, <3>3, <4>1
      <4>2. CASE a # q.id
        BY <2>2, <3>1, <3>5, <4>2 DEF SnapshotInv, Persisted
      <4> QED
        BY <4>1, <4>2
    <3>6. \A v \in Workers : /\ requests'[v].step # "insert"
                             /\ requests'[v].step # "idle" =>
                                  requests'[v].snapshot = properties'[requests'[v].property].verified
      BY <2>1, <2>2
    <3>7. (\A a \in Analyses : Persisted(a) => analyses[a].snapshot <= properties[analyses[a].property].verified)'
      BY <3>5
    <3>8. (\A p \in Properties : ~properties[p].exists => properties[p].verified = 0)'
      BY <2>2 DEF SnapshotInv
    <3>9. /\ (\A v \in Workers : Busy(v) => requests[v].snapshot = properties[requests[v].property].verified)'
          /\ (\A v \in Workers : requests[v].step = "insert" =>
                \A b \in OfProperty(requests[v].property) : analyses[b].version < requests[v].version)'
      BY <3>6 DEF Busy
    <3> QED
      BY <3>4, <3>7, <3>8, <3>9 DEF SnapshotInv
  <2>5. ~Persisted(q.id)
    BY <2>1 DEF IInv, TasksMatchRows, RequestsOwnIds, Busy
  <2>6. UNCHANGED analyses \/ analyses' = [analyses EXCEPT ![q.id] = NewRow(q)]
    BY <1>12, <2>1, CommitWrites DEF InsertAnalysis
  <2> HIDE DEF q
  <2> QED
    BY <2>3, <2>4, <2>5, <2>6
<1>13. ASSUME NEW w \in Workers, NEW o, SaveInputs(w, o)
       PROVE  SnapshotInv'
  <2>1. /\ requests[w].step = "inputs" /\ UNCHANGED properties
        /\ requests'[w].step = "idle"
    BY <1>2, <1>13 DEF SaveInputs, IdleRequest
  <2>2. \A v \in Workers : requests'[v].step = "idle"
    BY <2>1
  <2>3. \A a \in Analyses : Persisted(a)' => Persisted(a)
    BY <1>13, <2>1 DEF SaveInputs, Commit, IInv, TypeOK, TasksMatchRows, RequestsOwnIds, Busy, Persisted
  <2>4. \A p \in Properties : properties[p].verified <= properties'[p].verified
    BY <1>2, <2>1, BoundsAreNaturals DEF Revisions
  <2>5. /\ VersionsFollowSnapshots'
        /\ \A a \in Analyses : Persisted(a)' => analyses'[a].snapshot <= properties'[analyses'[a].property].verified
    BY <1>1, <2>3, <2>4, RowsKeepOrder
  <2>6. (\A a \in Analyses : Persisted(a) => analyses[a].snapshot <= properties[analyses[a].property].verified)'
    BY <2>5
  <2>7. (\A p \in Properties : ~properties[p].exists => properties[p].verified = 0)'
    BY <2>1 DEF SnapshotInv
  <2> QED
    BY <2>2, <2>5, <2>6, <2>7 DEF SnapshotInv, Busy
<1>14. ASSUME NEW w \in Workers, Crash(w)
       PROVE  SnapshotInv'
  <2>1. requests'[w].step = "idle" /\ UNCHANGED <<properties, analyses>>
    BY <1>2, <1>14 DEF Crash, IdleRequest
  <2> QED
    BY <1>6, <2>1
<1>15. ASSUME NEW a \in Analyses, TaskStep(a)
       PROVE  SnapshotInv'
  <2>1. UNCHANGED <<properties, requests>>
    BY <1>15 DEF TaskStep, MarkRunning, SavePreparation, LoadInputs, EnterStage, FinishStage, FailStage,
                 PersistStage, Complete, RecordFailure, MarkFailed, UnchangedByTask
  <2>2. \A b \in Analyses : Persisted(b)' => Persisted(b)
    <3>1. UNCHANGED analyses \/ \E row : Rewritten(a, row)
      BY <1>15, TaskStepWrites
    <3>2. ASSUME NEW row, Rewritten(a, row)
          PROVE  \A b \in Analyses : Persisted(b)' => Persisted(b)
      BY <1>2, <3>2 DEF Rewritten, Persisted
    <3> QED
      BY <3>1, <3>2 DEF Persisted
  <2> QED
    BY <1>4, <2>1, <2>2
<1>16. CASE UNCHANGED vars
  BY <1>4, <1>16 DEF vars, Persisted
<1> QED
  BY <1>7, <1>8, <1>9, <1>10, <1>11, <1>12, <1>13, <1>14, <1>15, <1>16 DEF Next, ClientStep, RequestStep

\* In one process, which is what the container runs, a later version of a property's
\* analysis never has an older snapshot: nothing interleaves with the handler between
\* the snapshot it reads and the row it inserts.
THEOREM VersionsFollow ==
  ASSUME \A v, w \in Workers : v = w
  PROVE  Spec => []VersionsFollowSnapshots
<1>1. Init => SnapshotInv
  BY DEF Init, SnapshotInv, VersionsFollowSnapshots, Busy, Persisted, NoRow, IdleRequest
<1>2. IInv /\ IInv' /\ VersionInv /\ SnapshotInv /\ [Next]_vars => SnapshotInv'
  BY StepKeepsSnapshotInv
<1>3. SnapshotInv => VersionsFollowSnapshots
  BY DEF SnapshotInv
<1> QED
  BY <1>1, <1>2, <1>3, InvariantHolds, InitVersionInv, StepKeepsVersionInv, PTL DEF Spec

-----------------------------------------------------------------------------
(* The specification of the API: every step is invisible to the clients,    *)
(* or accepts, starts, publishes or fails one analysis.                     *)

\* A step that leaves rows alone is invisible.
LEMMA SameRowSameAnswer ==
  ASSUME NEW a \in Analyses, analyses'[a] = analyses[a]
  PROVE  Accepted(a)' = Accepted(a) /\ Detail(a)' = Detail(a)
BY DEF Accepted, Detail, Persisted

\* The abstract variables change at one place when one row does.
LEMMA OneAnswerChanges ==
  ASSUME NEW a \in Analyses, \A b \in Analyses \ {a} : analyses'[b] = analyses[b]
  PROVE  /\ [b \in Analyses |-> Accepted(b)]' = [[b \in Analyses |-> Accepted(b)] EXCEPT ![a] = Accepted(a)']
         /\ [b \in Analyses |-> Detail(b)]' = [[b \in Analyses |-> Detail(b)] EXCEPT ![a] = Detail(a)']
<1>1. \A b \in Analyses \ {a} : Accepted(b)' = Accepted(b) /\ Detail(b)' = Detail(b)
  BY SameRowSameAnswer
<1> QED
  BY <1>1

\* An insert is the abstract Accept.
LEMMA InsertAccepts ==
  ASSUME IInv, NEW w \in Workers, NEW a \in Analyses, requests[w].id = a, Inserted(requests[w])
  PROVE  Api!Accept(a)
<1> DEFINE q == requests[w]
           inputs == [snapshot |-> q.snapshot, assumptions |-> q.assumptions]
<1>1. q \in Request /\ analyses \in [Analyses -> Row]
  BY DEF IInv, TypeOK
<1>2. analyses'[a] = NewRow(q) /\ \A b \in Analyses \ {a} : analyses'[b] = analyses[b]
  BY <1>1 DEF Inserted
<1>3. /\ NewRow(q).status = "pending" /\ NewRow(q).snapshot = q.snapshot /\ NewRow(q).assumptions = q.assumptions
  BY DEF NewRow, NoRow
<1>4. Detail(a) = [status |-> "absent", report |-> None]
  BY DEF Inserted, Persisted, Detail
<1>5. Accepted(a)' = inputs /\ Detail(a)' = [status |-> "pending", report |-> None]
  BY <1>2, <1>3 DEF Accepted, Detail, Persisted
<1>6. inputs \in AcceptedInputs
  BY <1>1 DEF AcceptedInputs, Request
<1> HIDE DEF inputs
<1>7. /\ [b \in Analyses |-> Accepted(b)]' = [[b \in Analyses |-> Accepted(b)] EXCEPT ![a] = inputs]
      /\ [b \in Analyses |-> Detail(b)]'
           = [[b \in Analyses |-> Detail(b)] EXCEPT ![a] = [status |-> "pending", report |-> None]]
  BY <1>2, <1>5, OneAnswerChanges
<1>8. Api!Moves(a, "absent", "pending", None)
  <2>1. [b \in Analyses |-> Detail(b)][a].status = "absent"
    BY <1>4
  <2> QED
    BY <1>7, <2>1 DEF Api!Moves
<1> QED
  BY <1>6, <1>7, <1>8 DEF Api!Accept

\* A rewrite that changes the status is the abstract Start, Publish or Fail; one that
\* does not shows nothing, because results are withheld until the status is completed.
LEMMA RewriteMoves ==
  ASSUME IInv, IInv', NEW a \in Analyses, NEW row, Rewritten(a, row)
  PROVE  \/ UNCHANGED <<[b \in Analyses |-> Accepted(b)], [b \in Analyses |-> Detail(b)]>>
         \/ Api!Start(a) \/ Api!Publish(a) \/ Api!Fail(a)
<1>1. analyses \in [Analyses -> Row] /\ analyses'[a] \in Row
  BY DEF IInv, TypeOK
<1>2. analyses'[a] = row /\ \A b \in Analyses \ {a} : analyses'[b] = analyses[b]
  BY <1>1 DEF Rewritten
<1>3. Accepted(a)' = Accepted(a)
  BY <1>2 DEF Rewritten, Accepted, SameInputs, Persisted
<1>4. /\ [b \in Analyses |-> Accepted(b)]' = [b \in Analyses |-> Accepted(b)]
      /\ [b \in Analyses |-> Detail(b)]' = [[b \in Analyses |-> Detail(b)] EXCEPT ![a] = Detail(a)']
  BY <1>2, <1>3, OneAnswerChanges
<1>5. analyses[a].status # "completed" /\ Detail(a) = [status |-> analyses[a].status, report |-> None]
  BY DEF Rewritten, Mutable, Detail
<1>6. CASE row.status = analyses[a].status
  <2>1. Detail(a)' = Detail(a)
    BY <1>2, <1>5, <1>6 DEF Detail
  <2> QED
    BY <1>4, <2>1
<1>7. CASE analyses[a].status = "pending" /\ row.status = "running"
  <2>1. Detail(a)' = [status |-> "running", report |-> None]
    BY <1>2, <1>7 DEF Detail
  <2> QED
    BY <1>4, <1>5, <1>7, <2>1 DEF Api!Start, Api!Moves
<1>8. CASE analyses[a].status = "running" /\ row.status = "failed"
  <2>1. Detail(a)' = [status |-> "failed", report |-> None]
    BY <1>2, <1>8 DEF Detail
  <2> QED
    BY <1>4, <1>5, <1>8, <2>1 DEF Api!Fail, Api!Moves
<1>9. CASE analyses[a].status = "running" /\ row.status = "completed"
  <2> DEFINE inputs == [snapshot |-> row.snapshot, assumptions |-> row.assumptions]
  <2>1. Detail(a)' = [status |-> "completed", report |-> row.results]
    BY <1>2, <1>9 DEF Detail
  <2>2. Consistent(tasks'[a], analyses'[a])
    BY DEF IInv, TasksMatchRows
  <2>3. Whole(row)
    BY <1>2, <1>9, <2>2 DEF Consistent
  <2>4. row.results \in [WorkStages -> Inputs \cup {None}]
    BY <1>1, <1>2 DEF Row, Results
  <2>5. inputs \in AcceptedInputs /\ Accepted(a) = inputs
    BY <1>1, <1>2 DEF AcceptedInputs, Row, Accepted, Rewritten, SameInputs
  <2>6. PICK context \in Contexts \cup {None} :
          \A s \in WorkStages : row.results[s]
            = ResultOf(s, [snapshot |-> row.snapshot, assumptions |-> row.assumptions, context |-> context])
    BY <2>3 DEF Whole
  <2>7. row.results = WholeReport(inputs, context)
    BY <2>4, <2>6 DEF WholeReport
  <2> HIDE DEF inputs
  <2>8. row.results \in ReportsFor[Accepted(a)]
    BY <2>5, <2>7 DEF ReportsFor
  <2>9. /\ [b \in Analyses |-> Accepted(b)][a] = Accepted(a)
        /\ [b \in Analyses |-> Detail(b)][a].status = "running"
    BY <1>5, <1>9
  <2>10. Api!Moves(a, "running", "completed", row.results)
    BY <1>4, <2>1, <2>9 DEF Api!Moves
  <2>11. Api!Publish(a)
    BY <1>4, <2>8, <2>9, <2>10 DEF Api!Publish
  <2> QED
    BY <2>11
<1> QED
  BY <1>6, <1>7, <1>8, <1>9 DEF Rewritten, TransitionAllowed

\* What the API shows of an analysis follows AnalysisApi, whatever fails or crashes inside.
THEOREM PipelineImplementsApi == Spec => ImplementsApi
<1>1. Init => Api!Init
  BY DEF Init, Api!Init, Accepted, Detail, Persisted, NoRow
<1>2. IInv /\ IInv' /\ [Next]_vars => [Api!Next]_(Api!apiVars)
  <2> SUFFICES ASSUME IInv, IInv', [Next]_vars
               PROVE  \/ UNCHANGED <<[b \in Analyses |-> Accepted(b)], [b \in Analyses |-> Detail(b)]>>
                      \/ Api!Next
    BY DEF Api!apiVars
  <2>1. UNCHANGED analyses => UNCHANGED <<[b \in Analyses |-> Accepted(b)], [b \in Analyses |-> Detail(b)]>>
    BY SameRowSameAnswer
  <2>2. ASSUME NEW w \in Workers, NEW a \in Analyses, requests[w].id = a, Inserted(requests[w])
        PROVE  Api!Next
    BY <2>2, InsertAccepts DEF Api!Next
  <2>3. ASSUME NEW a \in Analyses, NEW row, Rewritten(a, row)
        PROVE  \/ UNCHANGED <<[b \in Analyses |-> Accepted(b)], [b \in Analyses |-> Detail(b)]>>
               \/ Api!Next
    BY <2>3, RewriteMoves DEF Api!Next
  <2> QED
    BY <2>1, <2>2, <2>3, StepWrites
<1> QED
  BY <1>1, <1>2, InvariantHolds, PTL DEF Spec, ImplementsApi, Api!Spec
===============================================================================

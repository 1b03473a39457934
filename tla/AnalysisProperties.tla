--------------------------- MODULE AnalysisProperties ---------------------------
(***************************************************************************)
(* What AnalysisLifecycle is meant to guarantee.                           *)
(***************************************************************************)
EXTENDS AnalysisLifecycle

Busy(w) == requests[w].step # "idle"

\* A request or a live task works on row a.
Attended(a) == tasks[a].pc \in LivePcs \/ \E w \in Workers : requests[w].id = a

Terminal(a) == analyses[a].status \in {"completed", "failed"}

-----------------------------------------------------------------------------
(* Versions and lineage.                                                   *)

\* No two analyses of a property have the same version, although the next version is
\* read in one statement and inserted in another (get_next_version, create).
VersionsUnique ==
  \A a, b \in Analyses :
    /\ a # b /\ Persisted(a) /\ Persisted(b)
    /\ analyses[a].property = analyses[b].property
    => analyses[a].version # analyses[b].version

\* The versions of a property are 1, 2, 3, ... with no gap, although inserts are
\* refused, rolled back or cut short by a crash after the version was read.
VersionsDense ==
  \A a \in Analyses : Persisted(a) =>
    /\ analyses[a].version >= 1
    /\ \A v \in 1 .. analyses[a].version - 1 : \E b \in OfProperty(analyses[a].property) : analyses[b].version = v

\* The analyses of a property are numbered 1, 2, 3, ..., each number once: what the history
\* of reports is ordered by (get_next_version, create, the unique constraint).
VersionsAreNumbers == VersionsUnique /\ VersionsDense

\* Of two analyses of a property the later version never has the older snapshot: a
\* rerun takes the verified snapshot of now, and in one process no PATCH falls between
\* reading it and numbering the analysis (rerun_analysis, create_analysis).
VersionsFollowSnapshots ==
  \A a, b \in Analyses :
    /\ Persisted(a) /\ Persisted(b)
    /\ analyses[a].property = analyses[b].property
    /\ analyses[a].version < analyses[b].version
    => analyses[a].snapshot <= analyses[b].snapshot

\* A rerun points at an existing, earlier analysis of its own property, so lineage
\* never loops (parent_analysis_id in rerun_analysis).
RerunLineage ==
  \A a \in Analyses : Persisted(a) /\ analyses[a].parent # None =>
    LET parent == analyses[analyses[a].parent]
    IN  /\ Persisted(analyses[a].parent)
        /\ parent.property = analyses[a].property
        /\ parent.version < analyses[a].version

-----------------------------------------------------------------------------
(* Reports.                                                                *)

\* A completed analysis has all four results, each computed from the snapshots stored
\* in its own row, whatever was patched while it ran; its metadata says completed too.
CompletedReportIsWhole ==
  \A a \in Analyses : analyses[a].status = "completed" =>
    /\ \A s \in WorkStages :
         /\ analyses[a].results[s] # None
         /\ analyses[a].results[s].snapshot = analyses[a].snapshot
         /\ s # "research" => analyses[a].results[s].assumptions = analyses[a].assumptions
    /\ analyses[a].stage = "persistence"
    /\ analyses[a].metadata.status = "completed"
    /\ analyses[a].failure_stage = None

\* A completed row never changes again, not even when its completion commit took
\* effect but was reported as failed and the failure handler runs over it.
CompletedIsFrozen ==
  [][\A a \in Analyses : analyses[a].status = "completed" => analyses'[a] = analyses[a]]_vars

SameInputs(row, next) ==
  /\ next.property = row.property /\ next.parent = row.parent /\ next.version = row.version
  /\ next.snapshot = row.snapshot /\ next.assumptions = row.assumptions

InputsKept == \A a \in Analyses : Persisted(a) => Persisted(a)' /\ SameInputs(analyses[a], analyses'[a])

\* What an analysis was accepted with never changes (AnalysisRecord: immutable snapshots).
InputsAreFrozen == [][InputsKept]_vars

-----------------------------------------------------------------------------
(* Failures.                                                               *)

\* A failed row explains itself twice and consistently: the failure columns and the
\* metadata, which two commits of _handle_failure write.
FailureIsExplained ==
  \A a \in Analyses :
    /\ analyses[a].status = "failed" <=> analyses[a].failure_stage # None
    /\ analyses[a].status = "failed" =>
         /\ analyses[a].failure_stage = analyses[a].stage
         /\ analyses[a].metadata.status = "failed"
         /\ analyses[a].metadata.failure = analyses[a].failure_stage

\* The failure stage tells how far the analysis came: every stage before it has left
\* its result in the row, none after it has.
FailureStageMatchesResults ==
  \A a \in Analyses : analyses[a].status = "failed" =>
    \A s \in WorkStages :
      /\ Rank[s] < Rank[analyses[a].failure_stage] => analyses[a].results[s] # None
      /\ Rank[s] > Rank[analyses[a].failure_stage] => analyses[a].results[s] = None

\* An analysis that nobody works on and that never ended.
Stranded(a) == Persisted(a) /\ ~Attended(a) /\ ~Terminal(a)

\* Without a crash, an exception from any stage ends in `failed`, and one database call
\* that raises leaves at most one analysis pending or running for ever: a failure in
\* one task or request never spreads to another analysis.
StrandedOnlyByFaults == crashes = 0 => Cardinality({a \in Analyses : Stranded(a)}) <= faults

-----------------------------------------------------------------------------
(* What the API shows (_analysis_detail_response), and its specification.  *)

\* Results are withheld until the status is completed.
Detail(a) ==
  [status |-> analyses[a].status,
   report |-> IF analyses[a].status = "completed" THEN analyses[a].results ELSE None]

Accepted(a) ==
  IF Persisted(a) THEN [snapshot |-> analyses[a].snapshot, assumptions |-> analyses[a].assumptions] ELSE None

AcceptedInputs == [snapshot : Revisions, assumptions : Assumptions \cup {None}]

WholeReport(inputs, context) ==
  [s \in WorkStages |->
     ResultOf(s, [snapshot |-> inputs.snapshot, assumptions |-> inputs.assumptions, context |-> context])]

ReportsFor ==
  [inputs \in AcceptedInputs |-> {WholeReport(inputs, context) : context \in Contexts \cup {None}}]

Api == INSTANCE AnalysisApi WITH
         InputSets <- AcceptedInputs,
         Reports <- ReportsFor,
         accepted <- [a \in Analyses |-> Accepted(a)],
         detail <- [a \in Analyses |-> Detail(a)]

\* The pipeline implements what a client may rely on.
ImplementsApi == Api!Spec

-----------------------------------------------------------------------------
(* Why it is so: the inductive invariant that ties a task to its row.      *)

\* A request in progress owns an id no other request and no task has; the row appears
\* with its insert. An idle handler owns nothing.
RequestsOwnIds ==
  \A w \in Workers :
    /\ ~Busy(w) => requests[w].id = None
    /\ Busy(w) =>
         /\ tasks[requests[w].id].pc = "none"
         /\ \A v \in Workers \ {w} : requests[v].id # requests[w].id
         /\ requests[w].step \in {"allocate", "insert"} => ~Persisted(requests[w].id)
         /\ requests[w].step = "inputs" => analyses[requests[w].id].status = "pending"

\* A request about to insert was given a version with none missing below it, and the
\* source of a rerun is an earlier analysis of the same property.
RequestsAreNumbered ==
  \A w \in Workers :
    /\ requests[w].step = "insert" =>
         /\ requests[w].version >= 1
         /\ \A v \in 1 .. requests[w].version - 1 :
              \E b \in OfProperty(requests[w].property) : analyses[b].version = v
    /\ Busy(w) /\ requests[w].parent # None =>
         /\ requests[w].parent \in OfProperty(requests[w].property)
         /\ requests[w].step = "insert" => analyses[requests[w].parent].version < requests[w].version

PipelinePcs == {"enter", "work", "persist", "complete"}

\* Stages of the pipeline whose result the task has.
Done(t, s) == Rank[s] < Rank[t.stage] \/ (t.pc \in {"persist", "complete"} /\ s = t.stage)

\* The row holds a whole report of its own snapshots.
Whole(row) ==
  /\ row.stage = "persistence"
  /\ row.metadata.status = "completed"
  /\ \E context \in Contexts \cup {None} : \A s \in WorkStages :
       row.results[s] = ResultOf(s, [snapshot |-> row.snapshot, assumptions |-> row.assumptions, context |-> context])

\* The status a row may have when its task is at a given point.
StatusFits(t, row) ==
  /\ t.pc = "none" => row.status \in {"absent", "pending"}
  /\ t.pc = "scheduled" => row.status = "pending"
  /\ t.pc \in PipelinePcs \cup {"prepare", "load", "mark"} => row.status = "running"
  /\ t.pc = "record" => row.status \in {"running", "completed"}
  /\ t.pc \in EndPcs => row.status # "absent"

\* In the pipeline, the task has the row's inputs and the results of the stages behind it;
\* before the completion commit, the row has them all.
ResultsFit(t, row) ==
  /\ t.pc \in PipelinePcs =>
       /\ t.inputs.snapshot = row.snapshot
       /\ t.inputs.assumptions = row.assumptions
       /\ \A s \in WorkStages : Done(t, s) => t.results[s] = ResultOf(s, t.inputs)
  /\ t.pc = "persist" /\ t.stage = "investment_committee" => t.metadata.status = "completed"
  /\ t.pc = "complete" =>
       /\ t.stage = "investment_committee"
       /\ row.metadata.status = "completed"
       /\ \A s \in WorkStages : row.results[s] = t.results[s]

\* The failure is in the task's metadata before it is in the row's, and there before
\* it is in the status.
FailureFits(t, row) ==
  /\ t.pc = "record" => t.metadata.status = "failed" /\ t.metadata.failure = t.stage
  /\ t.pc = "mark" => row.metadata.status = "failed" /\ row.metadata.failure = t.stage
  /\ row.status = "failed" <=> row.failure_stage # None
  /\ row.status = "failed" =>
       /\ row.failure_stage = row.stage
       /\ row.metadata.status = "failed"
       /\ row.metadata.failure = row.failure_stage

Consistent(t, row) ==
  /\ StatusFits(t, row)
  /\ ResultsFit(t, row)
  /\ FailureFits(t, row)
  /\ row.status = "completed" => Whole(row)

TasksMatchRows == RequestsOwnIds /\ \A a \in Analyses : Consistent(tasks[a], analyses[a])

-----------------------------------------------------------------------------
(* Progress.                                                               *)

\* With no fault and no crash every scheduled analysis ends completed or failed.
ScheduledAnalysesSettle ==
  \A a \in Analyses : tasks[a].pc = "scheduled" ~> (Terminal(a) \/ faults + crashes > 0)

\* Faults and crashes do not leave a task or a request hanging, or the event loop held.
NothingHangs ==
  /\ \A a \in Analyses : tasks[a].pc \in LivePcs ~> tasks[a].pc \in EndPcs
  /\ \A w \in Workers : Busy(w) ~> LoopFree(w)

-----------------------------------------------------------------------------
(* What the documentation says and the code does not do.                   *)

\* README: `analysis-create.json` may include an optional decision context. The
\* committee's result should then have been computed with it.
CommitteeSeesDecisionContext ==
  \A a \in Analyses : analyses[a].results["investment_committee"] # None =>
    analyses[a].results["investment_committee"].context = asked[a]

\* README: if execution fails, the response includes failure_stage, error_code and
\* error_message. A task that ended with an exception should have left them.
FailedExecutionIsReported ==
  \A a \in Analyses : tasks[a].pc = "aborted" => Terminal(a)

===============================================================================

--------------------------- MODULE AnalysisLifecycle ---------------------------
(***************************************************************************)
(* The persisted analysis pipeline: the rows of table `analyses`, the HTTP *)
(* handlers that create and rerun analyses, and the in-process asyncio     *)
(* task that takes one analysis through underwriting, research, agent      *)
(* research and the investment committee.                                  *)
(*                                                                         *)
(* Grain.  Every database commit is one step, so that a crash or a failed  *)
(* commit can fall between any two of them.  What runs between two awaits  *)
(* holds the event loop of its process (LoopFree): in one process nothing  *)
(* interleaves with it, in another process everything does.                *)
(***************************************************************************)
EXTENDS Naturals, FiniteSets

CONSTANTS
  Workers,       \* API processes over one database; the docker image runs one
  Properties,    \* ids of property rows
  Analyses,      \* ids of analysis rows, uuid4 values no two rows share
  Assumptions,   \* assumption sets a client can submit
  Contexts,      \* decision contexts a client can submit
  None,          \* Python's None
  MaxRevision,   \* bound: verified snapshots saved per property
  MaxFaults,     \* bound: database calls that raise
  MaxCrashes     \* bound: process crashes

ASSUME NoneIsNoValue == None \notin Workers \cup Properties \cup Analyses \cup Assumptions \cup Contexts
ASSUME BoundsAreNaturals == MaxRevision \in Nat /\ MaxFaults \in Nat /\ MaxCrashes \in Nat

VARIABLES
  properties,    \* table properties: does the row exist, revision of its verified snapshot
  analyses,      \* table analyses
  requests,      \* per worker, the create or rerun handler in progress
  tasks,         \* per analysis, the background task that executes it
  asked,         \* history variable: the decision context the client asked for
  faults,        \* database calls that have raised so far
  crashes        \* process crashes so far

vars == <<properties, analyses, requests, tasks, asked, faults, crashes>>

-----------------------------------------------------------------------------
(* Stages and statuses.                                                    *)

Statuses == {"pending", "running", "completed", "failed"}

WorkStages == {"underwriting", "research", "agent_research", "investment_committee"}

Stages == WorkStages \cup {"preparation", "persistence"}

\* The order in which run_analysis goes through the stages.
Rank == [preparation |-> 0, underwriting |-> 1, research |-> 2, agent_research |-> 3,
         investment_committee |-> 4, persistence |-> 5]

NextStage == [underwriting |-> "research", research |-> "agent_research",
              agent_research |-> "investment_committee", investment_committee |-> "persistence"]

\* validate_status_transition: staying is allowed, so is what the table lists.
TransitionAllowed(current, target) ==
  \/ current = target
  \/ current = "pending" /\ target = "running"
  \/ current = "running" /\ target \in {"completed", "failed"}

AlwaysMutable(row) == TRUE

\* ensure_analysis_mutable: results of a completed analysis are not overwritten.
Mutable(row) == row.status # "completed"

-----------------------------------------------------------------------------
(* Values.  A verified snapshot is the number of its revision; 0 means     *)
(* that the property has none.  A result keeps what it was computed from.  *)

Revisions == 0 .. MaxRevision

Inputs == [snapshot : Revisions, assumptions : Assumptions \cup {None}, context : Contexts \cup {None}]

ASSUME NoneIsNoRecord == None \notin Inputs \cup Stages \cup Statuses

NoInputs == [snapshot |-> 0, assumptions |-> None, context |-> None]

Results == [WorkStages -> Inputs \cup {None}]

NoResults == [s \in WorkStages |-> None]

\* execution_metadata: written first by the handler, which stores the decision
\* context, and then replaced by the dictionary the task keeps in memory.
Metadata == [context : Contexts \cup {None}, status : Statuses \cup {None}, stage : Stages \cup {None},
             completed_at : BOOLEAN, failure : Stages \cup {None}]

NoMetadata == [context |-> None, status |-> None, stage |-> None, completed_at |-> FALSE, failure |-> None]

InputsMetadata(context) == [NoMetadata EXCEPT !.context = context]

ExecutionMetadata == [NoMetadata EXCEPT !.status = "pending", !.stage = "preparation"]

Row == [status : Statuses \cup {"absent"}, property : Properties \cup {None}, parent : Analyses \cup {None},
        version : Nat, stage : Stages, snapshot : Revisions, assumptions : Assumptions \cup {None},
        results : Results, metadata : Metadata, failure_stage : Stages \cup {None}]

NoRow == [status |-> "absent", property |-> None, parent |-> None, version |-> 0, stage |-> "preparation",
          snapshot |-> 0, assumptions |-> None, results |-> NoResults, metadata |-> NoMetadata,
          failure_stage |-> None]

Request == [step : {"idle", "allocate", "insert", "inputs"}, id : Analyses \cup {None},
            property : Properties \cup {None}, parent : Analyses \cup {None}, snapshot : Revisions,
            assumptions : Assumptions \cup {None}, context : Contexts \cup {None}, version : Nat]

IdleRequest == [step |-> "idle", id |-> None, property |-> None, parent |-> None, snapshot |-> 0,
                assumptions |-> None, context |-> None, version |-> 0]

LivePcs == {"scheduled", "prepare", "load", "enter", "work", "persist", "complete", "record", "mark"}

EndPcs == {"finished", "failed", "aborted", "lost"}

Task == [pc : LivePcs \cup EndPcs \cup {"none"}, worker : Workers \cup {None}, stage : Stages,
         inputs : Inputs, results : Results, metadata : Metadata]

NoTask == [pc |-> "none", worker |-> None, stage |-> "preparation", inputs |-> NoInputs,
           results |-> NoResults, metadata |-> NoMetadata]

TypeOK ==
  /\ properties \in [Properties -> [exists : BOOLEAN, verified : Revisions]]
  /\ analyses \in [Analyses -> Row]
  /\ requests \in [Workers -> Request]
  /\ tasks \in [Analyses -> Task]
  /\ asked \in [Analyses -> Contexts \cup {None}]
  /\ faults \in Nat
  /\ crashes \in Nat

Persisted(a) == analyses[a].status # "absent"

-----------------------------------------------------------------------------
(* The event loop and the database.                                        *)

\* The sections of run_analysis between two awaits. Underwriting is synchronous.
HoldsLoop(t) ==
  \/ t.pc \in LivePcs \ {"scheduled", "work"}
  \/ t.pc = "work" /\ t.stage = "underwriting"

LoopFree(w) ==
  /\ requests[w].step = "idle"
  /\ \A a \in Analyses : tasks[a].worker = w => ~HoldsLoop(tasks[a])

\* What one repository call does: it commits; or it raises with nothing written;
\* or the commit takes effect and the refresh after it, or the acknowledgement, is
\* what fails, and the caller sees the same exception.
Outcomes == {"ok", "rolled_back", "unacknowledged"}

\* One repository write of row a. An illegal one raises before it touches the row.
Commit(a, legal, row, o) ==
  /\ o # "ok" => legal /\ faults < MaxFaults
  /\ faults' = IF o = "ok" THEN faults ELSE faults + 1
  /\ analyses' = IF legal /\ o # "rolled_back" THEN [analyses EXCEPT ![a] = row] ELSE analyses

\* A repository that refreshes the snapshot with every write.
UpdateResultsAndSnapshot(row, results, metadata, stage) ==
  [row EXCEPT !.results = [s \in WorkStages |-> IF results[s] = None THEN row.results[s] ELSE results[s]],
              !.metadata = metadata,
              !.stage = stage,
              !.snapshot = properties[row.property].verified]

\* The columns update_results overwrites: results given, metadata wholesale, stage.
UpdateResults(row, results, metadata, stage) ==
  [row EXCEPT !.results = [s \in WorkStages |-> IF results[s] = None THEN row.results[s] ELSE results[s]],
              !.metadata = metadata,
              !.stage = stage]

-----------------------------------------------------------------------------
(* POST and PATCH /properties. Both are one commit; a request the schemas   *)
(* refuse, and a commit that fails, change nothing.                         *)

CreateProperty(p) ==
  /\ \E w \in Workers : LoopFree(w)
  /\ ~properties[p].exists
  /\ \E verified \in 0 .. 1 :   \* a normalized property alone is a row too
       /\ verified <= MaxRevision
       /\ properties' = [properties EXCEPT ![p] = [exists |-> TRUE, verified |-> verified]]
  /\ UNCHANGED <<analyses, requests, tasks, asked, faults, crashes>>

\* A new verified snapshot replaces the current one, while analyses of the old one run.
PatchProperty(p) ==
  /\ \E w \in Workers : LoopFree(w)
  /\ properties[p].exists
  /\ properties[p].verified < MaxRevision
  /\ properties' = [properties EXCEPT ![p].verified = @ + 1]
  /\ UNCHANGED <<analyses, requests, tasks, asked, faults, crashes>>

-----------------------------------------------------------------------------
(* POST /properties/{id}/analyses and POST /analyses/{id}/rerun. Refused    *)
(* requests (404, 422) read and change nothing: they are the guards. Both   *)
(* handlers then go the same way: next version, insert, metadata, schedule. *)

Fresh(a) == ~Persisted(a) /\ \A w \in Workers : requests[w].id # a

CreateAnalysis(w, a, p, assumptions, context) ==
  /\ LoopFree(w)
  /\ Fresh(a)
  /\ properties[p].verified > 0
  /\ requests' = [requests EXCEPT ![w] =
       [step |-> "allocate", id |-> a, property |-> p, parent |-> None, snapshot |-> properties[p].verified,
        assumptions |-> assumptions, context |-> context, version |-> 0]]
  /\ asked' = [asked EXCEPT ![a] = context]
  /\ UNCHANGED <<properties, analyses, tasks, faults, crashes>>

\* A rerun reads the property's verified snapshot of now, not the source's.
RerunSnapshot(source) == properties[analyses[source].property].verified

\* _apply_assumption_overrides: None is an empty override.
Overridden(base, override) == IF override = None THEN base ELSE override

\* The source may be in any status; its decision context is taken from its metadata.
RerunAnalysis(w, a, source, override) ==
  /\ LoopFree(w)
  /\ Fresh(a)
  /\ Persisted(source)
  /\ analyses[source].assumptions # None
  /\ properties[analyses[source].property].verified > 0
  /\ requests' = [requests EXCEPT ![w] =
       [step |-> "allocate", id |-> a, property |-> analyses[source].property, parent |-> source,
        snapshot |-> RerunSnapshot(source), assumptions |-> Overridden(analyses[source].assumptions, override),
        context |-> analyses[source].metadata.context, version |-> 0]]
  /\ asked' = [asked EXCEPT ![a] = asked[source]]
  /\ UNCHANGED <<properties, analyses, tasks, faults, crashes>>

OfProperty(p) == {a \in Analyses : Persisted(a) /\ analyses[a].property = p}

\* The query of get_next_version without its WHERE clause.
NextVersionOfTable(p) ==
  LET versions == {analyses[a].version : a \in {b \in Analyses : Persisted(b)}}
  IN  {v \in {1} \cup {u + 1 : u \in versions} : \A u \in versions : u < v}

\* max() of no rows is NULL, taken as the version.
NextVersionOfNull(p) ==
  LET versions == {analyses[a].version : a \in OfProperty(p)}
  IN  IF versions = {} THEN {None} ELSE {v \in {u + 1 : u \in versions} : \A u \in versions : u < v}

\* get_next_version: one more than the highest version of the property, or 1. The
\* set has exactly that element.
NextVersion(p) ==
  LET versions == {analyses[a].version : a \in OfProperty(p)}
  IN  {v \in {1} \cup {u + 1 : u \in versions} : \A u \in versions : u < v}

AllocateVersion(w) ==
  /\ requests[w].step = "allocate"
  /\ \E v \in NextVersion(requests[w].property) :
       requests' = [requests EXCEPT ![w].step = "insert", ![w].version = v]
  /\ UNCHANGED <<properties, analyses, tasks, asked, faults, crashes>>

NoConstraint(q) == TRUE

\* UniqueConstraint("property_id", "version"): a violation is answered with 409.
UniqueVersion(q) ==
  \A b \in Analyses : Persisted(b) => <<analyses[b].property, analyses[b].version>> # <<q.property, q.version>>

NewRowOwnParent(q) ==
  [NoRow EXCEPT !.status = "pending", !.property = q.property, !.parent = q.id, !.version = q.version,
                !.snapshot = q.snapshot, !.assumptions = q.assumptions]

NewRow(q) ==
  [NoRow EXCEPT !.status = "pending", !.property = q.property, !.parent = q.parent, !.version = q.version,
                !.snapshot = q.snapshot, !.assumptions = q.assumptions]

\* AnalysisRepository.create. Whatever it raises ends the request.
InsertAnalysis(w, o) ==
  LET q == requests[w]
  IN  /\ q.step = "insert"
      /\ Commit(q.id, UniqueVersion(q), NewRow(q), o)
      /\ requests' = [requests EXCEPT ![w] =
           IF UniqueVersion(q) /\ o = "ok" THEN [q EXCEPT !.step = "inputs"] ELSE IdleRequest]
      /\ UNCHANGED <<properties, tasks, asked, crashes>>

ScheduledTask(w) == [NoTask EXCEPT !.pc = "scheduled", !.worker = w]

\* The second commit of both handlers, the decision context; start_background_analysis
\* then schedules the task in this process. If the commit raises, nobody schedules it.
SaveInputs(w, o) ==
  LET q   == requests[w]
      row == analyses[q.id]
  IN  /\ q.step = "inputs"
      /\ Commit(q.id, Mutable(row), UpdateResults(row, NoResults, InputsMetadata(q.context), row.stage), o)
      /\ requests' = [requests EXCEPT ![w] = IdleRequest]
      /\ tasks' = IF Mutable(row) /\ o = "ok" THEN [tasks EXCEPT ![q.id] = ScheduledTask(w)] ELSE tasks
      /\ UNCHANGED <<properties, asked, crashes>>

-----------------------------------------------------------------------------
(* run_analysis. `stage` is the variable current_stage, `metadata` the      *)
(* dictionary execution_metadata, changed in memory before each commit.     *)

InStage(metadata, stage) == [metadata EXCEPT !.stage = stage]

\* An except clause that lists the errors it expects and misses a stage.
RaisedUncaught(t) ==
  [t EXCEPT !.pc = IF t.stage = "investment_committee" THEN "aborted" ELSE "record",
            !.metadata = [@ EXCEPT !.status = "failed", !.stage = t.stage, !.failure = t.stage]]

\* current_stage advanced before the exception is reported.
RaisedLate(t) ==
  LET stage == IF t.stage \in WorkStages THEN NextStage[t.stage] ELSE t.stage
  IN  [t EXCEPT !.pc = "record", !.stage = stage,
                !.metadata = [@ EXCEPT !.status = "failed", !.stage = stage, !.failure = stage]]

\* An exception inside the try block: _handle_failure starts with the metadata.
Raised(t) ==
  [t EXCEPT !.pc = "record",
            !.metadata = [@ EXCEPT !.status = "failed", !.stage = t.stage, !.failure = t.stage]]

\* An exception outside the try block, or inside _handle_failure, ends the task.
Aborted(t) == [t EXCEPT !.pc = "aborted"]

TaskOf(a, next) == tasks' = [tasks EXCEPT ![a] = next]

UnchangedByTask == UNCHANGED <<properties, requests, asked, crashes>>

\* The first of the two commits of _update_running_state(transition_to_running=True),
\* which run_analysis makes before it enters its try block.
MarkRunning(a, o) ==
  LET t     == tasks[a]
      row   == analyses[a]
      legal == TransitionAllowed(row.status, "running")
      begun == [t EXCEPT !.pc = "prepare", !.stage = "preparation", !.metadata = ExecutionMetadata]
  IN  /\ t.pc = "scheduled"
      /\ LoopFree(t.worker)
      /\ Commit(a, legal, [row EXCEPT !.status = "running", !.stage = "preparation"], o)
      /\ TaskOf(a, IF legal /\ o = "ok" THEN begun ELSE Aborted(begun))
      /\ UnchangedByTask

\* The second: the task's metadata replaces the handler's.
SavePreparation(a, o) ==
  LET t   == tasks[a]
      row == analyses[a]
  IN  /\ t.pc = "prepare"
      /\ Commit(a, Mutable(row), UpdateResults(row, NoResults, t.metadata, "preparation"), o)
      /\ TaskOf(a, IF Mutable(row) /\ o = "ok" THEN [t EXCEPT !.pc = "load"] ELSE Aborted(t))
      /\ UnchangedByTask

\* The snapshot read from the property instead of from the analysis.
CurrentInputs(a) ==
  [snapshot |-> properties[analyses[a].property].verified, assumptions |-> analyses[a].assumptions,
   context |-> analyses[a].metadata.context]

\* _load_analysis_inputs, from the row as it is now.
StoredInputs(a) ==
  [snapshot |-> analyses[a].snapshot, assumptions |-> analyses[a].assumptions,
   context |-> analyses[a].metadata.context]

LoadInputs(a, o) ==
  LET t == tasks[a]
  IN  /\ t.pc = "load"
      /\ \/ /\ o = "ok"
            /\ TaskOf(a, [t EXCEPT !.pc = "enter", !.stage = "underwriting", !.inputs = StoredInputs(a)])
            /\ UNCHANGED faults
         \/ /\ o = "rolled_back"   \* the read raises
            /\ faults < MaxFaults
            /\ faults' = faults + 1
            /\ TaskOf(a, Raised(t))
      /\ UNCHANGED analyses
      /\ UnchangedByTask

\* _update_running_state at the start of each of the four work stages.
EnterStage(a, o) ==
  LET t       == tasks[a]
      row     == analyses[a]
      entered == [t EXCEPT !.metadata = InStage(@, t.stage)]
  IN  /\ t.pc = "enter"
      /\ Commit(a, Mutable(row), UpdateResults(row, NoResults, entered.metadata, t.stage), o)
      /\ TaskOf(a, IF Mutable(row) /\ o = "ok" THEN [entered EXCEPT !.pc = "work"] ELSE Raised(entered))
      /\ UnchangedByTask

\* What each stage computes its result from. Agent research sees the assumptions
\* through the underwriting result.
ResultOf(stage, inputs) ==
  [inputs EXCEPT !.assumptions = IF stage = "research" THEN None ELSE @,
                 !.context = IF stage = "investment_committee" THEN @ ELSE None]

\* The stage returns a result; after the last one the metadata is completed in memory.
FinishStage(a) ==
  LET t    == tasks[a]
      done == [t EXCEPT !.pc = "persist", !.results[t.stage] = ResultOf(t.stage, t.inputs)]
  IN  /\ t.pc = "work"
      /\ t.stage # "underwriting" => LoopFree(t.worker)
      /\ TaskOf(a, IF t.stage = "investment_committee"
                   THEN [done EXCEPT !.metadata = [@ EXCEPT !.status = "completed", !.stage = "persistence",
                                                            !.completed_at = TRUE]]
                   ELSE done)
      /\ UNCHANGED <<analyses, faults>>
      /\ UnchangedByTask

\* The stage raises, or returns no result and run_analysis raises.
FailStage(a) ==
  LET t == tasks[a]
  IN  /\ t.pc = "work"
      /\ t.stage # "underwriting" => LoopFree(t.worker)
      /\ TaskOf(a, Raised(t))
      /\ UNCHANGED <<analyses, faults>>
      /\ UnchangedByTask

\* Only the result of the stage just done is kept in the task.
SavedLast(t) == [s \in WorkStages |-> IF s = t.stage /\ s # "research" THEN t.results[s] ELSE None]

\* The results each _persist_partial_results passes on: all computed so far.
SavedSoFar(t) == t.results

\* _persist_partial_results; current_stage stays at the committee for the last one.
PersistStage(a, o) ==
  LET t     == tasks[a]
      row   == analyses[a]
      last  == t.stage = "investment_committee"
      stage == IF last THEN "persistence" ELSE t.stage
      saved == [t EXCEPT !.metadata = InStage(@, stage)]
  IN  /\ t.pc = "persist"
      /\ Commit(a, Mutable(row), UpdateResults(row, SavedSoFar(t), saved.metadata, stage), o)
      /\ TaskOf(a, IF ~(Mutable(row) /\ o = "ok") THEN Raised(saved)
                   ELSE IF last THEN [saved EXCEPT !.pc = "complete"]
                   ELSE [saved EXCEPT !.pc = "enter", !.stage = NextStage[t.stage]])
      /\ UnchangedByTask

\* _update_completed_state: a commit of its own, after the results.
Complete(a, o) ==
  LET t     == tasks[a]
      row   == analyses[a]
      legal == TransitionAllowed(row.status, "completed")
  IN  /\ t.pc = "complete"
      /\ Commit(a, legal, [row EXCEPT !.status = "completed", !.stage = "persistence"], o)
      /\ TaskOf(a, IF legal /\ o = "ok" THEN [t EXCEPT !.pc = "finished"] ELSE Raised(t))
      /\ UnchangedByTask

\* _handle_failure that goes on to the status when the metadata could not be saved.
RecordFailureAnyway(a, o) ==
  LET t   == tasks[a]
      row == analyses[a]
  IN  /\ t.pc = "record"
      /\ Commit(a, Mutable(row), UpdateResults(row, NoResults, t.metadata, t.stage), o)
      /\ TaskOf(a, [t EXCEPT !.pc = "mark"])
      /\ UnchangedByTask

\* _handle_failure that tries again until the metadata is saved.
RecordFailureRetrying(a, o) ==
  LET t   == tasks[a]
      row == analyses[a]
  IN  /\ t.pc = "record"
      /\ Commit(a, Mutable(row), UpdateResults(row, NoResults, t.metadata, t.stage), o)
      /\ TaskOf(a, IF Mutable(row) /\ o = "ok" THEN [t EXCEPT !.pc = "mark"] ELSE t)
      /\ UnchangedByTask

\* _handle_failure, first commit: the metadata with the failure in it.
RecordFailure(a, o) ==
  LET t   == tasks[a]
      row == analyses[a]
  IN  /\ t.pc = "record"
      /\ Commit(a, Mutable(row), UpdateResults(row, NoResults, t.metadata, t.stage), o)
      /\ TaskOf(a, IF Mutable(row) /\ o = "ok" THEN [t EXCEPT !.pc = "mark"] ELSE Aborted(t))
      /\ UnchangedByTask

\* _handle_failure, second commit: the status and the failure columns.
MarkFailed(a, o) ==
  LET t     == tasks[a]
      row   == analyses[a]
      legal == TransitionAllowed(row.status, "failed")
  IN  /\ t.pc = "mark"
      /\ Commit(a, legal, [row EXCEPT !.status = "failed", !.stage = t.stage, !.failure_stage = t.stage], o)
      /\ TaskOf(a, IF legal /\ o = "ok" THEN [t EXCEPT !.pc = "failed"] ELSE Aborted(t))
      /\ UnchangedByTask

-----------------------------------------------------------------------------

\* The process stops: its handler and its tasks are gone, its rows stay. No code
\* looks for them when it starts again.
Crash(w) ==
  /\ crashes < MaxCrashes
  /\ crashes' = crashes + 1
  /\ requests' = [requests EXCEPT ![w] = IdleRequest]
  /\ tasks' = [a \in Analyses |->
       IF tasks[a].worker = w /\ tasks[a].pc \in LivePcs THEN [tasks[a] EXCEPT !.pc = "lost"] ELSE tasks[a]]
  /\ UNCHANGED <<properties, analyses, asked, faults>>

TaskStep(a) ==
  \/ \E o \in Outcomes :
       \/ MarkRunning(a, o)
       \/ SavePreparation(a, o)
       \/ LoadInputs(a, o)
       \/ EnterStage(a, o)
       \/ PersistStage(a, o)
       \/ Complete(a, o)
       \/ RecordFailure(a, o)
       \/ MarkFailed(a, o)
  \/ FinishStage(a)
  \/ FailStage(a)

RequestStep(w) ==
  \/ AllocateVersion(w)
  \/ \E o \in Outcomes : InsertAnalysis(w, o) \/ SaveInputs(w, o)

ClientStep ==
  \/ \E p \in Properties : CreateProperty(p) \/ PatchProperty(p)
  \/ \E w \in Workers, a \in Analyses :
       \/ \E p \in Properties, assumptions \in Assumptions, context \in Contexts \cup {None} :
            CreateAnalysis(w, a, p, assumptions, context)
       \/ \E source \in Analyses, override \in Assumptions \cup {None} : RerunAnalysis(w, a, source, override)

Init ==
  /\ properties = [p \in Properties |-> [exists |-> FALSE, verified |-> 0]]
  /\ analyses = [a \in Analyses |-> NoRow]
  /\ requests = [w \in Workers |-> IdleRequest]
  /\ tasks = [a \in Analyses |-> NoTask]
  /\ asked = [a \in Analyses |-> None]
  /\ faults = 0
  /\ crashes = 0

Next ==
  \/ ClientStep
  \/ \E w \in Workers : RequestStep(w) \/ Crash(w)
  \/ \E a \in Analyses : TaskStep(a)

Spec == Init /\ [][Next]_vars

\* asyncio runs every ready callback in turn, and each awaited stage returns or
\* raises: each call of research, agents and committee is under a timeout; the risk
\* agent only under that of its HTTP client.
Fairness ==
  /\ \A w \in Workers : WF_vars(RequestStep(w))
  /\ \A a \in Analyses : SF_vars(TaskStep(a))

FairSpec == Spec /\ Fairness

===============================================================================

------------------------------ MODULE AgentProofs ------------------------------
(***************************************************************************)
(* Proofs about the stage of the specialist agents, for any agents, number *)
(* of permits, retries and timeouts: a task's output and its last record   *)
(* belong together from the attempt that gave them on, and nothing a task  *)
(* does after the stage has been collected can separate them again; and    *)
(* every agent has its turn within the waves the permits allow.            *)
(***************************************************************************)
EXTENDS AgentWorkflow, FiniteSetTheorems, WellFoundedInduction, TLAPS

Completed(n) == [status |-> "completed", attempts |-> n, code |-> "none", retryable |-> FALSE]

\* The record of a task that returned without an answer: a final error.
Final(record) ==
  /\ record.status # "completed"
  /\ record.code \notin {"none", "workflow_timeout"}
  /\ ~record.retryable
  /\ record.code = "agent_timeout" => record.attempts = Attempts

TaskIsSound(t) ==
  /\ t.pc = "running" => t.attempt # 0
  /\ t.pc # "returned" => t.output = 0
  /\ t.pc = "returned" =>
       \/ t.output # 0 /\ t.record = Completed(t.output)
       \/ t.output = 0 /\ Final(t.record)

Cancelled(t) == t.pc \in {"cancelling", "cancelled"}

StageInv ==
  /\ TypeOK
  /\ \A a \in Agents : TaskIsSound(agents[a])
  /\ (\E a \in Agents : Cancelled(agents[a])) => workflow.pc # "waiting" /\ workflow.timed_out
  /\ workflow.pc \in {"risk", "answered"} =>
       \A a \in Agents :
         /\ agents[a].pc \in {"returned", "cancelled"}
         /\ package.outputs[a] = Output(agents[a])
         /\ package.records[a] = Record(agents[a])

-----------------------------------------------------------------------------
(* Tasks. *)

LEMMA AttemptsArePositive == Attempts \in Nat /\ Attempts > 0
BY ConfigIsValid DEF Attempts

\* The next attempt of a task.
LEMMA AttemptIsSound ==
  ASSUME TypeOK, NEW t \in AgentTask, t.output = 0, NEW n \in Outputs, n # 0
  PROVE  /\ Attempt(t, n) \in AgentTask
         /\ TaskIsSound(Attempt(t, n))
         /\ ~Cancelled(Attempt(t, n))
<1>1. clock + AttemptTimeout \in Nat
  BY ConfigIsValid DEF TypeOK
<1> QED
  BY <1>1 DEF Attempt, AgentTask, TaskPcs, TaskIsSound, Cancelled

LEMMA AnswerIsSound ==
  ASSUME NEW t \in AgentTask, t.pc = "running", TaskIsSound(t)
  PROVE  Answered(t) \in AgentTask /\ TaskIsSound(Answered(t)) /\ ~Cancelled(Answered(t))
<1>1. Completed(t.attempt) \in Records
  BY DEF Completed, Records, AgentTask, Codes
<1>2. Answered(t) = [t EXCEPT !.pc = "returned", !.output = t.attempt, !.record = Completed(t.attempt)]
  BY DEF Answered, Completed
<1>3. Answered(t) \in AgentTask
  BY <1>1, <1>2 DEF AgentTask, TaskPcs
<1>4. /\ Answered(t).pc = "returned" /\ Answered(t).output = t.attempt
      /\ Answered(t).record = Completed(t.attempt)
  BY <1>2 DEF AgentTask
<1> QED
  BY <1>3, <1>4 DEF TaskIsSound, Cancelled

\* A failed attempt is followed by another or leaves a final record.
LEMMA FailureIsSound ==
  ASSUME TypeOK, NEW t \in AgentTask, t.pc = "running", TaskIsSound(t),
         NEW status \in {"failed", "timed_out"}, NEW code \in Codes \ {"none", "workflow_timeout"},
         NEW retryable \in BOOLEAN, code = "agent_timeout" => retryable
  PROVE  LET next == AfterFailure(t, status, code, retryable)
         IN  next \in AgentTask /\ TaskIsSound(next) /\ ~Cancelled(next)
<1> DEFINE record == Failure(t, status, code, retryable)
           failed == [t EXCEPT !.record = record]
           ended == [failed EXCEPT !.pc = "returned"]
<1>1. t.attempt \in Outputs /\ t.attempt # 0 /\ t.output = 0
  BY DEF TaskIsSound, AgentTask
<1>2. /\ record.status = status /\ record.code = code /\ record.attempts = t.attempt
      /\ record.retryable = (retryable /\ t.attempt < Attempts)
  BY DEF Failure
<1>3. record \in Records
  BY <1>1 DEF Failure, Records
<1> HIDE DEF record
<1>4. failed \in AgentTask /\ failed.output = 0
  BY <1>1, <1>3 DEF AgentTask
<1>5. CASE retryable /\ t.attempt < Attempts
  <2>1. t.attempt + 1 \in Outputs /\ t.attempt + 1 # 0
    BY <1>1, <1>5, AttemptsArePositive DEF Outputs
  <2>2. AfterFailure(t, status, code, retryable) = Attempt(failed, t.attempt + 1)
    BY <1>5 DEF AfterFailure, record
  <2> HIDE DEF failed
  <2> QED
    BY <1>4, <2>1, <2>2, AttemptIsSound
<1>6. CASE ~(retryable /\ t.attempt < Attempts)
  <2>1. AfterFailure(t, status, code, retryable) = ended
    BY <1>6 DEF AfterFailure, record
  <2>2. code = "agent_timeout" => t.attempt = Attempts
    BY <1>1, <1>6, AttemptsArePositive DEF Outputs
  <2>3. Final(record)
    BY <1>2, <1>6, <2>2 DEF Final
  <2>4. ended \in AgentTask /\ ended.pc = "returned" /\ ended.output = 0 /\ ended.record = record
    BY <1>1, <1>3 DEF AgentTask, TaskPcs
  <2> HIDE DEF ended
  <2> QED
    BY <2>1, <2>3, <2>4 DEF TaskIsSound, Cancelled
<1> QED
  BY <1>5, <1>6

-----------------------------------------------------------------------------
(* Steps. *)

\* A task that moves, before the stage is collected, and stays sound, keeps the invariant.
LEMMA TaskKeeps ==
  ASSUME StageInv, NEW a \in Agents, agents[a].pc \notin {"returned", "cancelled"}, NEW t \in AgentTask, TaskIsSound(t),
         Cancelled(t) => Cancelled(agents[a]),
         agents' = [agents EXCEPT ![a] = t], UNCHANGED <<workflow, package, clock>>
  PROVE  StageInv'
<1>1. agents \in [Agents -> AgentTask]
  BY DEF StageInv, TypeOK
<1>2. workflow.pc \notin {"risk", "answered"}
  BY DEF StageInv
<1>3. TypeOK'
  BY <1>1 DEF StageInv, TypeOK
<1>4. \A b \in Agents : TaskIsSound(agents'[b])
  BY <1>1 DEF StageInv
<1>5. (\E b \in Agents : Cancelled(agents'[b])) => workflow.pc # "waiting" /\ workflow.timed_out
  BY <1>1 DEF StageInv
<1> QED
  BY <1>2, <1>3, <1>4, <1>5 DEF StageInv

LEMMA AgentStepKeeps ==
  ASSUME StageInv, NEW a \in Agents, AgentStep(a)
  PROVE  StageInv'
<1> DEFINE t == agents[a]
<1>1. TypeOK /\ t \in AgentTask /\ TaskIsSound(t)
  BY DEF StageInv, TypeOK
<1>2. CASE Acquire(a)
  <2>1. t.pc = "queued" /\ t.output = 0
    BY <1>1, <1>2 DEF Acquire, MayAcquire, TaskIsSound
  <2>2. 1 \in Outputs
    BY AttemptsArePositive DEF Outputs
  <2>3. Attempt(t, 1) \in AgentTask /\ TaskIsSound(Attempt(t, 1)) /\ ~Cancelled(Attempt(t, 1))
    BY <1>1, <2>1, <2>2, AttemptIsSound
  <2>4. agents' = [agents EXCEPT ![a] = Attempt(t, 1)] /\ UNCHANGED <<workflow, package, clock>>
    BY <1>2 DEF Acquire
  <2> QED
    BY <2>1, <2>3, <2>4, TaskKeeps
<1>3. CASE Answer(a)
  <2>1. t.pc = "running" /\ agents' = [agents EXCEPT ![a] = Answered(t)]
        /\ UNCHANGED <<workflow, package, clock>>
    BY <1>3 DEF Answer
  <2>2. Answered(t) \in AgentTask /\ TaskIsSound(Answered(t)) /\ ~Cancelled(Answered(t))
    BY <1>1, <2>1, AnswerIsSound
  <2> QED
    BY <2>1, <2>2, TaskKeeps
<1>4. CASE Fail(a)
  <2>1. PICK code \in Errors(a) :
          agents' = [agents EXCEPT ![a] = AfterFailure(t, "failed", code, code = "agent_model_failure")]
    BY <1>4 DEF Fail
  <2>2. t.pc = "running" /\ UNCHANGED <<workflow, package, clock>>
    BY <1>4 DEF Fail
  <2>3. code \in Codes \ {"none", "workflow_timeout"} /\ code # "agent_timeout"
    BY DEF Errors, Codes
  <2> DEFINE next == AfterFailure(t, "failed", code, code = "agent_model_failure")
  <2>4. next \in AgentTask /\ TaskIsSound(next) /\ ~Cancelled(next)
    BY <1>1, <2>2, <2>3, FailureIsSound
  <2> HIDE DEF next
  <2>5. agents' = [agents EXCEPT ![a] = next]
    BY <2>1 DEF next
  <2> QED
    BY <2>2, <2>4, <2>5, TaskKeeps
<1>5. CASE TimeOut(a)
  <2> DEFINE next == AfterFailure(t, "timed_out", "agent_timeout", TRUE)
  <2>1. t.pc = "running" /\ agents' = [agents EXCEPT ![a] = next] /\ UNCHANGED <<workflow, package, clock>>
    BY <1>5 DEF TimeOut, Due
  <2>2. "agent_timeout" \in Codes \ {"none", "workflow_timeout"}
    BY DEF Codes
  <2>3. next \in AgentTask /\ TaskIsSound(next) /\ ~Cancelled(next)
    BY <1>1, <2>1, <2>2, FailureIsSound
  <2> HIDE DEF next
  <2> QED
    BY <2>1, <2>3, TaskKeeps
<1>6. CASE Raise(a)
  <2> DEFINE next == [t EXCEPT !.pc = "raised"]
  <2>1. t.pc = "running" /\ agents' = [agents EXCEPT ![a] = next] /\ UNCHANGED <<workflow, package, clock>>
    BY <1>6 DEF Raise
  <2>2. next \in AgentTask /\ TaskIsSound(next) /\ ~Cancelled(next)
    BY <1>1, <2>1 DEF AgentTask, TaskPcs, TaskIsSound, Cancelled
  <2> HIDE DEF next
  <2> QED
    BY <2>1, <2>2, TaskKeeps
<1>7. CASE Stop(a)
  <2> DEFINE next == [t EXCEPT !.pc = "cancelled"]
  <2>1. t.pc = "cancelling" /\ agents' = [agents EXCEPT ![a] = next]
        /\ UNCHANGED <<workflow, package, clock>>
    BY <1>7 DEF Stop
  <2>2. next \in AgentTask /\ TaskIsSound(next) /\ Cancelled(t)
    BY <1>1, <2>1 DEF AgentTask, TaskPcs, TaskIsSound, Cancelled
  <2> HIDE DEF next
  <2> QED
    BY <2>1, <2>2, TaskKeeps
<1> QED
  BY <1>2, <1>3, <1>4, <1>5, <1>6, <1>7 DEF AgentStep

\* Only tasks that have not ended are told to stop, so no answer is taken back.
LEMMA StopWaitingKeeps ==
  ASSUME StageInv, StopWaiting
  PROVE  StageInv'
<1>1. /\ agents' = [a \in Agents |-> IF a \in Pending THEN [agents[a] EXCEPT !.pc = "cancelling"] ELSE agents[a]]
      /\ workflow' = [pc |-> "gathering", timed_out |-> Pending # {}]
      /\ UNCHANGED <<package, clock>>
      /\ workflow.pc = "waiting"
  BY DEF StopWaiting
<1>2. ASSUME NEW a \in Agents
      PROVE  /\ agents'[a] \in AgentTask /\ TaskIsSound(agents'[a])
             /\ Cancelled(agents'[a]) => Pending # {}
  <2>1. agents[a] \in AgentTask /\ TaskIsSound(agents[a]) /\ ~Cancelled(agents[a])
    BY <1>1 DEF StageInv, TypeOK
  <2>2. CASE a \in Pending
    <3>1. agents'[a] = [agents[a] EXCEPT !.pc = "cancelling"] /\ agents[a].pc # "returned"
      BY <1>1, <2>2 DEF Pending, Ended
    <3> QED
      BY <2>1, <2>2, <3>1 DEF AgentTask, TaskPcs, TaskIsSound
  <2>3. CASE a \notin Pending
    BY <1>1, <2>1, <2>3
  <2> QED
    BY <2>2, <2>3
<1>3. TypeOK'
  BY <1>1, <1>2 DEF StageInv, TypeOK, WorkflowPcs
<1> QED
  BY <1>1, <1>2, <1>3 DEF StageInv

LEMMA OutputsAreTyped ==
  ASSUME NEW t \in AgentTask
  PROVE  Output(t) \in Outputs /\ Record(t) \in Records
<1>1. 0 \in Outputs /\ 1 \in Outputs
  BY AttemptsArePositive DEF Outputs
<1> QED
  BY <1>1 DEF AgentTask, Output, Record, WorkflowTimeoutRecord, Records, Codes

LEMMA CollectKeeps ==
  ASSUME StageInv, Collect
  PROVE  StageInv'
<1>1. workflow.pc = "gathering" /\ agents' = agents /\ clock' = clock /\ Gathered
  BY DEF Collect
<1>2. workflow \in [pc : WorkflowPcs, timed_out : BOOLEAN] /\ agents \in [Agents -> AgentTask]
  BY DEF StageInv, TypeOK
<1>3. CASE \E a \in Agents : agents[a].pc = "raised"
  <2>1. workflow' = [workflow EXCEPT !.pc = "raised"] /\ package' = package
    BY <1>3 DEF Collect
  <2> QED
    BY <1>1, <1>2, <2>1 DEF StageInv, TypeOK, WorkflowPcs
<1>4. CASE ~ \E a \in Agents : agents[a].pc = "raised"
  <2> DEFINE outputs == [a \in Agents |-> Output(agents[a])]
             records == [a \in Agents |-> Record(agents[a])]
  <2>1. package' = [package EXCEPT !.outputs = outputs, !.records = records]
    BY <1>4 DEF Collect
  <2>2. workflow' = [workflow EXCEPT !.pc = IF AllFound THEN "risk" ELSE "answered"]
    BY <1>4 DEF Collect
  <2>3. \A a \in Agents : agents[a].pc \in {"returned", "cancelled"}
    BY <1>1, <1>4 DEF Gathered
  <2>4. outputs \in [Agents -> Outputs] /\ records \in [Agents -> Records]
    BY <1>2, OutputsAreTyped
  <2>5. package \in [outputs : [Agents -> Outputs], records : [Agents -> Records], risk : BOOLEAN]
    BY DEF StageInv, TypeOK
  <2>6. \A a \in Agents : outputs[a] = Output(agents[a]) /\ records[a] = Record(agents[a])
    OBVIOUS
  <2> HIDE DEF outputs, records
  <2>7. package'.outputs = outputs /\ package'.records = records
        /\ package' \in [outputs : [Agents -> Outputs], records : [Agents -> Records], risk : BOOLEAN]
    BY <2>1, <2>4, <2>5
  <2>8. workflow' \in [pc : WorkflowPcs, timed_out : BOOLEAN] /\ workflow'.timed_out = workflow.timed_out
        /\ workflow'.pc # "waiting"
    BY <1>2, <2>2 DEF WorkflowPcs
  <2>9. TypeOK'
    BY <1>1, <2>7, <2>8 DEF StageInv, TypeOK
  <2>10. \A a \in Agents : Output(agents[a])' = Output(agents[a]) /\ Record(agents[a])' = Record(agents[a])
    BY <1>1 DEF Output, Record
  <2> QED
    BY <1>1, <2>3, <2>6, <2>7, <2>8, <2>9, <2>10 DEF StageInv
<1> QED
  BY <1>3, <1>4

\* The risk agent adds its own analysis and leaves those of the others alone.
LEMMA AssessRiskKeeps ==
  ASSUME StageInv, AssessRisk
  PROVE  StageInv'
<1>1. workflow.pc = "risk" /\ agents' = agents /\ clock' = clock
  BY DEF AssessRisk
<1>2. TypeOK
  BY DEF StageInv
<1>3. \/ workflow' = [workflow EXCEPT !.pc = "answered"] /\ \E found \in BOOLEAN : package' = [package EXCEPT !.risk = found]
      \/ workflow' = [workflow EXCEPT !.pc = "raised"] /\ package' = package
  BY DEF AssessRisk
<1>4. /\ package'.outputs = package.outputs /\ package'.records = package.records
      /\ package' \in [outputs : [Agents -> Outputs], records : [Agents -> Records], risk : BOOLEAN]
      /\ workflow' \in [pc : WorkflowPcs, timed_out : BOOLEAN]
      /\ workflow'.pc \in {"answered", "raised"} /\ workflow'.timed_out = workflow.timed_out
  BY <1>2, <1>3 DEF TypeOK, WorkflowPcs
<1>5. TypeOK'
  BY <1>1, <1>2, <1>4 DEF TypeOK
<1>6. \A a \in Agents : Output(agents[a])' = Output(agents[a]) /\ Record(agents[a])' = Record(agents[a])
  BY <1>1 DEF Output, Record
<1> QED
  BY <1>1, <1>4, <1>5, <1>6 DEF StageInv

\* The invariant of the stage.
LEMMA StageInvHolds == Spec => []StageInv
<1>1. Init => StageInv
  <2> SUFFICES ASSUME Init PROVE StageInv
    OBVIOUS
  <2>1. 0 \in Outputs /\ NoRecord \in Records
    BY AttemptsArePositive DEF Outputs, NoRecord, Records, Codes
  <2>2. TypeOK
    BY <2>1 DEF Init, TypeOK, AgentTask, TaskPcs, WorkflowPcs
  <2>3. \A a \in Agents : agents[a].pc = "queued" /\ agents[a].output = 0
    BY DEF Init
  <2> QED
    BY <2>2, <2>3 DEF Init, StageInv, TaskIsSound, Cancelled
<1>2. StageInv /\ [Next]_vars => StageInv'
  <2> SUFFICES ASSUME StageInv, [Next]_vars PROVE StageInv'
    OBVIOUS
  <2>1. CASE UNCHANGED <<agents, workflow, package>> /\ clock' \in Nat
    BY <2>1 DEF StageInv, TypeOK, Output, Record
  <2>2. UNCHANGED vars \/ Tick => UNCHANGED <<agents, workflow, package>> /\ clock' \in Nat
    BY DEF vars, Tick, StageInv, TypeOK
  <2> QED
    BY <2>1, <2>2, AgentStepKeeps, StopWaitingKeeps, CollectKeeps, AssessRiskKeeps DEF Next
<1> QED
  BY <1>1, <1>2, PTL DEF Spec

-----------------------------------------------------------------------------
(* What follows. *)

\* Every reachable state of the stage is well typed; in particular no agent gets more attempts than
\* are configured. (_execute_agent_with_retry)
THEOREM AgentsAreTyped == Spec => []TypeOK
<1>1. StageInv => TypeOK
  BY DEF StageInv
<1> QED
  BY <1>1, StageInvHolds, PTL

\* No answer is lost: what an agent answered is returned with its record, whoever else failed, was
\* timed out or was cancelled. (SpecialistAgentOrchestrator.run)
THEOREM AnswersStay == Spec => []AnswersAreKept
<1>1. StageInv => AnswersAreKept
  <2> SUFFICES ASSUME StageInv, workflow.pc \in {"risk", "answered"}, NEW a \in Agents
               PROVE  /\ package.outputs[a] = agents[a].output
                      /\ package.outputs[a] # 0 <=> package.records[a].status = "completed"
                      /\ package.outputs[a] # 0 => package.records[a].attempts = package.outputs[a]
    BY DEF AnswersAreKept
  <2>1. /\ agents[a].pc \in {"returned", "cancelled"} /\ package.outputs[a] = Output(agents[a])
        /\ package.records[a] = Record(agents[a]) /\ TaskIsSound(agents[a])
    BY DEF StageInv
  <2> QED
    BY <2>1 DEF Output, Record, WorkflowTimeoutRecord, TaskIsSound, Completed, Final
<1> QED
  BY <1>1, StageInvHolds, PTL

\* Every analysis that is missing has a final record that says why. (_build_workflow_timeout_record,
\* _execute_agent_with_retry)
THEOREM GapsStayExplained == Spec => []GapsAreExplained
<1>1. StageInv => GapsAreExplained
  <2> SUFFICES ASSUME StageInv, workflow.pc \in {"risk", "answered"}, NEW a \in Agents,
                      package.outputs[a] = 0
               PROVE  LET record == package.records[a]
                      IN  /\ record.code # "none"
                          /\ ~record.retryable
                          /\ record.code = "workflow_timeout" <=> agents[a].pc = "cancelled"
                          /\ record.code = "workflow_timeout" => workflow.timed_out
                          /\ record.code = "agent_timeout" => record.attempts = Attempts
    BY DEF GapsAreExplained
  <2>1. /\ agents[a].pc \in {"returned", "cancelled"} /\ package.outputs[a] = Output(agents[a])
        /\ package.records[a] = Record(agents[a]) /\ TaskIsSound(agents[a])
        /\ agents[a].pc = "cancelled" => workflow.timed_out
    BY DEF StageInv, Cancelled
  <2>2. CASE agents[a].pc = "cancelled"
    BY <2>1, <2>2 DEF Record, WorkflowTimeoutRecord
  <2>3. CASE agents[a].pc = "returned"
    BY <2>1, <2>3 DEF Output, Record, TaskIsSound, Final
  <2> QED
    BY <2>1, <2>2, <2>3
<1> QED
  BY <1>1, StageInvHolds, PTL

-----------------------------------------------------------------------------
(* Division and multiplication of natural numbers. *)

LEMMA DivBounds ==
  ASSUME NEW a \in Nat, NEW m \in Nat \ {0}
  PROVE  a \div m \in Nat /\ m * (a \div m) <= a /\ a < m * (a \div m) + m
OBVIOUS

LEMMA TimesGrows ==
  ASSUME NEW x \in Nat, NEW y \in Nat, x <= y, NEW m \in Nat
  PROVE  x * m \in Nat /\ y * m \in Nat /\ x * m <= y * m
OBVIOUS

LEMMA TimesCancels ==
  ASSUME NEW x \in Nat, NEW y \in Nat, NEW m \in Nat \ {0}, m * x < m * y + m
  PROVE  x <= y
OBVIOUS

LEMMA DivGrows ==
  ASSUME NEW a \in Nat, NEW b \in Nat, a <= b, NEW m \in Nat \ {0}
  PROVE  a \div m <= b \div m
<1> DEFINE x == a \div m
           y == b \div m
<1>1. x \in Nat /\ y \in Nat /\ m * x <= a /\ b < m * y + m
  BY DivBounds
<1>2. m * x \in Nat /\ m * y \in Nat
  BY <1>1
<1> HIDE DEF x, y
<1>3. m * x < m * y + m
  BY <1>1, <1>2
<1> QED
  BY <1>1, <1>3, TimesCancels DEF x, y

LEMMA DivNext ==
  ASSUME NEW a \in Nat, NEW m \in Nat \ {0}
  PROVE  (a + m) \div m = a \div m + 1
<1> DEFINE x == (a + m) \div m
           y == a \div m
<1>1. /\ x \in Nat /\ y \in Nat /\ m * x <= a + m /\ a + m < m * x + m
      /\ m * y <= a /\ a < m * y + m
  BY DivBounds
<1>2. m * x \in Nat /\ m * y \in Nat /\ m * (y + 1) = m * y + m /\ m * (x + 1) = m * x + m
  BY <1>1
<1> HIDE DEF x, y
<1>3. m * x < m * (y + 1) + m /\ m * (y + 1) < m * x + m
  BY <1>1, <1>2
<1>4. x <= y + 1 /\ y + 1 <= x
  BY <1>1, <1>3, TimesCancels
<1> QED
  BY <1>1, <1>4 DEF x, y

\* A set of natural numbers that is not empty has a least element.
LEMMA LeastNumber ==
  ASSUME NEW T \in SUBSET Nat, T # {}
  PROVE  \E m \in T : \A n \in T : m <= n
<1>1. IsWellFoundedOn(OpToRel(<, Nat), Nat)
  BY NatLessThanWellFounded
<1>2. PICK m \in T : \A n \in T : ~(<<n, m>> \in OpToRel(<, Nat))
  BY <1>1, WFMin
<1>3. \A n \in T : ~(n < m)
  BY <1>2 DEF OpToRel
<1> QED
  BY <1>3

-----------------------------------------------------------------------------
(* Waves. *)

\* What an agent can take if every attempt of it times out.
Span == Attempts * AttemptTimeout

\* The i-th agent starts by the end of the wave before its own, and each of its attempts
\* ends one timeout later at the latest.
OnTime(t, i) ==
  /\ t.pc = "queued" => clock <= (Wave(i) - 1) * Span
  /\ t.pc = "running" => clock <= t.due /\ t.due <= (Wave(i) - 1) * Span + t.attempt * AttemptTimeout

\* Agents leave the queue in order, and none is left in it or at work once the wait is over.
WaveInv ==
  /\ workflow.pc # "waiting" => \A a \in Agents : agents[a].pc \notin {"queued", "running"}
  /\ \A i, j \in DOMAIN Order : i < j /\ agents[Order[i]].pc = "queued" => agents[Order[j]].pc = "queued"
  /\ \A i \in DOMAIN Order : OnTime(agents[Order[i]], i)

LEMMA SpanIsNatural == Span \in Nat /\ Span = Attempts * AttemptTimeout
BY ConfigIsValid, AttemptsArePositive DEF Span

LEMMA Places ==
  /\ DOMAIN Order = 1 .. Len(Order) /\ Len(Order) \in Nat
  /\ \A i \in DOMAIN Order : i \in Nat /\ i >= 1 /\ Order[i] \in Agents
  /\ \A a \in Agents : \E i \in DOMAIN Order : Order[i] = a
BY OrderIsOneToOne DEF Agents

\* Waves are numbered from 1 in the order of the agents; max_parallel_agents places
\* further on it is the next one.
LEMMA WavesFollow ==
  ASSUME NEW i \in Nat, i >= 1
  PROVE  /\ Wave(i) \in Nat /\ Wave(i) >= 1
         /\ \A j \in Nat : j >= i => Wave(i) <= Wave(j)
         /\ \A j \in Nat : j >= i + MaxParallel => Wave(i) <= Wave(j) - 1
<1> DEFINE m == MaxParallel
<1>1. m \in Nat \ {0}
  BY ConfigIsValid
<1> HIDE DEF m
<1>2. i + m - 1 \in Nat /\ (i - 1) + m = i + m - 1 /\ i - 1 \in Nat
  BY <1>1
<1>3. Wave(i) = (i + m - 1) \div m
  BY DEF Wave, m
<1>4. Wave(i) \in Nat
  BY <1>1, <1>2, <1>3, DivBounds
<1>5. Wave(i) >= 1
  <2>1. (i + m - 1) \div m = (i - 1) \div m + 1
    BY <1>1, <1>2, DivNext
  <2>2. (i - 1) \div m \in Nat
    BY <1>1, <1>2, DivBounds
  <2> QED
    BY <1>3, <2>1, <2>2
<1>6. ASSUME NEW j \in Nat, j >= i
      PROVE  Wave(i) <= Wave(j)
  <2>1. j + m - 1 \in Nat /\ i + m - 1 <= j + m - 1
    BY <1>1, <1>6
  <2> QED
    BY <1>1, <1>2, <2>1, DivGrows DEF Wave, m
<1>7. ASSUME NEW j \in Nat, j >= i + m
      PROVE  Wave(i) <= Wave(j) - 1
  <2>1. j - 1 \in Nat /\ i + m - 1 <= j - 1 /\ (j - 1) + m = j + m - 1
    BY <1>1, <1>7
  <2>2. (i + m - 1) \div m <= (j - 1) \div m /\ (j - 1) \div m \in Nat
    BY <1>1, <1>2, <2>1, DivGrows, DivBounds
  <2>3. (j + m - 1) \div m = (j - 1) \div m + 1
    <3>1. ((j - 1) + m) \div m = (j - 1) \div m + 1
      BY <1>1, <2>1, DivNext
    <3> QED
      BY <2>1, <3>1
  <2> QED
    BY <1>3, <2>2, <2>3 DEF Wave, m
<1> QED
  BY <1>4, <1>5, <1>6, <1>7 DEF m

\* By the time an agent may start, those a wave before it have ended.
LEMMA EarlierWaveEnds ==
  ASSUME NEW i \in Nat, i >= 1, NEW j \in Nat, j >= i + MaxParallel, NEW k \in Nat, k >= j
  PROVE  Wave(i) * Span <= (Wave(k) - 1) * Span /\ (Wave(k) - 1) * Span \in Nat
<1>1. Wave(i) \in Nat /\ Wave(i) <= Wave(j) - 1
  BY WavesFollow
<1>2. j >= 1
  BY ConfigIsValid
<1>3. Wave(j) \in Nat /\ Wave(j) <= Wave(k)
  BY <1>2, WavesFollow
<1>4. Wave(k) \in Nat
  BY <1>2, WavesFollow
<1>5. Wave(k) - 1 \in Nat /\ Wave(i) <= Wave(k) - 1
  BY <1>1, <1>3, <1>4
<1> QED
  BY <1>1, <1>5, TimesGrows, SpanIsNatural

\* An agent at work is done by the end of its wave.
LEMMA EndsInItsWave ==
  ASSUME NEW i \in Nat, i >= 1, NEW t \in AgentTask, t.pc = "running", OnTime(t, i)
  PROVE  t.due <= Wave(i) * Span
<1>1. Wave(i) \in Nat /\ Wave(i) >= 1
  BY WavesFollow
<1>2. t.attempt \in Nat /\ t.attempt <= Attempts
  BY AttemptsArePositive DEF AgentTask, Outputs
<1>3. t.attempt * AttemptTimeout <= Span /\ t.attempt * AttemptTimeout \in Nat
  BY <1>2, TimesGrows, AttemptsArePositive, ConfigIsValid DEF Span
<1>4. (Wave(i) - 1) * Span + Span = Wave(i) * Span /\ (Wave(i) - 1) * Span \in Nat /\ Span \in Nat
  BY <1>1, SpanIsNatural
<1>5. t.due <= (Wave(i) - 1) * Span + t.attempt * AttemptTimeout /\ t.due \in Nat
  BY DEF OnTime, AgentTask
<1> HIDE DEF Wave, Span
<1> QED
  BY <1>3, <1>4, <1>5

\* A waiting agent lets time pass only while agents of earlier waves hold every permit.
LEMMA QueueWaitsForEarlierWaves ==
  ASSUME StageInv, WaveInv, Tick, NEW i \in DOMAIN Order, agents[Order[i]].pc = "queued"
  PROVE  clock + 1 <= (Wave(i) - 1) * Span
<1> DEFINE Queued == {k \in DOMAIN Order : agents[Order[k]].pc = "queued"}
           Holders == {b \in Agents : HoldsPermit(agents[b])}
<1>1. PICK f \in Queued : \A k \in Queued : f <= k
  <2>1. Queued \in SUBSET Nat /\ Queued # {}
    BY Places
  <2> HIDE DEF Queued
  <2> QED
    BY <2>1, LeastNumber
<1>2. f \in DOMAIN Order /\ f \in Nat /\ f >= 1 /\ f <= i /\ i \in Nat /\ agents[Order[f]].pc = "queued"
  BY <1>1, Places
<1>3. \A a \in Agents : ~Cancelled(agents[a])
  <2>1. workflow.pc = "waiting"
    BY Places DEF WaveInv
  <2> QED
    BY <2>1 DEF StageInv
\* Who holds a permit is at work and comes before the first in the queue.
<1>4. \A b \in Holders : agents[b].pc = "running" /\ \E k \in DOMAIN Order : k < f /\ Order[k] = b
  <2> SUFFICES ASSUME NEW b \in Holders
               PROVE  agents[b].pc = "running" /\ \E k \in DOMAIN Order : k < f /\ Order[k] = b
    OBVIOUS
  <2>1. agents[b].pc = "running"
    BY <1>3 DEF HoldsPermit, Cancelled
  <2>2. PICK k \in DOMAIN Order : Order[k] = b
    BY Places
  <2>3. k \in Nat /\ k # f
    BY <1>2, <2>1, <2>2, Places
  <2>4. ~(f < k)
    BY <1>2, <2>1, <2>2 DEF WaveInv
  <2> QED
    BY <1>2, <2>1, <2>2, <2>3, <2>4
<1>5. ~(Cardinality(Holders) < MaxParallel)
  <2>1. \A b \in Agents : agents[b].pc = "queued" => ~Before(b, Order[f])
    <3> SUFFICES ASSUME NEW b \in Agents, agents[b].pc = "queued", NEW k \in DOMAIN Order, NEW j \in DOMAIN Order,
                        k < j, Order[k] = b, Order[j] = Order[f]
                 PROVE  FALSE
      BY DEF Before
    <3>1. j = f /\ k \in Queued
      BY <1>2, OrderIsOneToOne
    <3> QED
      BY <1>1, <1>2, <3>1, Places
  <2>2. ~MayAcquire(Order[f])
    BY <1>2, Places DEF Tick, Ready
  <2> QED
    BY <1>2, <2>1, <2>2, Places DEF MayAcquire
\* Fewer than max_parallel_agents places lie between the first in the queue and the wave before.
<1>6. PICK j \in DOMAIN Order : j + MaxParallel <= f /\ agents[Order[j]].pc = "running"
  <2> SUFFICES ASSUME \A j \in DOMAIN Order : agents[Order[j]].pc = "running" => ~(j + MaxParallel <= f)
               PROVE  FALSE
    OBVIOUS
  <2> DEFINE near  == {k \in DOMAIN Order : k < f /\ k + MaxParallel > f}
             place == [k \in near |-> Order[k]]
             named == {Order[k] : k \in near}
  <2>1. MaxParallel \in Nat \ {0}
    BY ConfigIsValid
  <2>2. near \subseteq (f - MaxParallel + 1) .. (f - 1)
    BY <1>2, <2>1, Places
  <2>3. /\ IsFiniteSet((f - MaxParallel + 1) .. (f - 1))
        /\ Cardinality((f - MaxParallel + 1) .. (f - 1)) < MaxParallel
        /\ Cardinality((f - MaxParallel + 1) .. (f - 1)) \in Nat
    <3> DEFINE lo == f - MaxParallel + 1
               hi == f - 1
    <3>1. lo \in Int /\ hi \in Int /\ hi - lo + 1 = MaxParallel - 1
      BY <1>2, <2>1
    <3> HIDE DEF lo, hi
    <3>2. IsFiniteSet(lo .. hi) /\ Cardinality(lo .. hi) = IF lo > hi THEN 0 ELSE hi - lo + 1
      BY <3>1, FS_Interval
    <3> QED
      BY <2>1, <3>1, <3>2 DEF lo, hi
  <2>4. IsFiniteSet(near) /\ Cardinality(near) < MaxParallel
    <3> HIDE DEF near
    <3>1. IsFiniteSet(near) /\ Cardinality(near) <= Cardinality((f - MaxParallel + 1) .. (f - 1))
      BY <2>2, <2>3, FS_Subset
    <3>2. Cardinality(near) \in Nat
      BY <3>1, FS_CardinalityType
    <3> QED
      BY <2>1, <2>3, <3>1, <3>2
  <2>5. Holders \subseteq named
    <3> SUFFICES ASSUME NEW b \in Holders
                 PROVE  b \in named
      OBVIOUS
    <3>1. PICK k \in DOMAIN Order : k < f /\ Order[k] = b /\ agents[b].pc = "running"
      BY <1>4
    <3>2. ~(k + MaxParallel <= f)
      BY <3>1
    <3>3. k \in near
      BY <1>2, <2>1, <3>1, <3>2, Places
    <3> QED
      BY <3>1, <3>3
  <2>6. place \in Surjection(near, named)
    BY DEF Surjection
  <2> HIDE DEF near, place, named, Holders
  <2>7. IsFiniteSet(named) /\ Cardinality(named) <= Cardinality(near)
    BY <2>4, <2>6, FS_Surjection
  <2>8. IsFiniteSet(Holders) /\ Cardinality(Holders) <= Cardinality(named)
    BY <2>5, <2>7, FS_Subset
  <2>9. Cardinality(Holders) \in Nat /\ Cardinality(named) \in Nat /\ Cardinality(near) \in Nat
    BY <2>4, <2>7, <2>8, FS_CardinalityType
  <2> QED
    BY <1>5, <2>1, <2>4, <2>7, <2>8, <2>9
<1>7. j \in Nat /\ j >= 1 /\ agents[Order[j]] \in AgentTask /\ OnTime(agents[Order[j]], j)
  BY Places DEF StageInv, TypeOK, WaveInv
<1>8. agents[Order[j]].due <= Wave(j) * Span /\ agents[Order[j]].due \in Nat
  BY <1>6, <1>7, EndsInItsWave DEF AgentTask
<1>9. clock < agents[Order[j]].due /\ clock \in Nat
  <2>1. ~Due(agents[Order[j]])
    BY Places DEF Tick, Ready
  <2> QED
    BY <1>6, <1>8, <2>1 DEF Due, StageInv, TypeOK
<1>10. Wave(j) * Span <= (Wave(i) - 1) * Span /\ (Wave(i) - 1) * Span \in Nat
  BY <1>2, <1>6, <1>7, EarlierWaveEnds, ConfigIsValid
<1>11. Wave(j) * Span \in Nat
  BY <1>7, WavesFollow, SpanIsNatural
<1> HIDE DEF Wave, Span
<1> QED
  BY <1>8, <1>9, <1>10, <1>11

\* A new attempt starts by the time the one before it was due.
LEMMA AttemptIsOnTime ==
  ASSUME TypeOK, NEW i \in Nat, i >= 1, NEW t \in AgentTask, NEW n \in Nat,
         clock <= (Wave(i) - 1) * Span + n * AttemptTimeout
  PROVE  OnTime(Attempt(t, n + 1), i)
<1>1. /\ Attempt(t, n + 1).pc = "running" /\ Attempt(t, n + 1).attempt = n + 1
      /\ Attempt(t, n + 1).due = clock + AttemptTimeout
  BY DEF Attempt, AgentTask
<1>2. (n + 1) * AttemptTimeout = n * AttemptTimeout + AttemptTimeout /\ n * AttemptTimeout \in Nat
  BY ConfigIsValid
<1>3. (Wave(i) - 1) * Span \in Nat
  <2>1. Wave(i) - 1 \in Nat
    BY WavesFollow
  <2> QED
    BY <2>1, SpanIsNatural
<1>4. clock \in Nat /\ AttemptTimeout \in Nat
  BY ConfigIsValid DEF TypeOK
<1> HIDE DEF Wave, Span
<1> QED
  BY <1>1, <1>2, <1>3, <1>4 DEF OnTime

\* A failed attempt leaves time for the next.
LEMMA FailureIsOnTime ==
  ASSUME TypeOK, NEW i \in Nat, i >= 1, NEW t \in AgentTask, t.pc = "running", OnTime(t, i),
         clock <= t.due,
         NEW status \in {"failed", "timed_out"}, NEW code \in Codes, NEW retryable \in BOOLEAN
  PROVE  LET next == AfterFailure(t, status, code, retryable)
         IN  OnTime(next, i) /\ next.pc # "queued"
<1> DEFINE record == Failure(t, status, code, retryable)
           failed == [t EXCEPT !.record = record]
           ended == [failed EXCEPT !.pc = "returned"]
<1>1. t.attempt \in Nat /\ t.attempt \in Outputs
  BY AttemptsArePositive DEF AgentTask, Outputs
<1>2. record \in Records
  BY <1>1 DEF Failure, Records
<1> HIDE DEF record
<1>3. failed \in AgentTask
  BY <1>2 DEF AgentTask
<1>4. CASE retryable /\ t.attempt < Attempts
  <2>1. AfterFailure(t, status, code, retryable) = Attempt(failed, t.attempt + 1)
    BY <1>4 DEF AfterFailure, record
  <2>2. clock <= (Wave(i) - 1) * Span + t.attempt * AttemptTimeout
    <3>1. t.due <= (Wave(i) - 1) * Span + t.attempt * AttemptTimeout /\ t.due \in Nat /\ clock \in Nat
      BY DEF OnTime, AgentTask, TypeOK
    <3>2. (Wave(i) - 1) * Span \in Int /\ t.attempt * AttemptTimeout \in Int
      <4>1. Wave(i) \in Nat /\ Wave(i) - 1 \in Int
        BY WavesFollow
      <4> QED
        BY <1>1, <4>1, SpanIsNatural, ConfigIsValid
    <3> HIDE DEF Wave, Span
    <3> QED
      BY <3>1, <3>2
  <2>3. Attempt(failed, t.attempt + 1).pc = "running"
    BY <1>3 DEF Attempt, AgentTask
  <2> HIDE DEF failed
  <2> QED
    BY <1>1, <1>3, <2>1, <2>2, <2>3, AttemptIsOnTime
<1>5. CASE ~(retryable /\ t.attempt < Attempts)
  <2>1. AfterFailure(t, status, code, retryable) = ended
    BY <1>5 DEF AfterFailure, record
  <2>2. ended.pc = "returned"
    BY <1>2 DEF AgentTask
  <2> HIDE DEF ended
  <2> QED
    BY <2>1, <2>2 DEF OnTime
<1> QED
  BY <1>4, <1>5

\* A task that moves on keeps the waves, if it leaves the queue in its turn and in time.
LEMMA MoveKeepsWaves ==
  ASSUME StageInv, WaveInv, NEW p \in DOMAIN Order, NEW t \in AgentTask,
         t.pc # "queued", OnTime(t, p),
         t.pc = "running" => agents[Order[p]].pc \in {"queued", "running"},
         agents[Order[p]].pc = "queued" => \A j \in DOMAIN Order : j < p => agents[Order[j]].pc # "queued",
         agents' = [agents EXCEPT ![Order[p]] = t], UNCHANGED <<workflow, package, clock>>
  PROVE  WaveInv'
<1>1. agents \in [Agents -> AgentTask]
  BY DEF StageInv, TypeOK
<1>2. \A k \in DOMAIN Order : agents'[Order[k]] = IF k = p THEN t ELSE agents[Order[k]]
  BY <1>1, Places, OrderIsOneToOne
<1>3. workflow'.pc # "waiting" => \A a \in Agents : agents'[a].pc \notin {"queued", "running"}
  BY <1>1, Places DEF WaveInv
<1>4. ASSUME NEW i \in DOMAIN Order, NEW j \in DOMAIN Order, i < j, agents'[Order[i]].pc = "queued"
      PROVE  agents'[Order[j]].pc = "queued"
  <2>1. i # p /\ agents[Order[i]].pc = "queued"
    BY <1>2, <1>4
  <2>2. agents[Order[j]].pc = "queued"
    BY <1>4, <2>1 DEF WaveInv
  <2>3. j # p
    BY <1>4, <2>1, <2>2
  <2> QED
    BY <1>2, <2>2, <2>3
<1>5. ASSUME NEW i \in DOMAIN Order
      PROVE  OnTime(agents[Order[i]], i)'
  <2>1. OnTime(agents[Order[i]], i)
    BY DEF WaveInv
  <2> HIDE DEF Wave, Span
  <2>2. CASE i = p
    BY <1>2, <2>2 DEF OnTime, Wave, Span
  <2>3. CASE i # p
    BY <1>2, <2>1, <2>3 DEF OnTime, Wave, Span
  <2> QED
    BY <2>2, <2>3
<1> QED
  BY <1>3, <1>4, <1>5 DEF WaveInv

LEMMA AgentStepKeepsWaves ==
  ASSUME StageInv, WaveInv, NEW a \in Agents, AgentStep(a)
  PROVE  WaveInv'
<1> DEFINE t == agents[a]
<1>1. PICK p \in DOMAIN Order : Order[p] = a
  BY Places
<1>2. p \in Nat /\ p >= 1 /\ TypeOK /\ t \in AgentTask /\ OnTime(t, p)
  BY <1>1, Places DEF StageInv, TypeOK, WaveInv
\* Whatever ends a task keeps the waves.
<1>3. ASSUME NEW next \in AgentTask, next.pc \notin {"queued", "running"}, t.pc # "queued",
             agents' = [agents EXCEPT ![a] = next], UNCHANGED <<workflow, package, clock>>
      PROVE  WaveInv'
  <2>1. OnTime(next, p)
    BY <1>3 DEF OnTime
  <2> QED
    BY <1>1, <1>3, <2>1, MoveKeepsWaves
\* So does an attempt that fails.
<1>4. ASSUME NEW status \in {"failed", "timed_out"}, NEW code \in Codes \ {"none", "workflow_timeout"},
             NEW retryable \in BOOLEAN, code = "agent_timeout" => retryable,
             t.pc = "running", agents' = [agents EXCEPT ![a] = AfterFailure(t, status, code, retryable)],
             UNCHANGED <<workflow, package, clock>>
      PROVE  WaveInv'
  <2> DEFINE next == AfterFailure(t, status, code, retryable)
  <2>1. TaskIsSound(t)
    BY DEF StageInv
  <2>2. next \in AgentTask
    BY <1>2, <1>4, <2>1, FailureIsSound
  <2>3. clock <= t.due
    BY <1>2, <1>4 DEF OnTime
  <2>4. code \in Codes
    OBVIOUS
  <2>5. OnTime(next, p) /\ next.pc # "queued"
    BY <1>2, <1>4, <2>3, <2>4, FailureIsOnTime
  <2> HIDE DEF next
  <2>6. agents' = [agents EXCEPT ![Order[p]] = next]
    BY <1>1, <1>4 DEF next
  <2> QED
    BY <1>1, <1>4, <2>2, <2>5, <2>6, MoveKeepsWaves
<1>5. CASE Acquire(a)
  <2> DEFINE next == Attempt(t, 1)
  <2>1. t.pc = "queued" /\ agents' = [agents EXCEPT ![a] = next] /\ UNCHANGED <<workflow, package, clock>>
        /\ \A b \in Agents : agents[b].pc = "queued" => ~Before(b, a)
    BY <1>5 DEF Acquire, MayAcquire
  <2>2. next \in AgentTask /\ next.pc = "running"
    <3>1. 1 \in Outputs /\ clock + AttemptTimeout \in Nat
      BY <1>2, AttemptsArePositive, ConfigIsValid DEF Outputs, TypeOK
    <3> QED
      BY <1>2, <3>1 DEF Attempt, AgentTask, TaskPcs
  <2>3. OnTime(next, p)
    <3>1. clock <= (Wave(p) - 1) * Span
      BY <1>2, <2>1 DEF OnTime
    <3>2. (Wave(p) - 1) * Span + 0 * AttemptTimeout = (Wave(p) - 1) * Span
      <4>1. (Wave(p) - 1) * Span \in Int
        <5>1. Wave(p) - 1 \in Int
          BY <1>2, WavesFollow
        <5> QED
          BY <5>1, SpanIsNatural
      <4> HIDE DEF Wave, Span
      <4> QED
        BY <4>1, ConfigIsValid
    <3>3. OnTime(Attempt(t, 0 + 1), p)
      BY <1>2, <3>1, <3>2, AttemptIsOnTime
    <3> QED
      BY <3>3
  <2>4. \A j \in DOMAIN Order : j < p => agents[Order[j]].pc # "queued"
    BY <1>1, <2>1, Places DEF Before
  <2> HIDE DEF next
  <2> QED
    BY <1>1, <2>1, <2>2, <2>3, <2>4, MoveKeepsWaves
<1>6. CASE Answer(a)
  <2>1. t.pc = "running" /\ agents' = [agents EXCEPT ![a] = Answered(t)] /\ UNCHANGED <<workflow, package, clock>>
    BY <1>6 DEF Answer
  <2>2. Answered(t) \in AgentTask /\ Answered(t).pc = "returned"
    <3>1. TaskIsSound(t) /\ Answered(t) \in AgentTask
      BY <1>2, <2>1, AnswerIsSound DEF StageInv
    <3> QED
      BY <1>2, <3>1 DEF Answered, AgentTask
  <2> QED
    BY <1>3, <2>1, <2>2
<1>7. CASE Fail(a)
  <2>1. PICK code \in Errors(a) :
          agents' = [agents EXCEPT ![a] = AfterFailure(t, "failed", code, code = "agent_model_failure")]
    BY <1>7 DEF Fail
  <2>2. t.pc = "running" /\ UNCHANGED <<workflow, package, clock>>
    BY <1>7 DEF Fail
  <2>3. code \in Codes \ {"none", "workflow_timeout"} /\ code # "agent_timeout"
    BY DEF Errors, Codes
  <2>4. (code = "agent_model_failure") \in BOOLEAN
    OBVIOUS
  <2> QED
    BY <1>4, <2>1, <2>2, <2>3, <2>4
<1>8. CASE TimeOut(a)
  <2>1. t.pc = "running" /\ agents' = [agents EXCEPT ![a] = AfterFailure(t, "timed_out", "agent_timeout", TRUE)]
        /\ UNCHANGED <<workflow, package, clock>>
    BY <1>8 DEF TimeOut, Due
  <2>2. "agent_timeout" \in Codes \ {"none", "workflow_timeout"}
    BY DEF Codes
  <2> QED
    BY <1>4, <2>1, <2>2
<1>9. CASE Raise(a)
  <2>1. t.pc = "running" /\ agents' = [agents EXCEPT ![a] = [t EXCEPT !.pc = "raised"]]
        /\ UNCHANGED <<workflow, package, clock>>
    BY <1>9 DEF Raise
  <2>2. [t EXCEPT !.pc = "raised"] \in AgentTask /\ [t EXCEPT !.pc = "raised"].pc = "raised"
    BY <1>2 DEF AgentTask, TaskPcs
  <2> QED
    BY <1>3, <2>1, <2>2
<1>10. CASE Stop(a)
  <2>1. t.pc = "cancelling" /\ agents' = [agents EXCEPT ![a] = [t EXCEPT !.pc = "cancelled"]]
        /\ UNCHANGED <<workflow, package, clock>>
    BY <1>10 DEF Stop
  <2>2. [t EXCEPT !.pc = "cancelled"] \in AgentTask /\ [t EXCEPT !.pc = "cancelled"].pc = "cancelled"
    BY <1>2 DEF AgentTask, TaskPcs
  <2> QED
    BY <1>3, <2>1, <2>2
<1> QED
  BY <1>5, <1>6, <1>7, <1>8, <1>9, <1>10 DEF AgentStep

\* Once the wait is over nobody is queued or at work.
LEMMA StopWaitingKeepsWaves ==
  ASSUME StageInv, StopWaiting
  PROVE  WaveInv'
<1>1. ASSUME NEW a \in Agents
      PROVE  agents'[a].pc \notin {"queued", "running"}
  <2>1. agents[a] \in AgentTask
    BY DEF StageInv, TypeOK
  <2>2. agents'[a] = IF a \in Pending THEN [agents[a] EXCEPT !.pc = "cancelling"] ELSE agents[a]
    BY DEF StopWaiting
  <2>3. CASE a \in Pending
    BY <2>1, <2>2, <2>3 DEF AgentTask
  <2>4. CASE a \notin Pending
    BY <2>2, <2>4 DEF Pending, Ended
  <2> QED
    BY <2>3, <2>4
<1>2. \A i \in DOMAIN Order : agents'[Order[i]].pc \notin {"queued", "running"}
  BY <1>1, Places
<1> QED
  BY <1>1, <1>2 DEF WaveInv, OnTime

\* Time passes only as far as every wave allows.
LEMMA TickKeepsWaves ==
  ASSUME StageInv, WaveInv, Tick
  PROVE  WaveInv'
<1>1. agents' = agents /\ workflow' = workflow /\ clock' = clock + 1
  BY DEF Tick
<1>2. ASSUME NEW i \in DOMAIN Order
      PROVE  OnTime(agents[Order[i]], i)'
  <2> DEFINE t == agents[Order[i]]
  <2>1. OnTime(t, i) /\ t \in AgentTask /\ clock \in Nat /\ Order[i] \in Agents
    BY Places DEF WaveInv, StageInv, TypeOK
  <2>2. t.pc = "running" => clock + 1 <= t.due
    <3>1. ~Due(t)
      BY <2>1 DEF Tick, Ready
    <3> QED
      BY <2>1, <3>1 DEF Due, AgentTask
  <2>3. t.pc = "queued" => clock + 1 <= (Wave(i) - 1) * Span
    BY QueueWaitsForEarlierWaves
  <2>4. t' = t
    BY <1>1
  <2> QED
    BY <1>1, <2>1, <2>2, <2>3, <2>4 DEF OnTime, Wave, Span
<1> QED
  BY <1>1, <1>2 DEF WaveInv

\* A run in which no attempt outlasts its timer keeps to its waves: every agent that is still
\* queued or at work is within its own, so a workflow timeout of as many waves as the agents
\* need cuts none short. (run_required, asyncio.Semaphore, wait_for)
THEOREM AgentsKeepTheirWaves == Spec => []EachInItsWave
<1>1. Init => WaveInv
  <2> SUFFICES ASSUME Init PROVE WaveInv
    OBVIOUS
  <2>1. \A a \in Agents : agents[a].pc = "queued"
    BY DEF Init
  <2>2. ASSUME NEW i \in DOMAIN Order
        PROVE  OnTime(agents[Order[i]], i)
    <3>1. agents[Order[i]].pc = "queued"
      BY <2>1, Places
    <3>2. Wave(i) - 1 \in Nat
      BY WavesFollow, Places
    <3>3. (Wave(i) - 1) * Span \in Nat
      BY <3>2, SpanIsNatural
    <3>4. clock = 0
      BY DEF Init
    <3> HIDE DEF Wave, Span
    <3> QED
      BY <3>1, <3>3, <3>4 DEF OnTime
  <2>3. workflow.pc = "waiting"
    BY DEF Init
  <2> QED
    BY <2>1, <2>2, <2>3, Places DEF WaveInv
<1>2. StageInv /\ WaveInv /\ [Next]_vars => WaveInv'
  <2> SUFFICES ASSUME StageInv, WaveInv, [Next]_vars PROVE WaveInv'
    OBVIOUS
  <2>1. CASE UNCHANGED <<agents, clock>> /\ (workflow'.pc = "waiting" <=> workflow.pc = "waiting")
    BY <2>1 DEF WaveInv, OnTime, Wave, Span
  <2>2. UNCHANGED vars \/ Collect \/ AssessRisk
        => UNCHANGED <<agents, clock>> /\ (workflow'.pc = "waiting" <=> workflow.pc = "waiting")
    <3>1. workflow \in [pc : WorkflowPcs, timed_out : BOOLEAN]
      BY DEF StageInv, TypeOK
    <3>2. CASE UNCHANGED vars
      BY <3>2 DEF vars
    <3>3. CASE Collect
      BY <3>1, <3>3 DEF Collect
    <3>4. CASE AssessRisk
      BY <3>1, <3>4 DEF AssessRisk
    <3> QED
      BY <3>2, <3>3, <3>4
  <2> QED
    BY <2>1, <2>2, AgentStepKeepsWaves, StopWaitingKeepsWaves, TickKeepsWaves DEF Next
<1>3. StageInv /\ WaveInv => EachInItsWave
  <2> SUFFICES ASSUME StageInv, WaveInv, NEW i \in DOMAIN Order,
                      agents[Order[i]].pc \in {"queued", "running"}
               PROVE  clock <= Wave(i) * Attempts * AttemptTimeout
    BY DEF EachInItsWave
  <2> DEFINE t == agents[Order[i]]
  <2>1. i \in Nat /\ i >= 1 /\ t \in AgentTask /\ OnTime(t, i) /\ clock \in Nat
    BY Places DEF StageInv, TypeOK, WaveInv
  <2>2. Wave(i) \in Nat /\ Wave(i) >= 1
    BY <2>1, WavesFollow
  <2>3. Wave(i) * Attempts * AttemptTimeout = Wave(i) * Span
    <3> DEFINE w == Wave(i)
    <3>1. w \in Nat /\ Attempts \in Nat /\ AttemptTimeout \in Nat
      BY <2>2, AttemptsArePositive, ConfigIsValid
    <3> HIDE DEF w
    <3>2. w * Attempts * AttemptTimeout = w * (Attempts * AttemptTimeout)
      BY <3>1
    <3> QED
      BY <3>2 DEF w, Span
  <2>4. Wave(i) * Span \in Nat /\ (Wave(i) - 1) * Span \in Nat /\ (Wave(i) - 1) * Span <= Wave(i) * Span
    <3>1. Wave(i) - 1 \in Nat /\ Wave(i) - 1 <= Wave(i)
      BY <2>2
    <3> QED
      BY <2>2, <3>1, TimesGrows, SpanIsNatural
  <2>5. CASE t.pc = "queued"
    <3>1. clock <= (Wave(i) - 1) * Span
      BY <2>1, <2>5 DEF OnTime
    <3> HIDE DEF Wave, Span
    <3> QED
      BY <2>1, <2>3, <2>4, <3>1
  <2>6. CASE t.pc = "running"
    <3>1. clock <= t.due /\ t.due \in Nat
      BY <2>1, <2>6 DEF OnTime, AgentTask
    <3>2. t.due <= Wave(i) * Span
      BY <2>1, <2>6, EndsInItsWave
    <3> HIDE DEF Wave, Span
    <3> QED
      BY <2>1, <2>3, <2>4, <3>1, <3>2
  <2> QED
    BY <2>5, <2>6
<1> QED
  BY <1>1, <1>2, <1>3, StageInvHolds, PTL DEF Spec
===============================================================================

------------------------------ MODULE AgentWorkflow ------------------------------
(***************************************************************************)
(* The agent_research stage: four specialist agents run as asyncio tasks   *)
(* behind a semaphore, each with retries and a timeout per attempt, all of *)
(* them under one workflow timeout; then the property risk agent, which    *)
(* needs what the four found.                                              *)
(*                                                                         *)
(* Time is discrete.  Timers fire when due and ready callbacks run before  *)
(* time passes (Tick), as on an event loop whose callbacks are short next  *)
(* to the timeouts.  An agent that is called may answer at once, later or  *)
(* never.                                                                  *)
(***************************************************************************)
EXTENDS Naturals, Sequences, FiniteSets

CONSTANTS
  Order,             \* the specialist agents, in the order of task_specs
  Supplied,          \* those whose input the request holds; the others cannot be called
  MaxParallel,       \* max_parallel_agents
  RetryAttempts,     \* retry_attempts
  AttemptTimeout,    \* timeout_seconds, in ticks
  WorkflowTimeout    \* workflow_timeout_seconds, in ticks

Agents == {Order[i] : i \in DOMAIN Order}

\* What the validators of AgentRuntimeConfig let through.
ASSUME ConfigIsValid ==
  /\ MaxParallel \in Nat \ {0}
  /\ RetryAttempts \in Nat
  /\ AttemptTimeout \in Nat \ {0}
  /\ WorkflowTimeout \in Nat \ {0}

ASSUME OrderIsOneToOne ==
  /\ Order \in Seq(Agents)
  /\ \A i, j \in DOMAIN Order : Order[i] = Order[j] => i = j
  /\ Supplied \subseteq Agents

VARIABLES
  agents,     \* per agent, its task: point reached, attempt, timer, output, last record
  workflow,   \* run(): point reached, and whether the workflow timed out
  package,    \* what is returned: per agent its analysis and its record, and the risk analysis
  clock

vars == <<agents, workflow, package, clock>>

-----------------------------------------------------------------------------

Attempts == RetryAttempts + 1

\* An analysis is known by the attempt that gave it; 0 is None.
Outputs == 0 .. Attempts

Codes == {"none", "agent_timeout", "agent_model_failure", "agent_guardrail_failure", "missing_agent_input",
          "workflow_timeout"}

Records == [status : {"none", "completed", "failed", "timed_out"}, attempts : Outputs, code : Codes,
            retryable : BOOLEAN]

NoRecord == [status |-> "none", attempts |-> 0, code |-> "none", retryable |-> FALSE]

\* The task waits for the semaphore, runs an attempt, has returned, has raised, was
\* told to stop, has stopped.
TaskPcs == {"queued", "running", "returned", "raised", "cancelling", "cancelled"}

AgentTask == [pc : TaskPcs, attempt : Outputs, due : Nat, output : Outputs, record : Records]

WorkflowPcs == {"waiting", "gathering", "risk", "answered", "raised"}

TypeOK ==
  /\ agents \in [Agents -> AgentTask]
  /\ workflow \in [pc : WorkflowPcs, timed_out : BOOLEAN]
  /\ package \in [outputs : [Agents -> Outputs], records : [Agents -> Records], risk : BOOLEAN]
  /\ clock \in Nat

-----------------------------------------------------------------------------
(* run_required and _execute_agent_with_retry.                             *)

Before(b, a) == \E i, j \in DOMAIN Order : i < j /\ Order[i] = b /\ Order[j] = a

\* A task holds a permit for all its attempts, until it ends, cancelled or not.
HoldsPermit(t) == t.pc \in {"running", "cancelling"} /\ t.attempt > 0

\* asyncio.Semaphore wakes its waiters in the order in which they came.
MayAcquire(a) ==
  /\ agents[a].pc = "queued"
  /\ \A b \in Agents : agents[b].pc = "queued" => ~Before(b, a)
  /\ Cardinality({b \in Agents : HoldsPermit(agents[b])}) < MaxParallel

Attempt(t, n) == [t EXCEPT !.pc = "running", !.attempt = n, !.due = clock + AttemptTimeout]

Acquire(a) ==
  /\ MayAcquire(a)
  /\ agents' = [agents EXCEPT ![a] = Attempt(@, 1)]
  /\ UNCHANGED <<workflow, package, clock>>

Answered(t) ==
  [t EXCEPT !.pc = "returned", !.output = t.attempt,
            !.record = [status |-> "completed", attempts |-> t.attempt, code |-> "none", retryable |-> FALSE]]

\* The agent answers and its output passes the guardrails.
Answer(a) ==
  /\ agents[a].pc = "running"
  /\ a \in Supplied
  /\ agents' = [agents EXCEPT ![a] = Answered(@)]
  /\ UNCHANGED <<workflow, package, clock>>

\* attempt <= attempts where the code has attempt < attempts.
FailureOffByOne(t, status, code, retryable) ==
  [status |-> status, attempts |-> t.attempt, code |-> code, retryable |-> retryable /\ t.attempt <= Attempts]

Failure(t, status, code, retryable) ==
  [status |-> status, attempts |-> t.attempt, code |-> code, retryable |-> retryable /\ t.attempt < Attempts]

\* range(attempts + 1) where the code has range(1, attempts + 1).
AfterFailureOffByOne(t, status, code, retryable) ==
  LET failed == [t EXCEPT !.record = Failure(t, status, code, retryable)]
  IN  IF retryable /\ t.attempt <= Attempts THEN Attempt(failed, t.attempt + 1)
      ELSE [failed EXCEPT !.pc = "returned"]

\* The loop over attempts goes on while the error is retryable and an attempt is left.
AfterFailure(t, status, code, retryable) ==
  LET failed == [t EXCEPT !.record = Failure(t, status, code, retryable)]
  IN  IF retryable /\ t.attempt < Attempts THEN Attempt(failed, t.attempt + 1)
      ELSE [failed EXCEPT !.pc = "returned"]

\* run_with_record raises: no input, a guardrail, or anything else as a model failure,
\* which alone is retryable.
Errors(a) ==
  IF a \in Supplied THEN {"agent_model_failure", "agent_guardrail_failure"} ELSE {"missing_agent_input"}

Fail(a) ==
  /\ agents[a].pc = "running"
  /\ \E code \in Errors(a) :
       agents' = [agents EXCEPT ![a] = AfterFailure(@, "failed", code, code = "agent_model_failure")]
  /\ UNCHANGED <<workflow, package, clock>>

Due(t) == t.pc = "running" /\ clock >= t.due

\* The timer of wait_for. An answer that comes in the same instant may win or lose.
TimeOut(a) ==
  /\ Due(agents[a])
  /\ agents' = [agents EXCEPT ![a] = AfterFailure(@, "timed_out", "agent_timeout", TRUE)]
  /\ UNCHANGED <<workflow, package, clock>>

\* An exception that is no AgentResearchError, from the preparation before the try block.
Raise(a) ==
  /\ agents[a].pc = "running"
  /\ agents' = [agents EXCEPT ![a].pc = "raised"]
  /\ UNCHANGED <<workflow, package, clock>>

\* A task that shields its call from cancellation stops only if it has not called yet.
StopShielded(a) ==
  /\ agents[a].pc = "cancelling"
  /\ agents[a].attempt = 0
  /\ agents' = [agents EXCEPT ![a].pc = "cancelled"]
  /\ UNCHANGED <<workflow, package, clock>>

\* The task receives its CancelledError, which nothing in it catches.
Stop(a) ==
  /\ agents[a].pc = "cancelling"
  /\ agents' = [agents EXCEPT ![a].pc = "cancelled"]
  /\ UNCHANGED <<workflow, package, clock>>

-----------------------------------------------------------------------------
(* SpecialistAgentOrchestrator.run and the risk agent of the synthesis.    *)

Ended(t) == t.pc \in {"returned", "raised"}

Pending == {a \in Agents : ~Ended(agents[a])}

WaitIsOver == Pending = {} \/ clock >= WorkflowTimeout

\* asyncio.wait returns; what is still pending is cancelled and awaited.
StopWaiting ==
  /\ workflow.pc = "waiting"
  /\ WaitIsOver
  /\ workflow' = [pc |-> "gathering", timed_out |-> Pending # {}]
  /\ agents' = [a \in Agents |-> IF a \in Pending THEN [agents[a] EXCEPT !.pc = "cancelling"] ELSE agents[a]]
  /\ UNCHANGED <<package, clock>>

\* The default attempt_count of a record is 1, whatever the task had reached.
WorkflowTimeoutRecord ==
  [status |-> "timed_out", attempts |-> 1, code |-> "workflow_timeout", retryable |-> FALSE]

Record(t) == IF t.pc = "returned" THEN t.record ELSE WorkflowTimeoutRecord

\* A workflow that times out as a whole.
OutputInTime(t) == IF t.pc = "returned" /\ ~workflow.timed_out THEN t.output ELSE 0

Output(t) == IF t.pc = "returned" THEN t.output ELSE 0

\* gather(*pending): the tasks that were pending have stopped.
Gathered == \A a \in Agents : agents[a].pc \in {"returned", "raised", "cancelled"}

AllFound == \A a \in Agents : Output(agents[a]) # 0

\* task.result() of one that raised raises again and takes the whole stage with it.
Collect ==
  /\ workflow.pc = "gathering"
  /\ Gathered
  /\ IF \E a \in Agents : agents[a].pc = "raised"
     THEN workflow' = [workflow EXCEPT !.pc = "raised"] /\ UNCHANGED package
     ELSE /\ package' = [package EXCEPT !.outputs = [a \in Agents |-> Output(agents[a])],
                                        !.records = [a \in Agents |-> Record(agents[a])]]
          /\ workflow' = [workflow EXCEPT !.pc = IF AllFound THEN "risk" ELSE "answered"]
  /\ UNCHANGED <<agents, clock>>

\* The risk agent answers, fails (a warning of the package), or its input, which is built
\* outside the try block, does. It has one attempt and no timeout of its own.
AssessRisk ==
  /\ workflow.pc = "risk"
  /\ \/ /\ workflow' = [workflow EXCEPT !.pc = "answered"]
        /\ \E found \in BOOLEAN : package' = [package EXCEPT !.risk = found]
     \/ /\ workflow' = [workflow EXCEPT !.pc = "raised"]
        /\ UNCHANGED package
  /\ UNCHANGED <<agents, clock>>

-----------------------------------------------------------------------------

\* Something the event loop runs before it sleeps until the next timer.
Ready ==
  \/ \E a \in Agents : MayAcquire(a) \/ Due(agents[a]) \/ agents[a].pc = "cancelling"
  \/ workflow.pc = "waiting" /\ WaitIsOver
  \/ workflow.pc = "gathering" /\ Gathered

\* Time passes while something is waited for. The risk agent is awaited without a timer.
Tick ==
  /\ ~Ready
  /\ workflow.pc \in {"waiting", "gathering"}
  /\ clock' = clock + 1
  /\ UNCHANGED <<agents, workflow, package>>

Init ==
  /\ agents = [a \in Agents |-> [pc |-> "queued", attempt |-> 0, due |-> 0, output |-> 0, record |-> NoRecord]]
  /\ workflow = [pc |-> "waiting", timed_out |-> FALSE]
  /\ package = [outputs |-> [a \in Agents |-> 0], records |-> [a \in Agents |-> NoRecord], risk |-> FALSE]
  /\ clock = 0

AgentStep(a) == Acquire(a) \/ Answer(a) \/ Fail(a) \/ TimeOut(a) \/ Raise(a) \/ Stop(a)

Next == (\E a \in Agents : AgentStep(a)) \/ StopWaiting \/ Collect \/ AssessRisk \/ Tick

Spec == Init /\ [][Next]_vars

\* Timers fire, ready callbacks run and time passes. An agent that was called need never
\* answer. The risk call ends: its HTTP client has a timeout, the workflow has none.
Fairness ==
  /\ \A a \in Agents : WF_vars(Acquire(a) \/ TimeOut(a) \/ Stop(a))
  /\ WF_vars(StopWaiting \/ Collect)
  /\ WF_vars(AssessRisk)
  /\ WF_vars(Tick)

FairSpec == Spec /\ Fairness

-----------------------------------------------------------------------------
(* What the stage is meant to guarantee.                                   *)

\* What an agent answered before the workflow gave up is in the package with its record,
\* also when others failed, were timed out or were cancelled; nothing else is.
AnswersAreKept ==
  workflow.pc \in {"risk", "answered"} => \A a \in Agents :
    /\ package.outputs[a] = agents[a].output
    /\ package.outputs[a] # 0 <=> package.records[a].status = "completed"
    /\ package.outputs[a] # 0 => package.records[a].attempts = package.outputs[a]

\* An analysis that is missing is explained by a final record: an error code, no retry
\* left to ask for, and the workflow timeout blamed only if it struck.
GapsAreExplained ==
  workflow.pc \in {"risk", "answered"} => \A a \in Agents :
    LET record == package.records[a]
    IN  package.outputs[a] = 0 =>
          /\ record.code # "none"
          /\ ~record.retryable
          /\ record.code = "workflow_timeout" <=> agents[a].pc = "cancelled"
          /\ record.code = "workflow_timeout" => workflow.timed_out
          /\ record.code = "agent_timeout" => record.attempts = Attempts

\* The agents start in waves of max_parallel_agents: the i-th has used up its attempts
\* by the end of its wave, so a workflow timeout of ceil(4 / max_parallel_agents) *
\* (retry_attempts + 1) * timeout_seconds cuts no agent short. 90 seconds is more than
\* the 60 that the defaults need.
Wave(i) == (i + MaxParallel - 1) \div MaxParallel

EachInItsWave ==
  \A i \in DOMAIN Order :
    agents[Order[i]].pc \in {"queued", "running"} => clock <= Wave(i) * Attempts * AttemptTimeout

\* The stage ends, although no specialist need answer.
WorkflowEnds == <>(workflow.pc \in {"answered", "raised"})

\* README: full agent output after completion. If no call failed and no timeout struck,
\* every analysis should be there.
AgentOutputIsFull ==
  workflow.pc = "answered" /\ (\A a \in Agents : package.records[a].code \in {"none", "missing_agent_input"})
  => \A a \in Agents : package.outputs[a] # 0

===============================================================================

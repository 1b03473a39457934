-------------------------- MODULE InvestmentDecision --------------------------
(***************************************************************************)
(* One investment decision: underwriting finds the maximum offer, then the *)
(* committee's model is asked under wait_for, its drafts are validated and *)
(* its label is brought within the policy (InvestmentCommitteeService).    *)
(* The model may answer anything, fail, or not answer.                     *)
(***************************************************************************)
EXTENDS CommitteePolicy

CONSTANTS
  Dossiers,       \* what agent research and scenarios may have found
  Confidences,    \* confidences a draft may claim
  RetryAttempts   \* config.retry_attempts

ASSUME DossiersAreDossiers == Dossiers \subseteq Dossier /\ Confidences \subseteq 0 .. 100

ASSUME RetriesAreBounded == RetryAttempts \in Nat

VARIABLES
  dossier,    \* None until the committee convenes
  committee,  \* the run of the service
  output      \* what it returned, None if nothing

vars == <<offerVars, dossier, committee, output>>

Attempts == RetryAttempts + 1

Errors == {"committee_timeout", "committee_model_failure", "rejected"}

ASSUME NoneIsNoError == None \notin Errors

Output == [label : Labels, confidence : 0 .. 100, low : Nat \cup {None},
           high : Nat \cup {None}, retry_count : 0 .. RetryAttempts]

TypeOK ==
  /\ OfferTypeOK
  /\ dossier \in Dossiers \cup {None}
  /\ committee \in [pc : {"waiting", "running", "returned", "failed"}, attempt : 0 .. RetryAttempts,
                    failures : Seq({"timeout", "error"}), error : Errors \cup {None}]
  /\ output \in Output \cup {None}

Init ==
  /\ OfferInit
  /\ dossier = None
  /\ committee = [pc |-> "waiting", attempt |-> 0, failures |-> <<>>, error |-> None]
  /\ output = None

\* Underwriting, a synchronous computation.
Underwrite == OfferNext /\ UNCHANGED <<dossier, committee, output>>

\* build_committee_model_input fixes the policy before the first attempt.
Convene ==
  /\ underwriting = "done"
  /\ committee.pc = "waiting"
  /\ committee' = [committee EXCEPT !.pc = "running"]
  /\ dossier' \in Dossiers
  /\ UNCHANGED <<offerVars, output>>

Drafts == {draft \in [label : Labels, confidence : Confidences, low : Available \cup Prices \cup {None},
                      high : Available \cup Prices \cup {None}, flaw : Flaws] : WellFormed(draft)}

\* A draft that does not pass ends the run: InvestmentCommitteeError is raised at once.
Rejected(c) == [c EXCEPT !.pc = "failed", !.error = "rejected"]

Respond ==
  /\ committee.pc = "running"
  /\ \E draft \in Drafts :
       \/ /\ Accepted(draft, dossier)
          /\ committee' = [committee EXCEPT !.pc = "returned"]
          /\ output' = [label |-> Enforced(draft.label, dossier), confidence |-> draft.confidence,
                        low |-> draft.low, high |-> draft.high, retry_count |-> committee.attempt]
       \/ /\ ~Accepted(draft, dossier)
          /\ committee' = Rejected(committee)
          /\ UNCHANGED output
  /\ UNCHANGED <<offerVars, dossier>>

\* final_output_as fails: InvalidCommitteeStructuredOutputError, not retried either.
Garble ==
  /\ committee.pc = "running"
  /\ committee' = Rejected(committee)
  /\ UNCHANGED <<offerVars, dossier, output>>

ErrorOf == [timeout |-> "committee_timeout", error |-> "committee_model_failure"]

\* One attempt more than the configuration allows.
AfterFailureOnceMore(c, kind) ==
  LET failures == Append(c.failures, kind)
  IN  IF c.attempt <= RetryAttempts THEN [c EXCEPT !.attempt = @ + 1, !.failures = failures]
      ELSE [c EXCEPT !.pc = "failed", !.failures = failures, !.error = ErrorOf[kind]]

\* The first failure is the one that is raised in the end.
AfterFailureFirst(c, kind) ==
  LET failures == Append(c.failures, kind)
  IN  IF c.attempt < RetryAttempts THEN [c EXCEPT !.attempt = @ + 1, !.failures = failures]
      ELSE [c EXCEPT !.pc = "failed", !.failures = failures, !.error = ErrorOf[failures[1]]]

\* The next attempt, or the error of this one if it was the last.
AfterFailure(c, kind) ==
  LET failures == Append(c.failures, kind)
  IN  IF c.attempt < RetryAttempts THEN [c EXCEPT !.attempt = @ + 1, !.failures = failures]
      ELSE [c EXCEPT !.pc = "failed", !.failures = failures, !.error = ErrorOf[kind]]

\* wait_for gives up and cancels the call, or the SDK raises.
TimeOut ==
  /\ committee.pc = "running"
  /\ committee' = AfterFailure(committee, "timeout")
  /\ UNCHANGED <<offerVars, dossier, output>>

ModelFails ==
  /\ committee.pc = "running"
  /\ committee' = AfterFailure(committee, "error")
  /\ UNCHANGED <<offerVars, dossier, output>>

Next == Underwrite \/ Convene \/ Respond \/ Garble \/ TimeOut \/ ModelFails

Spec == Init /\ [][Next]_vars

===============================================================================

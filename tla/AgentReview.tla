------------------------------ MODULE AgentReview ------------------------------
(***************************************************************************)
(* POST /agent-research/run, seen from what is said in it: comparables are *)
(* selected, four agents answer and are held to the evidence, their        *)
(* disagreements are analysed, the risk agent is asked if all four are     *)
(* there, and the package is put together (UnifiedSynthesisService.run).   *)
(* When the agents run and for how long is AgentWorkflow's; here they are  *)
(* heard in the order in which the synthesis reads them.                   *)
(***************************************************************************)
EXTENDS ConflictAnalysis

CONSTANTS
  Limit,                   \* of comparables
  Selections,              \* subjects and what a provider may find for them
  Statuses,                \* of rentals that are wanted
  Contexts,                \* what there is to cite
  SalesResult,             \* the sources and citations of a selection
  FieldFacts,              \* what is known of the fields
  Answers                  \* per agent, what it may answer

Comps == INSTANCE ComparableSelection

Risk == "property_risk"

\* What the output models of the agents let through: lists, confidences within 0 and 1, one of the
\* three materialities, and in a conflict as many sources as claims.
ASSUME AnswersAreOutputs ==
  \A a \in Specialists \cup {Risk} : \A answer \in Answers[a] :
    /\ \A part \in {"findings", "conflicts", "risks", "questions"} :
         part \in DOMAIN answer /\ answer[part] \in Seq(ToSet(answer[part]))
    /\ "confidence" \in DOMAIN answer /\ answer.confidence \in 0 .. 100
    /\ \A f \in ToSet(answer.findings) : {"id", "text", "evidence"} \subseteq DOMAIN f
    /\ \A r \in ToSet(answer.risks) : "evidence" \in DOMAIN r
    /\ \A c \in ToSet(answer.conflicts) :
         c.materiality \in DOMAIN Penalty /\ DOMAIN c.values = DOMAIN c.sources

\* What is known of a field: from each of its three places nothing, or a value and how sure it is.
ASSUME FactsAreFacts ==
  \A known \in FieldFacts : \A n \in DOMAIN FieldSpecs :
    LET fact == known[FieldSpecs[n].field]
    IN  /\ fact.verified # None => fact.verified.confidence \in (0 .. 100) \cup {None}
        /\ fact.listing # None => fact.listing.confidence \in (0 .. 100) \cup {None}
        /\ fact.public # None =>
             fact.public.confidence \in 0 .. 100 /\ fact.public.government \in BOOLEAN

\* Per domain nothing, or a result with its sources and its citations.
Citable(result) ==
  /\ result.sources \in Seq(ToSet(result.sources))
  /\ result.citations \in Seq([key : {c.key : c \in ToSet(result.citations)}, noted : BOOLEAN])

Readable(known) ==
  /\ "research" \in DOMAIN known /\ DOMAIN known.research = Domains
  /\ \A d \in Domains : known.research[d] = None \/ Citable(known.research[d])

ASSUME ContextsAreReadable == Citable(SalesResult) /\ \A known \in Contexts : Readable(known)

\* A trait is a number or unknown; the subject is at distance 0 of itself.
ASSUME SelectionsAreTyped ==
  /\ Limit \in Nat
  /\ \A s \in Selections :
       /\ \A t \in Comps!Traits : s.subject[t] \in Nat \cup {None}
       /\ s.candidates \in Seq(ToSet(s.candidates))
       /\ \A c \in ToSet(s.candidates), t \in Comps!Traits : c[t] \in Nat \cup {None}

VARIABLES
  stage,      \* what is awaited
  selection,  \* the subject, the candidates and the selection, while they are looked at
  context,    \* what there is to cite
  facts,      \* what is known of the fields
  outputs,    \* per agent that was heard, its answer as it was accepted, or None
  package     \* what is returned

vars == <<stage, selection, context, facts, outputs, package>>

Init ==
  /\ stage = "research"
  /\ selection = None
  /\ context \in Contexts
  /\ facts \in FieldFacts
  /\ outputs = <<>>
  /\ package = None

\* The domain of sales comparables. Where the selection raises there is none in the package.
SelectComparables ==
  /\ stage = "research"
  /\ \E s \in Selections :
       LET selected == Comps!FilterAndRank(s.subject, s.candidates, Statuses)
       IN  /\ selection' = [subject |-> s.subject, candidates |-> s.candidates, selected |-> selected]
           /\ context' = [context EXCEPT !.research["sales_comps"] =
                            IF selected = None THEN None ELSE SalesResult]
  /\ stage' = "selected"
  /\ UNCHANGED <<facts, outputs, package>>

\* Of the selection, only what can be cited of it is of interest to what follows.
HandOver ==
  /\ stage = "selected"
  /\ stage' = "agents"
  /\ selection' = None
  /\ UNCHANGED <<context, facts, outputs, package>>

Heard == DOMAIN outputs

Speaker == AgentOrder[Cardinality(Heard \cap Specialists) + 1]

\* run_with_record: an answer that is refused fails the agent, like a call that fails.
Hears(agent) ==
  \/ \E answer \in Answers[agent] :
       outputs' = Put(outputs, agent, IF Accepted(agent, answer, BuildIndex(context))
                                      THEN Capped(answer) ELSE None)
  \/ outputs' = Put(outputs, agent, None)

HearSpecialist ==
  /\ stage = "agents"
  /\ Specialists \ Heard # {}
  /\ Hears(Speaker)
  /\ UNCHANGED <<stage, selection, context, facts, package>>

AllThere == \A a \in Specialists : outputs[a] # None

\* Only with all four analyses: an agent's failure skips the conflicts as well as the risks.
HearRisk ==
  /\ stage = "agents"
  /\ Specialists \subseteq Heard
  /\ AllThere
  /\ Hears(Risk)
  /\ stage' = "synthesis"
  /\ UNCHANGED <<selection, context, facts, package>>

SkipRisk ==
  /\ stage = "agents"
  /\ Specialists \subseteq Heard
  /\ ~AllThere
  /\ outputs' = Put(outputs, Risk, None)
  /\ stage' = "synthesis"
  /\ UNCHANGED <<selection, context, facts, package>>

-----------------------------------------------------------------------------
(* The package. *)

ReadOrder == AgentOrder \o <<Risk>>

\* The findings of all whose answers are there, in the order in which they are read.
AllFindings ==
  FlattenSeq([i \in DOMAIN ReadOrder |->
    IF outputs[ReadOrder[i]] = None THEN <<>> ELSE outputs[ReadOrder[i]].findings])

\* Without all four there is no analysis, and a confidence of 40 percent.
Analysis ==
  IF AllThere THEN AnalyzeConflicts(facts, outputs)
  ELSE [conflicts |-> <<>>, groups |-> {}, adjusted |-> <<>>, overall |-> 160, warnings |-> {}]

\* _consolidate_findings: duplicates are left out by their ids, and an id counts once.
Consolidated(groups) ==
  LET duplicates == UNION {g.duplicates : g \in groups}
      all == AllFindings
      kept == {i \in DOMAIN all : all[i].id \notin duplicates
                                  /\ \A k \in 1 .. i - 1 : all[k].id # all[i].id}
  IN  {all[i] : i \in kept}

\* _group_relationships: what two findings or more are about.
Relationships(findings) ==
  LET about(topic) == {f \in findings : topic \in f.topics}
  IN  {[topic |-> topic, findings |-> {f.id : f \in about(topic)}] :
         topic \in {t \in UNION {f.topics : f \in findings} : Cardinality(about(t)) >= 2}}

References(items) == UNION {ToSet(items[i].evidence) : i \in DOMAIN items}

\* _collect_evidence_index.
Cited(findings) ==
  (UNION {ToSet(f.evidence) : f \in findings}) \cup
  IF outputs[Risk] = None THEN {} ELSE References(outputs[Risk].risks) \cup References(outputs[Risk].questions)

RiskWarnings ==
  IF ~AllThere THEN {"risk_agent_skipped_missing_upstream_agents"}
  ELSE IF outputs[Risk] = None THEN {"risk_agent_failed"} ELSE {}

Package ==
  LET analysis == Analysis
      findings == Consolidated(analysis.groups)
  IN  [findings |-> findings, relationships |-> Relationships(findings),
       conflicts |-> analysis.conflicts, duplicates |-> analysis.groups,
       adjusted |-> analysis.adjusted, confidence |-> analysis.overall,
       evidence |-> Cited(findings), warnings |-> analysis.warnings \cup RiskWarnings,
       partial_failure |-> outputs[Risk] = None,
       success |-> \E a \in ToSet(ReadOrder) : outputs[a] # None]

Synthesise ==
  /\ stage = "synthesis"
  /\ package' = Package
  /\ stage' = "done"
  /\ UNCHANGED <<selection, context, facts, outputs>>

Next ==
  \/ SelectComparables \/ HandOver
  \/ HearSpecialist \/ HearRisk \/ SkipRisk
  \/ Synthesise

Spec == Init /\ [][Next]_vars

===============================================================================

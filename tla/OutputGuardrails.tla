--------------------------- MODULE OutputGuardrails ---------------------------
(***************************************************************************)
(* What becomes of an agent's answer before anyone uses it                 *)
(* (agent_research/guardrails.py): it is refused, or its confidences are   *)
(* cut to what its evidence supports.  Confidences are in percent.         *)
(***************************************************************************)
EXTENDS EvidenceIndex, FiniteSetsExt

(***************************************************************************)
(* output     findings, conflicts: sequences; risks, questions: those of   *)
(*            the risk agent, empty for the others; sources: those it says *)
(*            it used; confidence; offences: what its wording does         *)
(* finding    id, text (category, title, finding, fields: what makes two   *)
(*            findings the same), topics, confidence, evidence: references *)
(* conflict   topic, values (normalised claims) with as many sources,      *)
(*            materiality                                                  *)
(***************************************************************************)

EvidenceCount(output) ==
  MapThenSumSet(LAMBDA i : Len(output.findings[i].evidence), DOMAIN output.findings)

bounded_confidence_limit(output) ==
  LET n == EvidenceCount(output)
  IN  IF n >= 6 THEN 95 ELSE IF n >= 3 THEN 90 ELSE IF n >= 1 THEN 85 ELSE 60

AllValid(items, index) ==
  \A i \in DOMAIN items : \A e \in ToSet(items[i].evidence) : ValidReference(e, index)

\* A risk to the finances needs evidence that is, or says it is, of the underwriting.
Backed(risk) ==
  risk.financial =>
    \E e \in ToSet(risk.evidence) :
      \/ e.type = "underwriting" \/ e.source = Underwriting
      \/ e.path # <<>> /\ e.path[1] = "underwriting"

\* validate_agent_output, without its caps.
Accepted(agent, output, index) ==
  /\ "recommendation" \notin output.offences
  /\ AllValid(output.findings, index)
  /\ AllValid(output.risks, index)
  /\ AllValid(output.questions, index)
  /\ \A s \in output.sources : Owned(s)
  /\ \A i \in DOMAIN output.conflicts : \A s \in ToSet(output.conflicts[i].sources) : Owned(s)
  /\ agent = "neighborhood" => "fair_housing" \notin output.offences
  /\ agent = "property_risk" =>
       /\ output.offences \cap {"unqualified", "diagnosis"} = {}
       /\ \A i \in DOMAIN output.risks : Backed(output.risks[i])

AtMost(limit, confidence) == IF confidence > limit THEN limit ELSE confidence

\* The caps it puts on an answer it accepts.
Capped(output) ==
  LET limit == bounded_confidence_limit(output)
      cut(items) == [i \in DOMAIN items |-> [items[i] EXCEPT !.confidence = AtMost(limit, @)]]
  IN  [output EXCEPT !.findings = cut(@), !.risks = cut(@), !.confidence = AtMost(limit, @)]

===============================================================================

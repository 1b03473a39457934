--------------------------- MODULE ConflictAnalysis ---------------------------
(***************************************************************************)
(* What the synthesis makes of answers that disagree or repeat each other  *)
(* (agent_research/conflicts.py).  Two kinds of conflicts: of the sources  *)
(* of a field, which precedence may settle, and those an agent reports,    *)
(* which it never settles.  Values stand for what they are normalised to.  *)
(***************************************************************************)
EXTENDS OutputGuardrails, Integers

CONSTANT FieldSpecs   \* FIELD_CONFLICT_SPECS: per field, its materiality

AgentOrder == <<"listing", "public_records", "comparable", "neighborhood">>

Specialists == ToSet(AgentOrder)

Penalty == [low |-> 2, medium |-> 5, high |-> 10]

ASSUME SpecsAreSpecs ==
  /\ FieldSpecs \in Seq(ToSet(FieldSpecs))
  /\ \A n \in DOMAIN FieldSpecs : FieldSpecs[n].materiality \in DOMAIN Penalty

Clamp(confidence, most) == IF confidence < 0 THEN 0 ELSE IF confidence > most THEN most ELSE confidence

-----------------------------------------------------------------------------
(* The sources of a field: facts has, per field, what each of the three says, or None. *)

VerifiedConfidence(fact) ==
  IF fact.confidence # None THEN fact.confidence
  ELSE IF fact.status \in {"verified", "corrected"} THEN 100
  ELSE IF fact.status = "conflicting" THEN 40 ELSE 60

Candidate(source, value, confidence, verified, authoritative) ==
  [source |-> source, value |-> value, confidence |-> confidence, agent |-> None,
   verified |-> verified, authoritative |-> authoritative]

VerifiedCandidate(fact) ==
  LET confirmed == fact.status \in {"verified", "corrected"}
  IN  Candidate("verified_property", fact.value, VerifiedConfidence(fact), confirmed, confirmed)

\* 60 without provenance.
ListingCandidate(fact) ==
  Candidate("listing_extraction", fact.value, IF fact.confidence = None THEN 60 ELSE fact.confidence,
            FALSE, FALSE)

PublicCandidate(fact) ==
  Candidate("public_records", fact.value, fact.confidence, FALSE, fact.government)

If(fact, candidate(_)) == IF fact = None THEN <<>> ELSE <<candidate(fact)>>

FieldCandidates(fact) ==
  If(fact.verified, VerifiedCandidate) \o If(fact.listing, ListingCandidate)
  \o If(fact.public, PublicCandidate)

\* The listing before public records.
ListingFirst(c) ==
  IF c.verified THEN 0 ELSE IF c.source = "listing_extraction" THEN 1
  ELSE IF c.authoritative THEN 2 ELSE 3

\* _candidate_rank: a value the user has confirmed, an authority, the listing, the rest;
\* among these the more confident.
Tier(c) ==
  IF c.verified THEN 0 ELSE IF c.authoritative THEN 1
  ELSE IF c.source = "listing_extraction" THEN 2 ELSE 3

Precedes(c, d) == Tier(c) < Tier(d) \/ (Tier(c) = Tier(d) /\ c.confidence > d.confidence)

\* Those nothing precedes, if they agree; else None.
PreferredValue(candidates) ==
  LET top == {c \in ToSet(candidates) : ~\E d \in ToSet(candidates) : Precedes(d, c)}
      values == {c.value : c \in top}
  IN  IF Cardinality(values) = 1 THEN CHOOSE v \in values : TRUE ELSE None

Distinct(candidates) == Cardinality({c.value : c \in ToSet(candidates)}) >= 2

\* _normalize_conflict, as a sequence of one conflict or none.
Conflict(topic, candidates, materiality, semantic) ==
  LET preferred == IF semantic THEN None ELSE PreferredValue(candidates)
  IN  IF ~Distinct(candidates) THEN <<>>
      ELSE <<[topic |-> topic, values |-> candidates, materiality |-> materiality,
              status |-> IF semantic THEN "unresolved"
                         ELSE IF preferred # None THEN "resolved" ELSE "user_review_required",
              preferred |-> preferred,
              review |-> semantic \/ preferred = None]>>

\* _detect_source_conflicts.
SourceConflicts(facts) ==
  FlattenSeq([i \in DOMAIN FieldSpecs |->
    Conflict(FieldSpecs[i].field, FieldCandidates(facts[FieldSpecs[i].field]),
             FieldSpecs[i].materiality, FALSE)])

\* What an agent says is in conflict, as sure as the agent is.
ClaimCandidates(agent, output, claim) ==
  [i \in DOMAIN claim.values |->
    [Candidate(claim.sources[i], claim.values[i], output.confidence, FALSE, FALSE)
       EXCEPT !.agent = agent]]

\* _detect_agent_conflicts.
AgentConflicts(outputs) ==
  FlattenSeq([i \in DOMAIN AgentOrder |->
    LET agent == AgentOrder[i]
        output == outputs[agent]
    IN  FlattenSeq([k \in DOMAIN output.conflicts |->
          Conflict(output.conflicts[k].topic, ClaimCandidates(agent, output, output.conflicts[k]),
                   output.conflicts[k].materiality, TRUE)])])

Unresolved(conflicts) == {i \in DOMAIN conflicts : conflicts[i].status # "resolved"}

-----------------------------------------------------------------------------
(* Findings that say the same. *)

FindingsOf(outputs) ==
  FlattenSeq([i \in DOMAIN AgentOrder |->
    LET findings == outputs[AgentOrder[i]].findings
    IN  [k \in DOMAIN findings |-> [agent |-> AgentOrder[i], finding |-> findings[k]]]])

\* Every member of a group is a duplicate.
AllAreDuplicates(outputs) ==
  LET all == FindingsOf(outputs)
      Alike(i) == {k \in DOMAIN all : all[k].finding.text = all[i].finding.text}
  IN  {[canonical |-> all[i].finding.id,
        duplicates |-> {all[k].finding.id : k \in Alike(i)},
        agents |-> [k \in Alike(i) |-> all[k].agent]] : i \in {j \in DOMAIN all : Cardinality(Alike(j)) >= 2}}

\* _detect_duplicate_findings: the first of those alike is the canonical one.
DuplicateGroups(outputs) ==
  LET all == FindingsOf(outputs)
      Alike(i) == {k \in DOMAIN all : all[k].finding.text = all[i].finding.text}
      firsts == {i \in DOMAIN all : Cardinality(Alike(i)) >= 2 /\ \A k \in Alike(i) : i <= k}
  IN  {[canonical |-> all[i].finding.id,
        duplicates |-> {all[k].finding.id : k \in Alike(i) \ {i}},
        agents |-> [k \in Alike(i) |-> all[k].agent]] : i \in firsts}

-----------------------------------------------------------------------------
(* Confidence. *)

\* Three points for each time the agent is in a group.
DuplicatePenalty(agent, groups) ==
  3 * SumFunction([g \in groups |-> Cardinality({k \in DOMAIN g.agents : g.agents[k] = agent})])

Involved(agent, conflict) == \E c \in ToSet(conflict.values) : c.agent = agent

Penalties(conflicts, chosen) == SumFunction([i \in chosen |-> Penalty[conflicts[i].materiality]])

ConflictPenalty(agent, conflicts) ==
  Penalties(conflicts, {i \in Unresolved(conflicts) : Involved(agent, conflicts[i])})

\* _adjust_agent_confidences.
AdjustedConfidence(agent, output, conflicts, groups) ==
  Clamp(AtMost(bounded_confidence_limit(output), output.confidence)
        - DuplicatePenalty(agent, groups) - ConflictPenalty(agent, conflicts), 100)

\* _overall_confidence, in quarters of a percent: the mean of the four, less every open conflict.
OverallConfidence(adjusted, conflicts) ==
  Clamp(SumFunction(adjusted) - 4 * Penalties(conflicts, Unresolved(conflicts)), 400)

\* analyze_conflicts, of the four outputs.
AnalyzeConflicts(facts, outputs) ==
  LET conflicts == SourceConflicts(facts) \o AgentConflicts(outputs)
      groups == DuplicateGroups(outputs)
      adjusted == [a \in Specialists |-> AdjustedConfidence(a, outputs[a], conflicts, groups)]
  IN  [conflicts |-> conflicts, groups |-> groups, adjusted |-> adjusted,
       overall |-> OverallConfidence(adjusted, conflicts),
       warnings |-> {conflicts[i].topic : i \in Unresolved(conflicts)}]

===============================================================================

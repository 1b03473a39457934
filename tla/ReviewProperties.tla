--------------------------- MODULE ReviewProperties ---------------------------
(***************************************************************************)
(* What the review of a property by its agents must not lose or invent.    *)
(***************************************************************************)
EXTENDS AgentReview

\* Similarities are in ten-thousandths.
Scores == 0 .. 10000
Percent == 0 .. 100

\* The first comparable is known in the same traits and nearer the subject, or as near, in each.
Dominates(subject, c, d) ==
  LET traits == Comps!Compared(subject, c)
  IN  /\ traits = Comps!Compared(subject, d)
      /\ \A t \in traits : Comps!Gap(subject, c, t) <= Comps!Gap(subject, d, t)

\* Five miles, a room more or less, twenty years.
Tolerance == [distance |-> 5, bedrooms |-> 1, bathrooms |-> 1, year_built |-> 20]

\* A comparable that the filters let pass: sold within a year, of a wanted status, and in what is
\* known of both within the tolerance or a quarter of the subject's size.
Admissible(subject, c) ==
  /\ c.age = None \/ c.age <= 365
  /\ c.status \in Statuses \cup {None}
  /\ \A t \in {u \in Comps!Traits : subject[u] # None /\ c[u] # None} :
       \/ t # "square_feet" /\ Comps!Gap(subject, c, t) <= Tolerance[t]
       \/ t = "square_feet" /\ (subject[t] = 0 \/ 4 * Comps!Gap(subject, c, t) <= subject[t])

\* No comparable is kept in place of one that passes the filters and is at least as near in
\* everything, unless the two score alike; none that the filters exclude is kept, and scores and
\* their average are confidences. (filter_and_rank_sales_comps, filter_and_rank_rental_comps)
BestComparablesAreKept ==
  selection # None /\ selection.selected # None =>
    LET candidates == selection.candidates
        selected == selection.selected
        admissible == {i \in DOMAIN candidates : Admissible(selection.subject, candidates[i])}
    IN  /\ selected.kept \subseteq admissible
        /\ \A k \in selected.kept, i \in admissible \ selected.kept :
             Dominates(selection.subject, candidates[i], candidates[k]) =>
               selected.similarity[i] = selected.similarity[k]
        /\ \A k \in selected.kept : selected.similarity[k] \in Scores
        /\ selected.confidence \in Percent

IdsAreDistinct == \A i, k \in DOMAIN AllFindings : i # k => AllFindings[i].id # AllFindings[k].id

\* What an accepted answer found is in the package, word for word or as the finding of another
\* agent that says the same, and what several specialists found is there once; provided that no
\* two findings have the same id, which the models choose. (_detect_duplicate_findings,
\* _consolidate_findings)
FindingsAreKept ==
  package # None /\ IdsAreDistinct =>
    /\ \A i \in DOMAIN AllFindings : \E f \in package.findings : f.text = AllFindings[i].text
    /\ AllThere =>
         \A f, g \in package.findings :
           f.text = g.text /\ f # g => \E r \in ToSet(outputs[Risk].findings) : r \in {f, g}

Says(field) == {facts[field][s] : s \in {"verified", "listing", "public"}} \ {None}

ByUser(field) ==
  LET fact == facts[field].verified IN fact # None /\ fact.status \in {"verified", "corrected"}

\* Where the sources of a field disagree the package has the conflict. It is settled for what the
\* user has confirmed if there is such, else for what the government says; whatever is not
\* settled asks for a review, is warned of, and costs its penalty, so that the confidence in
\* the data stays below what the agents claim by all of these. (_normalize_conflict,
\* _preferred_candidate, _overall_confidence)
DisagreementsCount ==
  package # None /\ AllThere =>
    /\ \A n \in DOMAIN FieldSpecs :
         LET field == FieldSpecs[n].field
         IN  Cardinality({fact.value : fact \in Says(field)}) >= 2 =>
               \E c \in ToSet(package.conflicts) :
                 /\ c.topic = field
                 /\ ByUser(field) => c.preferred = facts[field].verified.value
                 /\ ~ByUser(field) /\ facts[field].public # None /\ facts[field].public.government =>
                      c.preferred = facts[field].public.value
    /\ \A c \in ToSet(package.conflicts) :
         c.preferred = None => c.review /\ c.topic \in package.warnings
    /\ LET open == {i \in DOMAIN package.conflicts : package.conflicts[i].review}
           claimed == SumFunction([a \in Specialists |-> outputs[a].confidence])
       IN  \/ package.confidence = 0
           \/ package.confidence <= claimed - 4 * Penalties(package.conflicts, open)

\* All the evidence of the package is of this property and can be looked up: a source that is in
\* the index, and if a citation is named, one of that source. The index has every citation of
\* the research once, also where several read alike or belong to no source.
\* (validate_evidence_reference, _register_citations)
EvidenceResolves ==
  package # None =>
    LET index == BuildIndex(context)
        results == {d \in Domains : context.research[d] # None}
    IN  /\ \A e \in package.evidence :
             /\ e.source \in DOMAIN index.sources
             /\ e.citation # None => e.citation \in index.sources[e.source].citations
        /\ Cardinality(DOMAIN index.citations) =
             SumFunction([d \in results |-> Len(context.research[d].citations)])
        /\ \A c \in DOMAIN index.citations :
             {s \in DOMAIN index.sources : c \in index.sources[s].citations} = {index.citations[c]}

===============================================================================

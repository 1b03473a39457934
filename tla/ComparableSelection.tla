------------------------- MODULE ComparableSelection -------------------------
(***************************************************************************)
(* Which comparables a property is valued by (utils/comparables.py): those *)
(* within the filters, the most similar first, and of these the first few. *)
(* A comparable is compared in the traits that it and the subject are both *)
(* known in; one that is known in none cannot be scored, and the whole     *)
(* selection raises.  Prices, their adjustments and the summary of what is *)
(* kept change none of this and are left out.                              *)
(***************************************************************************)
EXTENDS Integers, Sequences, FiniteSetsExt, Functions

CONSTANTS
  None,
  Limit          \* filters.limit

\* The subject is at distance 0 of itself.
Traits == {"distance", "square_feet", "bedrooms", "bathrooms", "year_built"}

MaxDistance == 5
MaxBedroomDelta == 1
MaxBathroomDelta == 1
MaxYearBuiltDelta == 20
SoldWithinDays == 365

\* What a gap is measured against.
Span(subject, t) ==
  CASE t = "distance" -> MaxDistance
    [] t = "square_feet" -> subject[t]
    [] t \in {"bedrooms", "bathrooms"} -> 2
    [] t = "year_built" -> MaxYearBuiltDelta

Compared(subject, c) ==
  {t \in Traits : subject[t] # None /\ c[t] # None /\ Span(subject, t) > 0}

Gap(subject, c, t) == LET d == subject[t] - c[t] IN IF d < 0 THEN -d ELSE d

\* A quarter of the subject's size, or the filter's limit.
Near(subject, c, t) ==
  LET gap == Gap(subject, c, t)
  IN  CASE t = "distance" -> gap <= MaxDistance
        [] t = "square_feet" -> 4 * gap <= subject[t]
        [] t = "bedrooms" -> gap <= MaxBedroomDelta
        [] t = "bathrooms" -> gap <= MaxBathroomDelta
        [] t = "year_built" -> gap <= MaxYearBuiltDelta

\* A sale may be too old, a rental of a status that is not wanted; what is unknown passes.
Wanted(c, statuses) ==
  /\ c.age # None => c.age <= SoldWithinDays
  /\ c.status # None => c.status \in statuses

Matches(subject, c, statuses) ==
  Wanted(c, statuses) /\ \A t \in Compared(subject, c) : Near(subject, c, t)

-----------------------------------------------------------------------------

\* The mean of 1 - gap / span, in ten-thousandths, rounded half up (_similarity_components, ratio).
Similarity(subject, c) ==
  LET traits == Compared(subject, c)
      whole == FoldFunction(LAMBDA x, y : x * y, 1, [t \in traits |-> Span(subject, t)])
      parts == [t \in traits |->
                 (Span(subject, t) - Gap(subject, c, t)) * (whole \div Span(subject, t))]
      all == Cardinality(traits) * whole
  IN  (20000 * SumFunction(parts) + all) \div (2 * all)

Matched(subject, candidates, statuses) ==
  {i \in DOMAIN candidates : Matches(subject, candidates[i], statuses)}

\* The mean similarity, as a rounded percentage (_average_confidence).
AverageConfidence(similarity, kept) ==
  LET n == Cardinality(kept)
  IN  IF n = 0 THEN 0
      ELSE (2 * SumFunction([i \in kept |-> similarity[i]]) + 100 * n) \div (200 * n)

\* The first that match.
FirstComeKept(subject, candidates, statuses) ==
  LET matched == Matched(subject, candidates, statuses)
      similarity == [i \in matched |-> Similarity(subject, candidates[i])]
      kept == {i \in matched : Cardinality({j \in matched : j < i}) < Limit}
  IN  IF \E i \in matched : Compared(subject, candidates[i]) = {} THEN None
      ELSE [kept |-> kept, similarity |-> similarity,
            confidence |-> AverageConfidence(similarity, kept)]

\* filter_and_rank_*: the most similar, and among equals the first.  None is the division by zero.
FilterAndRank(subject, candidates, statuses) ==
  LET matched == Matched(subject, candidates, statuses)
      similarity == [i \in matched |-> Similarity(subject, candidates[i])]
      Before(j, i) == similarity[j] > similarity[i] \/ (similarity[j] = similarity[i] /\ j < i)
      kept == {i \in matched : Cardinality({j \in matched : Before(j, i)}) < Limit}
  IN  IF \E i \in matched : Compared(subject, candidates[i]) = {} THEN None
      ELSE [kept |-> kept, similarity |-> similarity,
            confidence |-> AverageConfidence(similarity, kept)]

===============================================================================

--------------------------- MODULE ResearchProperties ---------------------------
(***************************************************************************)
(* What ResearchWorkflow is meant to guarantee.                            *)
(***************************************************************************)
EXTENDS ResearchWorkflow

Returned(d) == domains[d].pc = "returned"

Codes(d) == {w.code : w \in package.warnings[d]}

\* The package says why a domain is missing: a final error, or as many attempts as the
\* configuration allows, each of which left a warning. A final error is never retried,
\* and a domain that succeeded at a later attempt shows what the earlier ones met.
FailuresAreWarned ==
  package.assembled => \A d \in Domains :
    /\ d \in package.failed <=> domains[d].result.from = 0
    /\ d \in package.failed /\ Codes(d) \cap FinalCodes = {} =>
         /\ domains[d].attempt = Attempts
         /\ "unavailable" \in Codes(d) \/ Cardinality(package.warnings[d]) = Attempts
    /\ Codes(d) \cap FinalCodes # {} => d \in package.failed
    /\ domains[d].attempt > 1 => package.warnings[d] # {}

\* Fallback: `unavailable` is said only after every provider has failed, and a result
\* of a later provider, cached or not, names all those that failed before it.
FallbackIsComplete ==
  \A d \in Domains :
    /\ [code |-> "unavailable", attempt |-> 0] \in domains[d].warnings => domains[d].tried = 1 .. Providers[d]
    /\ domains[d].result.from # 0 => domains[d].result.notes = 1 .. domains[d].result.from - 1

\* A hit is an entry that had time left when it was served, also if it expired while the
\* domain waited for its permit; a new result is what the next request will hit.
CacheIsHonest ==
  \A d \in Domains : Returned(d) /\ domains[d].result.from # 0 =>
    IF domains[d].result.hit
    THEN UsesCache /\ cache[d].expires > domains[d].at /\ cache[d].result.from = domains[d].result.from
    ELSE UsesCache => cache[d] = [result |-> domains[d].result, expires |-> domains[d].at + Ttl]

\* A package is always returned, although no provider need answer.
ResearchEnds == <>package.assembled

===============================================================================

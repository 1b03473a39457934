--------------------------- MODULE MCResearchWorkflow ---------------------------
(* Instances of ResearchWorkflow for TLC.                                  *)
EXTENDS ResearchProperties

\* One permit short of the domains; a domain with a fallback, one without, one with no
\* provider at all, as in the default registry.
ThreeDomains == <<"public_records", "sales_comps", "rental_comps">>

FewProviders == [public_records |-> 2, sales_comps |-> 1, rental_comps |-> 0]

===============================================================================

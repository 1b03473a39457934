-------------------------- MODULE MCAnalysisLifecycle --------------------------
(* Instances of AnalysisLifecycle for TLC.                                 *)
EXTENDS AnalysisProperties, TLC

\* Ids, assumptions and contexts are only compared with each other.
Interchangeable ==
  Permutations(Analyses) \cup Permutations(Properties) \cup Permutations(Workers) \cup Permutations(Assumptions)

===============================================================================

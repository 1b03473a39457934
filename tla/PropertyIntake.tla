---------------------------- MODULE PropertyIntake ----------------------------
(***************************************************************************)
(* From a link to a report, as the web client goes: a listing is extracted *)
(* (ListingExtraction), kept as a property that is verified in browser     *)
(* tabs (PropertyEditing), and one of them starts an analysis and follows  *)
(* it (AnalysisWatching, over what AnalysisApi promises).                  *)
(***************************************************************************)
EXTENDS ListingExtraction, PropertyEditing

VARIABLES accepted, detail, watch

vars == <<job, editVars, accepted, detail, watch>>

watching == <<accepted, detail, watch>>

TheAnalysis == "analysis"

Inputs == {"inputs"}

Watching == INSTANCE AnalysisWatching
  WITH Analyses <- {TheAnalysis}, InputSets <- Inputs, Reports <- [i \in Inputs |-> {"report"}]

Init == ListingInit /\ EditInit /\ Watching!WatchInit

ExtractStep == ListingStep /\ UNCHANGED <<editVars, watching>>

\* What the listing says of the fields of the form.
ListedValues(found) ==
  [f \in FormFields |-> IF f \in DOMAIN found THEN "listed" ELSE None]

\* The user keeps the extraction that is shown.
CreateProperty ==
  /\ job.pc = "done"
  /\ CreateRow(ListedValues(job.result.found))
  /\ job' = Idle
  /\ UNCHANGED watching

\* An extraction that failed, or is not kept: the form is there for the next link.
Discard == row = None /\ Answered /\ job' = Idle /\ UNCHANGED <<editVars, watching>>

EditingStep == started = None /\ EditStep /\ UNCHANGED <<job, watching>>

\* The API accepts the analysis and the tab follows it.
Analyse ==
  /\ \E t \in Tabs : StartAnalysis(t)
  /\ Watching!Api!Accept(TheAnalysis)
  /\ Watching!Follow(TheAnalysis)
  /\ UNCHANGED job

FollowStep ==
  /\ started # None
  /\ Watching!WatchStep
  /\ UNCHANGED <<job, editVars>>

Next ==
  \/ row = None /\ ExtractStep
  \/ CreateProperty \/ Discard \/ EditingStep \/ Analyse \/ FollowStep

Spec == Init /\ [][Next]_vars

Fairness == ListingFairness /\ Watching!WatchFairness

FairSpec == Spec /\ Fairness

===============================================================================

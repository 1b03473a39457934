------------------------------ MODULE AnalysisApi ------------------------------
(***************************************************************************)
(* What a client of the API may rely on for one analysis, whatever the     *)
(* pipeline does inside: it is accepted once with inputs that never        *)
(* change, its status only moves forward, nothing of a report is shown     *)
(* before the report is complete, and a report once shown is computed      *)
(* from those inputs and stays as it is.                                   *)
(***************************************************************************)
CONSTANTS
  Analyses,     \* ids of analyses
  InputSets,    \* what an analysis is accepted with: a snapshot and assumptions
  None,         \* no value
  Reports       \* per input set, the complete reports that can be computed from it

VARIABLES
  accepted,     \* per analysis, its inputs or None
  detail        \* per analysis, what GET /analyses/{id} answers: status and report

apiVars == <<accepted, detail>>

Init ==
  /\ accepted = [a \in Analyses |-> None]
  /\ detail = [a \in Analyses |-> [status |-> "absent", report |-> None]]

Moves(a, from, to, report) ==
  /\ detail[a].status = from
  /\ detail' = [detail EXCEPT ![a] = [status |-> to, report |-> report]]

Accept(a) ==
  /\ Moves(a, "absent", "pending", None)
  /\ \E inputs \in InputSets : accepted' = [accepted EXCEPT ![a] = inputs]

Start(a) == Moves(a, "pending", "running", None) /\ UNCHANGED accepted

Publish(a) ==
  /\ detail[a].status = "running"
  /\ \E report \in Reports[accepted[a]] : Moves(a, "running", "completed", report)
  /\ UNCHANGED accepted

Fail(a) == Moves(a, "running", "failed", None) /\ UNCHANGED accepted

Next == \E a \in Analyses : Accept(a) \/ Start(a) \/ Publish(a) \/ Fail(a)

Spec == Init /\ [][Next]_apiVars

===============================================================================

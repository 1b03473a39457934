---------------------------- MODULE CommitteePolicy ----------------------------
(***************************************************************************)
(* The deterministic policies of the investment committee: the offer       *)
(* range, the limit on confidence, the labels that may be recommended, and *)
(* what a draft of the model must satisfy to be returned.                  *)
(*                                                                         *)
(* Confidences are percentages.  A dossier is what the policies read of    *)
(* the agent research and of the scenarios; a draft is what the validators *)
(* tell apart of the model's output, its texts reduced to whether they     *)
(* pass.                                                                   *)
(***************************************************************************)
EXTENDS MaximumOffer

Labels == {"strong_buy", "buy", "buy_only_below", "negotiate", "watch", "pass", "insufficient_information"}

Buys == {"strong_buy", "buy"}

\* Numbers of missing items and of unresolved conflicts by materiality. The twelve
\* stress tests of underwriting always run; failed ones lose money every month.
Dossier == [confidence : 0 .. 100, partial : BOOLEAN, critical : Nat, important : Nat,
            high : Nat, medium : Nat, low : Nat, failed : 0 .. 12, conservative : BOOLEAN]

-----------------------------------------------------------------------------
(* build_offer_range.                                                      *)

NoRange == [low |-> None, high |-> None, allowed |-> {}]

\* The high end of the range counts as a value of its own.
OfferRangeClosed ==
  IF deal.asking = None \/ Available = {} THEN NoRange
  ELSE [low |-> Min({deal.asking, Min(Available)}), high |-> Min({Max(Available), deal.asking}),
        allowed |-> Available \cup {deal.asking}]

\* Only thresholds, and the asking price if none is below it. The high end may be the
\* asking price and then is not among the allowed values.
OfferRange ==
  IF deal.asking = None \/ Available = {} THEN NoRange
  ELSE IF deal.asking <= Min(Available)
  THEN [low |-> deal.asking, high |-> deal.asking, allowed |-> Available \cup {deal.asking}]
  ELSE [low |-> Min(Available), high |-> Min({Max(Available), deal.asking}), allowed |-> Available]

-----------------------------------------------------------------------------
(* compute_confidence_limit.                                               *)

\* Only high conflicts count.
PenaltyOfHighConflicts(d) ==
  (IF d.partial THEN 10 ELSE 0) + 12 * d.critical + 5 * d.important + 15 * d.high
  + (IF BindingMaximum = None THEN 6 ELSE 0) + Min({15, 3 * d.failed})

Penalty(d) ==
  (IF d.partial THEN 10 ELSE 0) + 12 * d.critical + 5 * d.important
  + 15 * d.high + 8 * d.medium + 4 * d.low
  + (IF BindingMaximum = None THEN 6 ELSE 0) + Min({15, 3 * d.failed})

MaximumConfidence(d) == Max({20, Min({95, d.confidence}) - Penalty(d)})

-----------------------------------------------------------------------------
(* build_recommendation_policy.                                            *)

AskingSupported == deal.asking # None /\ BindingMaximum # None /\ deal.asking <= BindingMaximum

ClientTargets == {t \in Targets \ {"break_even"} : deal.target[t] # None}

\* A target counts where the purchase price has its metric: the DSCR of a cash purchase is
\* not asked. Without any the deal has to break even.
Decisive ==
  LET judged == {t \in ClientTargets : HasMetric(deal, t, deal.purchase)}
  IN  IF judged = {} THEN {"break_even"} ELSE judged

\* The metrics of the purchase price meet what the client set.
TargetsMet == \A t \in Decisive : Meets(deal, t, deal.purchase)

NoBuy(d) == d.critical > 0 \/ ~TargetsMet \/ ~AskingSupported

NoStrongBuy(d) ==
  \/ NoBuy(d)
  \/ d.high > 0
  \/ d.partial \/ MaximumConfidence(d) < 85 \/ ~d.conservative \/ d.failed > 0

NoBuyOnlyBelow == OfferRange = NoRange \/ deal.asking = None \/ AskingSupported

\* insufficient_information is among the labels from the start: the set is never empty,
\* and the code that would add it or pass has no effect.
Allowed(d) ==
  {label \in Labels : /\ label = "buy" => ~NoBuy(d)
                      /\ label = "strong_buy" => ~NoStrongBuy(d)
                      /\ label = "buy_only_below" => ~NoBuyOnlyBelow}

-----------------------------------------------------------------------------
(* validate_and_enforce_output.                                            *)

\* What a draft may lack: basis values that are thresholds, the asking price, the
\* unresolved high conflicts, the critical gaps, due diligence, or specific and permitted
\* texts with known evidence. Who lacks more than one is rejected too.
Flaws == {"none", "basis", "asking", "conflicts", "missing", "diligence", "text"}

\* What the output schema lets through.
WellFormed(draft) ==
  /\ draft.low = None <=> draft.high = None
  /\ draft.low # None => draft.low <= draft.high
  /\ draft.label = "buy_only_below" => draft.high # None

\* _downgrade_recommendation takes the most conservative label, which is always allowed.
Enforced(label, d) == IF label \in Allowed(d) THEN label ELSE "insufficient_information"

\* Only the deterministic values, each end by itself, and no other value as a basis.
OfferAllowed(draft) ==
  /\ draft.low # None => {draft.low, draft.high} \subseteq OfferRange.allowed
  /\ draft.flaw # "basis"

\* Unresolved conflicts and critical gaps must be told, with the work they need.
UncertaintyKept(draft, d) ==
  /\ d.high > 0 => draft.flaw # "conflicts"
  /\ d.critical > 0 => draft.flaw # "missing"
  /\ d.critical + d.high + d.medium + d.low > 0 => draft.flaw # "diligence"

\* The schema wants an asking price: without a known one no draft passes.
Accepted(draft, d) ==
  /\ draft.confidence <= MaximumConfidence(d)
  /\ OfferAllowed(draft)
  /\ deal.asking # None /\ draft.flaw # "asking"
  /\ UncertaintyKept(draft, d)
  /\ draft.flaw # "text"

===============================================================================

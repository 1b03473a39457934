-------------------------- MODULE DecisionProperties --------------------------
(* What a decision promises, told against what prices make of the deal and   *)
(* not against what underwriting found.                                      *)
EXTENDS InvestmentDecision

\* A higher price may meet the target where a lower one misses it: where a fixed loan leaves
\* the down payment, a price below the loan leaves a negative one and turns the sign of the
\* cash-on-cash return, and a negative ratio grows with the price.
Turns(d, t) ==
  \/ t = "cash_on_cash" /\ d.kind = "rest"
  \/ t \in {"cap_rate", "cash_on_cash", "dscr"} /\ d.target[t] # None /\ d.target[t] < 0

\* Where a higher price that meets the target would mean that this price meets it: it can be
\* financed, has the metric, and the target does not turn.
Conclusive(d, t, p) == ~Refused(d, p) /\ HasMetric(d, t, p) /\ ~Turns(d, t)

\* A threshold is a price the deal can be financed at and meets its target, and the next
\* dollar does not: neither does any higher price of the search, where that dollar is conclusive.
\* Where none was found the same holds from the first price above the search's lower end.
\* (binary_search_price, _maximum_offer)
ThresholdsAreTight ==
  underwriting = "done" =>
    \A t \in Targets :
      LET found == thresholds[t]
          next == IF found = None THEN 2 ELSE found + 1
      IN  /\ found # None => Sought(t) /\ ~Refused(deal, found) /\ Meets(deal, t, found)
          /\ Sought(t) =>
               \A p \in next .. SearchHigh - 1 : Meets(deal, t, p) => p # next /\ ~Conclusive(deal, t, next)

\* The price is not above the threshold of the target, and where it is conclusive it meets the
\* target itself.
Backed(t, price) ==
  /\ thresholds[t] # None /\ price <= thresholds[t]
  /\ Conclusive(deal, t, price) => Meets(deal, t, price)

\* A buy of either kind: the purchase price meets every target that counts, break-even if
\* none does, and the asking price is backed by it too, although the two differ and the binding
\* maximum leaves out a target without a threshold. A target that the purchase price meets has no
\* threshold only where the lower end of the search is not conclusive and misled it: the asking
\* price then goes unchecked. (build_recommendation_policy, _maximum_offer)
BuyIsSupported ==
  output # None /\ output.label \in Buys =>
    \A t \in Decisive :
      /\ Meets(deal, t, deal.purchase)
      /\ Backed(t, deal.asking) \/ (thresholds[t] = None /\ ~Conclusive(deal, t, 2))

\* Every price the committee offers is backed by some target that was searched for, and the
\* offer of a buy_only_below starts from a deal the asking price does not support.
\* (build_offer_range, validate_offer_range)
OffersMeetATarget ==
  output # None =>
    /\ \A p \in {output.low, output.high} \ {None} : \E t \in Targets : Backed(t, p)
    /\ output.label = "buy_only_below" =>
         /\ output.high # None
         /\ \E t \in Targets : thresholds[t] # None /\ thresholds[t] < deal.asking

\* A strong buy leaves no gap, no high conflict and no failed stress test behind it, and
\* of smaller doubts no more than ten points. (compute_confidence_limit,
\* build_recommendation_policy: "high confidence, resilient downside cases, and no major
\* workflow gaps")
StrongBuyIsRare ==
  output # None /\ output.label = "strong_buy" =>
    /\ dossier.critical + dossier.high + dossier.failed = 0
    /\ ~dossier.partial /\ dossier.conservative
    /\ dossier.confidence >= 85
    /\ 5 * dossier.important + 8 * dossier.medium + 4 * dossier.low <= 10

\* What was returned or raised tells the attempts: the retries counted are those that
\* failed, a rejected draft is not retried, and the error raised when all attempts
\* failed is that of the last one. (analyze_with_details)
AttemptsAreTold ==
  LET failures == committee.failures
  IN  /\ output # None => output.retry_count = Len(failures)
      /\ committee.pc \in {"waiting", "running"} => output = None /\ Len(failures) = committee.attempt
      /\ committee.error = "rejected" => output = None /\ Len(failures) = committee.attempt
      /\ committee.error \notin {"rejected", None} =>
           Len(failures) = Attempts /\ committee.error = ErrorOf[failures[Attempts]]

\* "The down payment cannot exceed the purchase price." is said of the purchase price the
\* client submitted. (_acquisition, called by the search with prices of its own)
OnlyBadDownPaymentsRefused == underwriting = "invalid" => Refused(deal, deal.purchase)

===============================================================================

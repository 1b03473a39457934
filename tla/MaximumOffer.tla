----------------------------- MODULE MaximumOffer -----------------------------
(***************************************************************************)
(* The maximum offer of UnderwritingService: for break-even and for every  *)
(* target of the client, a purchase price that meets it, found by          *)
(* bisection, and the lowest of these as the binding maximum.              *)
(*                                                                         *)
(* Prices are whole dollars, the tolerance of the search; a midpoint is    *)
(* rounded down where Decimal has a fraction of it.  Amounts of a deal are *)
(* dollars and rates percent; what a price makes of them is in cents or in *)
(* hundredths of a cent, so that percentages stay exact.  Rounding to      *)
(* cents and ratios to four places is left out, and max_iterations: 100    *)
(* halvings end the search of any interval below 2^100 dollars.            *)
(***************************************************************************)
EXTENDS Integers, Sequences, FiniteSetsExt

CONSTANTS
  Deals,          \* what clients may ask about
  Prices,         \* prices that anyone may name
  SearchFloor,    \* the search starts at least this high: 100000
  None            \* Python's None

\* Break-even is searched first.
TargetOrder == <<"break_even", "monthly_cash_flow", "cap_rate", "cash_on_cash", "dscr">>

Targets == {TargetOrder[i] : i \in DOMAIN TargetOrder}

\* A deal: prices, the down payment in percent or dollars or as what a fixed loan leaves, a
\* year's payment in percent of the loan, a year's mortgage insurance, points on the loan,
\* closing costs in percent of the price, all other cash needed, a year's net operating
\* income, and the client's targets: dollars a month, percent, percent and hundredths.  A
\* cash purchase is a down payment of 100 percent without insurance.  Break-even is a cash
\* flow of zero.
Deal ==
  {d \in [asking : Prices \cup {None}, purchase : Prices, kind : {"percent", "amount", "rest"},
          down : Nat, loan : Nat \cup {None}, payment : Nat, insurance : Nat, points : Nat,
          closing : Nat, costs : Nat, noi : Int, target : [Targets -> Int \cup {None}]] :
     /\ d.kind = "amount" => d.loan = None
     /\ d.kind = "rest" => d.loan # None
     /\ d.target["break_even"] = 0}

ASSUME DealsAreDeals == Deals \subseteq Deal

\* Prices of more than the lower end of the search, one dollar, which is never evaluated.
ASSUME PricesArePrices == Prices \subseteq Nat \ {0, 1}

ASSUME FloorIsNatural == SearchFloor \in Nat

ASSUME NoneIsNoPrice == None \notin Int

-----------------------------------------------------------------------------
(* What a price makes of a deal.                                           *)

\* Cents. A percentage may come with a fixed loan too, whatever the two add up to.
Down(d, p) ==
  CASE d.kind = "percent" -> d.down * p
    [] d.kind = "amount"  -> 100 * d.down
    [] d.kind = "rest"    -> 100 * (p - d.loan)

Loan(d, p) == IF d.loan = None THEN 100 * p - Down(d, p) ELSE 100 * d.loan

\* "The down payment cannot exceed the purchase price."
Refused(d, p) == Down(d, p) > 100 * p

\* A year's debt service and cash flow, and the cash required at closing, in hundredths of a
\* cent. A down payment that a fixed loan leaves may be negative, and so may be the cash.
Debt(d, p) == d.payment * Loan(d, p) + 10000 * d.insurance

CashFlow(d, p) == 10000 * d.noi - Debt(d, p)

Cash(d, p) == 100 * (Down(d, p) + d.closing * p + 100 * d.costs) + d.points * Loan(d, p)

\* safe_divide gives None for a divisor of zero.
HasMetric(d, t, p) ==
  /\ t = "cash_on_cash" => Cash(d, p) # 0
  /\ t = "dscr" => Debt(d, p) # 0

\* The predicates of the search; the divisors are multiplied out, with their sign.
Meets(d, t, p) ==
  \/ t \in {"break_even", "monthly_cash_flow"} /\ CashFlow(d, p) >= 120000 * d.target[t]
  \/ t = "cap_rate" /\ 100 * d.noi >= d.target[t] * p
  \/ t = "cash_on_cash" /\ Cash(d, p) > 0 /\ 100 * CashFlow(d, p) >= d.target[t] * Cash(d, p)
  \/ t = "cash_on_cash" /\ Cash(d, p) < 0 /\ 100 * CashFlow(d, p) <= d.target[t] * Cash(d, p)
  \/ t = "dscr" /\ Debt(d, p) > 0 /\ 1000000 * d.noi >= d.target[t] * Debt(d, p)

-----------------------------------------------------------------------------
(* The search.                                                             *)

VARIABLES
  deal,        \* what the client asks about
  search,      \* the bisection in progress: which target, its interval and the best price so far
  thresholds,  \* the price found for each target, None if there is none
  underwriting \* "validate", "search", "done" or "invalid": InvalidAssumptionError

offerVars == <<deal, search, thresholds, underwriting>>

\* `property_snapshot.asking_price.final_value or assumptions.purchase_price`
Asking == IF deal.asking = None THEN deal.purchase ELSE deal.asking

\* Twice the asking price, but not less than the floor.
SearchHigh == Max({2 * Asking, SearchFloor})

NewSearch(i) == [target |-> i, low |-> 1, high |-> SearchHigh, best |-> None]

OfferTypeOK ==
  /\ deal \in Deals
  /\ search \in [target : 1 .. Len(TargetOrder) + 1, low : Nat, high : Nat, best : Nat \cup {None}]
  /\ thresholds \in [Targets -> Nat \cup {None}]
  /\ underwriting \in {"validate", "search", "done", "invalid"}

OfferInit ==
  /\ deal \in Deals
  /\ search = NewSearch(1)
  /\ thresholds = [t \in Targets |-> None]
  /\ underwriting = "validate"

\* _acquisition of the purchase price itself.
Validate ==
  /\ underwriting = "validate"
  /\ underwriting' = IF Refused(deal, deal.purchase) THEN "invalid" ELSE "search"
  /\ UNCHANGED <<deal, search, thresholds>>

Target == TargetOrder[search.target]

\* The client set the target; break-even is always sought.
Sought(t) == deal.target[t] # None

Mid == (search.low + search.high) \div 2

\* The upper end of the interval that is left, where the code takes the lower.
NarrowedToHigh(price, met) ==
  IF met THEN [search EXCEPT !.low = price, !.best = search.high]
  ELSE [search EXCEPT !.high = price]

\* The evaluator's answer decides which half is kept.
Narrowed(price, met) ==
  IF met THEN [search EXCEPT !.low = price, !.best = price]
  ELSE [search EXCEPT !.high = price]

\* The interval is wider than the tolerance.
Bisecting ==
  /\ underwriting = "search"
  /\ search.target <= Len(TargetOrder)
  /\ Sought(Target)
  /\ search.high - search.low > 1

\* One call of the evaluator, which raises if the down payment exceeds the price.
Bisect ==
  /\ Bisecting
  /\ \/ Refused(deal, Mid) /\ underwriting' = "invalid" /\ UNCHANGED search
     \/ /\ ~Refused(deal, Mid)
        /\ search' = Narrowed(Mid, Meets(deal, Target, Mid))
        /\ UNCHANGED underwriting
  /\ UNCHANGED <<deal, thresholds>>

\* The best price becomes the threshold of the target, None if none was met or none set.
NextTarget ==
  /\ underwriting = "search"
  /\ search.target <= Len(TargetOrder)
  /\ ~Bisecting
  /\ thresholds' = [thresholds EXCEPT ![Target] = search.best]
  /\ search' = NewSearch(search.target + 1)
  /\ UNCHANGED <<deal, underwriting>>

PricesDone ==
  /\ underwriting = "search"
  /\ search.target > Len(TargetOrder)
  /\ underwriting' = "done"
  /\ UNCHANGED <<deal, search, thresholds>>

OfferNext == Validate \/ Bisect \/ NextTarget \/ PricesDone

\* The thresholds that were found.
Available == {thresholds[t] : t \in Targets} \ {None}

\* The highest threshold, as a reading of "maximum offer" suggests.
BindingHighest == IF Available = {} THEN None ELSE Max(Available)

\* The most restrictive one.
BindingMaximum == IF Available = {} THEN None ELSE Min(Available)

===============================================================================

---------------------------- MODULE DecisionProofs ----------------------------
(***************************************************************************)
(* Proofs about an investment decision, for any deals, prices and          *)
(* dossiers: a lower price meets what a higher one meets, the maximum      *)
(* offers are tight, and no draft of the model becomes a buy, or an offer, *)
(* that they do not support.                                               *)
(***************************************************************************)
EXTENDS DecisionProperties, TLAPS, WellFoundedInduction

-----------------------------------------------------------------------------
(* Least elements.                                                         *)

\* The minimum of a nonempty set of natural numbers is in it and not above any of it.
LEMMA MinIsLeast ==
  ASSUME NEW S, S \subseteq Nat, S # {}
  PROVE  Min(S) \in S /\ \A p \in S : Min(S) <= p
<1> DEFINE R == {ss \in Nat \X Nat : ss[1] < ss[2]}
<1>1. IsWellFoundedOn(R, Nat)
  BY NatLessThanWellFounded DEF OpToRel
<1> HIDE DEF R
<1>2. PICK x \in S : \A y \in S : ~(<<y, x>> \in R)
  BY <1>1, WFMin
<1>3. ASSUME NEW y \in S PROVE x <= y
  <2>1. x \in Nat /\ y \in Nat /\ <<y, x>> \in Nat \X Nat
    OBVIOUS
  <2>2. <<y, x>> \notin R
    BY <1>2
  <2>3. ~(y < x)
    BY <2>1, <2>2 DEF R
  <2> QED
    BY <2>1, <2>3
<1> QED
  BY <1>3 DEF Min

LEMMA MaxOfTwo ==
  ASSUME NEW m \in Nat, NEW n \in Nat
  PROVE  Max({m, n}) \in Nat /\ Max({m, n}) >= m /\ Max({m, n}) >= n
<1>1. \E x \in {m, n} : \A y \in {m, n} : x >= y
  OBVIOUS
<1> QED
  BY <1>1 DEF Max

-----------------------------------------------------------------------------
(* What a higher price makes of a deal.                                    *)

LEMMA ProductsGrow ==
  ASSUME NEW k \in Nat, NEW m \in Int, NEW n \in Int, m <= n
  PROVE  k * m \in Int /\ k * n \in Int /\ k * m <= k * n
<1>1. n - m \in Nat
  OBVIOUS
<1>2. k * (n - m) \in Nat
  BY <1>1
<1>3. k * n = k * m + k * (n - m)
  OBVIOUS
<1> QED
  BY <1>2, <1>3

\* The targets, each once.
LEMMA OrderFacts ==
  /\ Len(TargetOrder) = 5 /\ DOMAIN TargetOrder = 1 .. 5
  /\ \A i \in DOMAIN TargetOrder : TargetOrder[i] \in Targets
  /\ \A t \in Targets : \E i \in DOMAIN TargetOrder : t = TargetOrder[i]
  /\ \A i, j \in DOMAIN TargetOrder : TargetOrder[i] = TargetOrder[j] => i = j
  /\ Targets = {"break_even", "monthly_cash_flow", "cap_rate", "cash_on_cash", "dscr"}
<1>1. Len(TargetOrder) = 5 /\ DOMAIN TargetOrder = 1 .. 5
  BY DEF TargetOrder
<1>2. /\ TargetOrder[1] = "break_even" /\ TargetOrder[2] = "monthly_cash_flow"
      /\ TargetOrder[3] = "cap_rate" /\ TargetOrder[4] = "cash_on_cash" /\ TargetOrder[5] = "dscr"
  BY DEF TargetOrder
<1>3. \A i \in DOMAIN TargetOrder : i = 1 \/ i = 2 \/ i = 3 \/ i = 4 \/ i = 5
  BY <1>1
<1>4. Targets = {"break_even", "monthly_cash_flow", "cap_rate", "cash_on_cash", "dscr"}
  BY <1>1, <1>2, <1>3 DEF Targets
<1>5. \A i, j \in DOMAIN TargetOrder : TargetOrder[i] = TargetOrder[j] => i = j
  BY <1>2, <1>3
<1> QED
  BY <1>1, <1>4, <1>5 DEF Targets

LEMMA PartsOfDeal ==
  ASSUME NEW d \in Deal
  PROVE  /\ d.down \in Nat /\ d.payment \in Nat /\ d.insurance \in Nat /\ d.points \in Nat
         /\ d.closing \in Nat /\ d.costs \in Nat /\ d.noi \in Int
         /\ d.loan # None => d.loan \in Nat
         /\ \A t \in Targets : d.target[t] # None => d.target[t] \in Int
         /\ d.kind \in {"percent", "amount", "rest"}
         /\ d.kind = "amount" => d.loan = None
         /\ d.kind = "rest" => d.loan # None
BY DEF Deal

\* A higher price needs no lower down payment and no lower loan.
LEMMA AmountsGrow ==
  ASSUME NEW d \in Deal, NEW p \in Nat, NEW q \in Nat \ {0}, q <= p, ~Refused(d, q)
  PROVE  /\ Down(d, q) \in Int /\ Down(d, p) \in Int /\ Down(d, q) <= Down(d, p)
         /\ Loan(d, q) \in Nat /\ Loan(d, p) \in Nat /\ Loan(d, q) <= Loan(d, p)
<1>1. CASE d.kind = "percent"
  <2>1. Down(d, q) = d.down * q /\ Down(d, p) = d.down * p
    BY <1>1 DEF Down
  <2>2. d.down * q \in Int /\ d.down * p \in Int /\ d.down * q <= d.down * p
    BY PartsOfDeal, ProductsGrow
  <2>3. CASE d.loan # None
    BY <2>1, <2>2, <2>3, PartsOfDeal DEF Loan
  <2>4. CASE d.loan = None
    <3>1. d.down * q <= 100 * q
      BY <2>1, <2>2 DEF Refused
    <3>2. d.down <= 100
      <4>1. SUFFICES ASSUME d.down >= 101 PROVE FALSE
        BY PartsOfDeal
      <4>2. q * 101 <= q * d.down
        BY <4>1, PartsOfDeal, ProductsGrow
      <4> QED
        BY <3>1, <4>2, PartsOfDeal
    <3> DEFINE k == 100 - d.down
    <3>3. k \in Nat
      BY <3>2, PartsOfDeal
    <3>4. Loan(d, q) = k * q /\ Loan(d, p) = k * p
      BY <2>1, <2>4, PartsOfDeal DEF Loan
    <3> HIDE DEF k
    <3>5. k * q \in Nat /\ k * p \in Nat /\ k * q <= k * p
      BY <3>3, ProductsGrow
    <3> QED
      BY <2>1, <2>2, <3>4, <3>5
  <2> QED
    BY <2>3, <2>4
<1>2. CASE d.kind = "amount"
  BY <1>2, PartsOfDeal DEF Down, Loan, Refused
<1>3. CASE d.kind = "rest"
  BY <1>3, PartsOfDeal DEF Down, Loan, Refused
<1> QED
  BY <1>1, <1>2, <1>3, PartsOfDeal

\* It leaves no more of the income.
LEMMA DebtGrows ==
  ASSUME NEW d \in Deal, NEW p \in Nat, NEW q \in Nat \ {0}, q <= p, ~Refused(d, q)
  PROVE  /\ Debt(d, q) \in Nat /\ Debt(d, p) \in Nat /\ Debt(d, q) <= Debt(d, p)
         /\ CashFlow(d, q) \in Int /\ CashFlow(d, p) \in Int /\ CashFlow(d, p) <= CashFlow(d, q)
<1>1. Loan(d, q) \in Nat /\ Loan(d, p) \in Nat /\ Loan(d, q) <= Loan(d, p)
  BY AmountsGrow
<1> DEFINE pq == d.payment * Loan(d, q)
           pp == d.payment * Loan(d, p)
<1>2. pq \in Nat /\ pp \in Nat /\ pq <= pp
  BY <1>1, PartsOfDeal, ProductsGrow
<1>3. Debt(d, q) = pq + 10000 * d.insurance /\ Debt(d, p) = pp + 10000 * d.insurance
  BY DEF Debt
<1> HIDE DEF pq, pp
<1>4. Debt(d, q) \in Nat /\ Debt(d, p) \in Nat /\ Debt(d, q) <= Debt(d, p)
  BY <1>2, <1>3, PartsOfDeal
<1> QED
  BY <1>4, PartsOfDeal DEF CashFlow

\* Unless a fixed loan leaves the down payment, it takes no less cash.
LEMMA CashGrows ==
  ASSUME NEW d \in Deal, NEW p \in Nat, NEW q \in Nat \ {0}, q <= p, ~Refused(d, q), d.kind # "rest"
  PROVE  Cash(d, q) \in Nat /\ Cash(d, p) \in Nat /\ Cash(d, q) <= Cash(d, p)
<1> DEFINE dq == Down(d, q)
           dp == Down(d, p)
           cq == d.closing * q
           cp == d.closing * p
           lq == d.points * Loan(d, q)
           lp == d.points * Loan(d, p)
<1>1. dq \in Nat /\ dp \in Nat /\ dq <= dp
  <2>1. CASE d.kind = "percent"
    BY <2>1, PartsOfDeal, ProductsGrow DEF Down
  <2>2. CASE d.kind = "amount"
    BY <2>2, PartsOfDeal DEF Down
  <2> QED
    BY <2>1, <2>2, PartsOfDeal
<1>2. cq \in Nat /\ cp \in Nat /\ cq <= cp
  BY PartsOfDeal, ProductsGrow
<1>3. lq \in Nat /\ lp \in Nat /\ lq <= lp
  BY AmountsGrow, PartsOfDeal, ProductsGrow
<1>4. /\ Cash(d, q) = 100 * (dq + cq + 100 * d.costs) + lq
      /\ Cash(d, p) = 100 * (dp + cp + 100 * d.costs) + lp
  BY DEF Cash
<1> HIDE DEF dq, dp, cq, cp, lq, lp
<1> QED
  BY <1>1, <1>2, <1>3, <1>4, PartsOfDeal

\* What a price meets a lower one meets too, where the deal can be financed at it, its metric
\* exists and the target does not turn.
THEOREM LowerMeets ==
  ASSUME NEW d \in Deal, NEW t \in Targets, d.target[t] # None, ~Turns(d, t),
         NEW p \in Nat, NEW q \in Nat \ {0}, q <= p, ~Refused(d, q), HasMetric(d, t, q),
         Meets(d, t, p)
  PROVE  Meets(d, t, q)
<1> DEFINE goal == d.target[t]
<1>1. goal \in Int
  BY PartsOfDeal
<1>2. /\ Debt(d, q) \in Nat /\ Debt(d, p) \in Nat /\ Debt(d, q) <= Debt(d, p)
      /\ CashFlow(d, q) \in Int /\ CashFlow(d, p) \in Int /\ CashFlow(d, p) <= CashFlow(d, q)
  BY DebtGrows
<1>3. CASE t \in {"break_even", "monthly_cash_flow"}
  BY <1>1, <1>2, <1>3 DEF Meets
<1>4. CASE t = "cap_rate"
  <2>1. goal \in Nat
    BY <1>1, <1>4 DEF Turns
  <2>2. goal * q <= goal * p /\ goal * q \in Int /\ goal * p \in Int
    BY <2>1, ProductsGrow
  <2>3. 100 * d.noi >= goal * p
    BY <1>4 DEF Meets
  <2> QED
    BY <1>4, <2>2, <2>3, PartsOfDeal DEF Meets
<1>5. CASE t = "cash_on_cash"
  <2>1. goal \in Nat /\ d.kind # "rest"
    BY <1>1, <1>5 DEF Turns
  <2>2. /\ Cash(d, q) \in Nat /\ Cash(d, p) \in Nat /\ Cash(d, q) <= Cash(d, p)
    BY <2>1, CashGrows
  <2>3. Cash(d, p) > 0 /\ 100 * CashFlow(d, p) >= goal * Cash(d, p)
    BY <1>5, <2>2 DEF Meets
  <2>4. goal * Cash(d, q) <= goal * Cash(d, p) /\ goal * Cash(d, q) \in Int /\ goal * Cash(d, p) \in Int
    BY <2>1, <2>2, ProductsGrow
  <2>5. Cash(d, q) > 0 /\ 100 * CashFlow(d, q) >= goal * Cash(d, q)
    BY <1>2, <1>5, <2>2, <2>3, <2>4 DEF HasMetric
  <2> QED
    BY <1>5, <2>5 DEF Meets
<1>6. CASE t = "dscr"
  <2>1. goal \in Nat
    BY <1>1, <1>6 DEF Turns
  <2>2. goal * Debt(d, q) <= goal * Debt(d, p) /\ goal * Debt(d, q) \in Int /\ goal * Debt(d, p) \in Int
    BY <1>2, <2>1, ProductsGrow
  <2>3. Debt(d, p) > 0 /\ 1000000 * d.noi >= goal * Debt(d, p)
    BY <1>6 DEF Meets
  <2>4. Debt(d, q) > 0 /\ 1000000 * d.noi >= goal * Debt(d, q)
    BY <1>2, <1>6, <2>2, <2>3, PartsOfDeal DEF HasMetric
  <2> QED
    BY <1>6, <2>4 DEF Meets
<1> QED
  BY <1>3, <1>4, <1>5, <1>6, OrderFacts

-----------------------------------------------------------------------------
(* The search.                                                             *)

\* The evaluator answered no; where that is conclusive no higher price meets the target.
Missed(d, t, p) ==
  /\ ~Refused(d, p) /\ ~Meets(d, t, p)
  /\ Conclusive(d, t, p) => \A higher \in Nat : higher >= p => ~Meets(d, t, higher)

Met(d, t, p) == ~Refused(d, p) /\ Meets(d, t, p)

\* No target without a threshold, or one that cannot be moved up.
Tight(d, t, threshold, top) ==
  /\ d.target[t] = None => threshold = None
  /\ d.target[t] # None =>
       IF threshold = None THEN Missed(d, t, 2)
       ELSE /\ Met(d, t, threshold)
            /\ Missed(d, t, threshold + 1) \/ threshold = top - 1

\* What is left of the interval lies between a price that meets the target and one that
\* misses it, or reaches to an end of the search.
Brackets(d, t, s, top) ==
  /\ s.low < s.high /\ s.high <= top /\ s.low >= 1
  /\ s.best = None => s.low = 1
  /\ s.best # None => s.best = s.low /\ Met(d, t, s.low)
  /\ s.high = top \/ Missed(d, t, s.high)

Searches ==
  underwriting = "search" =>
    /\ search.target <= Len(TargetOrder) =>
         IF Sought(Target) THEN Brackets(deal, Target, search, SearchHigh) ELSE search.best = None
    /\ \A i \in DOMAIN TargetOrder :
         IF i < search.target
         THEN Tight(deal, TargetOrder[i], thresholds[TargetOrder[i]], SearchHigh)
         ELSE thresholds[TargetOrder[i]] = None

AllTight == underwriting = "done" => \A t \in Targets : Tight(deal, t, thresholds[t], SearchHigh)

SearchInv ==
  /\ OfferTypeOK
  /\ underwriting = "validate" =>
       search = NewSearch(1) /\ \A t \in Targets : thresholds[t] = None
  /\ Searches
  /\ AllTight

LEMMA DealFacts ==
  ASSUME deal \in Deals
  PROVE  /\ deal \in Deal
         /\ Asking \in Nat /\ Asking >= 2
         /\ SearchHigh \in Nat /\ SearchHigh >= 4
         /\ deal.purchase \in Nat /\ deal.purchase >= 2
         /\ deal.asking # None => deal.asking \in Nat /\ deal.asking >= 2
<1>1. deal \in Deal
  BY DealsAreDeals
<1>2. deal.asking \in Prices \cup {None} /\ deal.purchase \in Prices
  BY <1>1 DEF Deal
<1>3. \A p \in Prices : p \in Nat /\ p >= 2
  BY PricesArePrices
<1>4. Asking \in Nat /\ Asking >= 2
  BY <1>2, <1>3 DEF Asking
<1>5. SearchHigh \in Nat /\ SearchHigh >= 2 * Asking
  BY <1>4, MaxOfTwo, FloorIsNatural DEF SearchHigh
<1> QED
  BY <1>1, <1>2, <1>3, <1>4, <1>5

\* A conclusive price meets what a higher one meets.
LEMMA ConclusiveMeets ==
  ASSUME NEW d \in Deal, NEW t \in Targets, d.target[t] # None,
         NEW p \in Nat, NEW q \in Nat \ {0}, q <= p, Conclusive(d, t, q), Meets(d, t, p)
  PROVE  Meets(d, t, q)
BY LowerMeets DEF Conclusive

LEMMA MissIsMissed ==
  ASSUME NEW d \in Deal, NEW t \in Targets, d.target[t] # None, NEW p \in Nat \ {0},
         ~Refused(d, p), ~Meets(d, t, p)
  PROVE  Missed(d, t, p)
BY ConclusiveMeets DEF Missed

LEMMA InitSearch == Init => SearchInv
<1> SUFFICES ASSUME Init PROVE SearchInv
  OBVIOUS
<1> USE DEF Init, OfferInit
<1>1. OfferTypeOK
  BY DealFacts, OrderFacts DEF OfferTypeOK, NewSearch
<1> QED
  BY <1>1 DEF SearchInv, Searches, AllTight

\* Nothing but the deal decides how far the search goes.
LEMMA SameDeal ==
  ASSUME deal' = deal
  PROVE  SearchHigh' = SearchHigh
BY DEF SearchHigh, Asking

\* One halving leaves a price that meets the target below and one that misses it above.
LEMMA BisectKeeps ==
  ASSUME SearchInv, Bisect
  PROVE  SearchInv'
<1> USE DEF SearchInv
<1>1. /\ deal' = deal /\ thresholds' = thresholds /\ underwriting = "search"
      /\ search.target <= Len(TargetOrder) /\ deal.target[Target] # None
      /\ search.high - search.low > 1 /\ SearchHigh' = SearchHigh
  BY SameDeal DEF Bisect, Bisecting, Sought
<1>2. /\ deal \in Deal /\ search.low \in Nat /\ search.high \in Nat /\ search.target \in Nat
      /\ search.target >= 1 /\ SearchHigh \in Nat
  BY DealFacts DEF OfferTypeOK
<1>3. CASE underwriting' = "invalid" /\ search' = search
  BY <1>1, <1>3 DEF OfferTypeOK, Searches, AllTight
<1>4. CASE /\ ~Refused(deal, Mid)
           /\ search' = Narrowed(Mid, Meets(deal, Target, Mid))
           /\ underwriting' = underwriting
  <2>1. Mid \in Nat \ {0} /\ search.low < Mid /\ Mid < search.high /\ Mid # None
    <3>1. search.low < Mid /\ Mid < search.high /\ Mid \in Nat
      BY <1>1, <1>2 DEF Mid
    <3> QED
      BY <1>2, <3>1, NoneIsNoPrice
  <2>2. Target \in Targets
    BY <1>1, <1>2, OrderFacts DEF Target
  <2>3. /\ search'.target = search.target /\ Target' = Target
        /\ search' \in [target : 1 .. Len(TargetOrder) + 1, low : Nat, high : Nat, best : Nat \cup {None}]
        /\ IF Meets(deal, Target, Mid)
           THEN search'.low = Mid /\ search'.best = Mid /\ search'.high = search.high
           ELSE search'.low = search.low /\ search'.best = search.best /\ search'.high = Mid
    BY <1>4, <2>1 DEF Narrowed, Target, OfferTypeOK
  <2>4. OfferTypeOK'
    BY <1>1, <1>4, <2>3 DEF OfferTypeOK
  <2>5. Brackets(deal, Target, search, SearchHigh)
    BY <1>1 DEF Searches, Sought
  <2>6. IF Meets(deal, Target, Mid) THEN Met(deal, Target, Mid) ELSE Missed(deal, Target, Mid)
    BY <1>1, <1>2, <1>4, <2>1, <2>2, MissIsMissed DEF Met
  <2>7. Brackets(deal, Target, search', SearchHigh)
    BY <1>2, <2>1, <2>3, <2>5, <2>6 DEF Brackets
  <2>8. Searches'
    BY <1>1, <2>3, <2>7 DEF Searches, Sought
  <2> QED
    BY <1>1, <1>4, <2>4, <2>8 DEF AllTight
<1> QED
  BY <1>3, <1>4 DEF Bisect

\* Where the interval is as narrow as the tolerance, or there was nothing to search, the
\* threshold of the target is tight.
LEMMA NextTargetKeeps ==
  ASSUME SearchInv, NextTarget
  PROVE  SearchInv'
<1> USE DEF SearchInv
<1>1. /\ deal' = deal /\ underwriting' = underwriting /\ underwriting = "search"
      /\ search.target <= Len(TargetOrder) /\ ~Bisecting
      /\ search' = NewSearch(search.target + 1)
      /\ thresholds' = [thresholds EXCEPT ![Target] = search.best]
  BY DEF NextTarget
<1>2. /\ deal \in Deal /\ search.low \in Nat /\ search.high \in Nat /\ search.best \in Nat \cup {None}
      /\ SearchHigh \in Nat /\ SearchHigh >= 4 /\ SearchHigh' = SearchHigh
  BY <1>1, DealFacts, SameDeal DEF OfferTypeOK
<1>3. search.target \in DOMAIN TargetOrder /\ Target = TargetOrder[search.target] /\ Target \in Targets
  BY <1>1, OrderFacts DEF OfferTypeOK, Target
<1>4. search' = [target |-> search.target + 1, low |-> 1, high |-> SearchHigh, best |-> None]
  BY <1>1 DEF NewSearch
<1>5. OfferTypeOK'
  <2>1. search.target + 1 \in 1 .. Len(TargetOrder) + 1
    BY <1>3, OrderFacts
  <2>2. search' \in [target : 1 .. Len(TargetOrder) + 1, low : Nat, high : Nat, best : Nat \cup {None}]
    BY <1>2, <1>4, <2>1
  <2>3. thresholds' \in [Targets -> Nat \cup {None}]
    BY <1>1, <1>2, <1>3 DEF OfferTypeOK
  <2> QED
    BY <1>1, <2>2, <2>3 DEF OfferTypeOK
<1>6. thresholds'[Target] = search.best /\ \A t \in Targets : t # Target => thresholds'[t] = thresholds[t]
  BY <1>1, <1>3 DEF OfferTypeOK
<1>7. Tight(deal, Target, search.best, SearchHigh)
  <2>1. CASE deal.target[Target] = None
    BY <1>1, <2>1 DEF Searches, Sought, Tight
  <2>2. CASE deal.target[Target] # None
    <3>1. Brackets(deal, Target, search, SearchHigh) /\ search.high - search.low <= 1
      BY <1>1, <1>2, <2>2 DEF Searches, Sought, Bisecting
    <3>2. search.high = search.low + 1
      BY <1>2, <3>1 DEF Brackets
    <3>3. CASE search.best = None
      <4>1. search.high = 2 /\ Missed(deal, Target, 2)
        BY <1>2, <3>1, <3>2, <3>3 DEF Brackets
      <4> QED
        BY <2>2, <3>3, <4>1 DEF Tight
    <3>4. CASE search.best # None
      <4>1. search.best = search.low /\ Met(deal, Target, search.low)
        BY <3>1, <3>4 DEF Brackets
      <4>2. search.high = search.best + 1 /\ (search.high = SearchHigh \/ Missed(deal, Target, search.high))
        BY <3>1, <3>2, <4>1 DEF Brackets
      <4>3. search.best = SearchHigh - 1 \/ Missed(deal, Target, search.best + 1)
        BY <1>2, <4>1, <4>2
      <4> QED
        BY <2>2, <3>4, <4>1, <4>3 DEF Tight
    <3> QED
      BY <3>3, <3>4
  <2> QED
    BY <2>1, <2>2
<1>8. ASSUME NEW i \in DOMAIN TargetOrder, i # search.target
      PROVE  thresholds'[TargetOrder[i]] = thresholds[TargetOrder[i]]
  BY <1>3, <1>6, <1>8, OrderFacts
<1>9. ASSUME NEW i \in DOMAIN TargetOrder
      PROVE  IF i < search'.target
             THEN Tight(deal, TargetOrder[i], thresholds'[TargetOrder[i]], SearchHigh)
             ELSE thresholds'[TargetOrder[i]] = None
  <2>1. i \in Nat /\ search.target \in Nat /\ search'.target = search.target + 1
    BY <1>3, <1>4, OrderFacts
  <2>2. CASE i = search.target
    BY <1>3, <1>6, <1>7, <2>1, <2>2
  <2>3. CASE i < search.target
    BY <1>1, <1>8, <2>1, <2>3 DEF Searches
  <2>4. CASE i > search.target
    BY <1>1, <1>8, <2>1, <2>4 DEF Searches
  <2> QED
    BY <2>1, <2>2, <2>3, <2>4
<1>10. Brackets(deal, Target', search', SearchHigh) /\ search'.best = None
  BY <1>2, <1>4 DEF Brackets
<1>11. Searches'
  BY <1>1, <1>2, <1>9, <1>10 DEF Searches
<1> QED
  BY <1>1, <1>5, <1>11 DEF AllTight

LEMMA SearchStep ==
  ASSUME SearchInv, [Next]_vars
  PROVE  SearchInv'
<1> USE DEF SearchInv
<1>1. CASE Validate
  <2>1. /\ deal' = deal /\ search' = search /\ thresholds' = thresholds /\ underwriting = "validate"
        /\ underwriting' \in {"invalid", "search"} /\ SearchHigh' = SearchHigh
    BY <1>1, SameDeal DEF Validate
  <2>2. /\ search = [target |-> 1, low |-> 1, high |-> SearchHigh, best |-> None]
        /\ SearchHigh \in Nat /\ SearchHigh >= 4
    BY <2>1, DealFacts DEF NewSearch, OfferTypeOK
  <2>3. OfferTypeOK'
    BY <2>1 DEF OfferTypeOK
  <2>4. Brackets(deal, Target', search, SearchHigh) /\ search.best = None
    BY <2>2 DEF Brackets
  <2>5. \A i \in DOMAIN TargetOrder : ~(i < search.target) /\ thresholds[TargetOrder[i]] = None
    BY <2>1, <2>2, OrderFacts
  <2>6. Searches'
    BY <2>1, <2>4, <2>5 DEF Searches
  <2> QED
    BY <2>1, <2>3, <2>6 DEF AllTight
<1>2. CASE Bisect
  BY <1>2, BisectKeeps
<1>3. CASE NextTarget
  BY <1>3, NextTargetKeeps
<1>4. CASE PricesDone
  <2>1. /\ deal' = deal /\ search' = search /\ thresholds' = thresholds /\ underwriting = "search"
        /\ underwriting' = "done" /\ search.target > Len(TargetOrder) /\ SearchHigh' = SearchHigh
    BY <1>4, SameDeal DEF PricesDone
  <2>2. \A i \in DOMAIN TargetOrder : i < search.target
    BY <2>1, OrderFacts DEF OfferTypeOK
  <2>3. \A t \in Targets : Tight(deal, t, thresholds[t], SearchHigh)
    BY <2>1, <2>2, OrderFacts DEF Searches
  <2> QED
    BY <2>1, <2>3 DEF OfferTypeOK, Searches, AllTight
<1>5. CASE UNCHANGED offerVars
  <2>1. /\ deal' = deal /\ search' = search /\ thresholds' = thresholds
        /\ underwriting' = underwriting /\ SearchHigh' = SearchHigh /\ Target' = Target
    BY <1>5, SameDeal DEF offerVars, Target
  <2>2. Searches'
    BY <2>1 DEF Searches, Sought
  <2>3. OfferTypeOK' /\ AllTight'
    BY <2>1 DEF OfferTypeOK, AllTight
  <2>4. NewSearch(1)' = NewSearch(1)
    BY <2>1 DEF NewSearch
  <2> QED
    BY <2>1, <2>2, <2>3, <2>4
<1> QED
  BY <1>1, <1>2, <1>3, <1>4, <1>5
     DEF Next, Underwrite, OfferNext, Convene, Respond, Garble, TimeOut, ModelFails, vars

\* What the search keeps is what is promised of its end.
LEMMA TightIsTight ==
  ASSUME SearchInv
  PROVE  ThresholdsAreTight
<1> SUFFICES ASSUME underwriting = "done", NEW t \in Targets
             PROVE  LET found == thresholds[t]
                        next == IF found = None THEN 2 ELSE found + 1
                    IN  /\ found # None => Sought(t) /\ ~Refused(deal, found) /\ Meets(deal, t, found)
                        /\ Sought(t) =>
                             \A p \in next .. SearchHigh - 1 :
                               Meets(deal, t, p) => p # next /\ ~Conclusive(deal, t, next)
  BY DEF ThresholdsAreTight
<1> DEFINE found == thresholds[t]
           next == IF found = None THEN 2 ELSE found + 1
<1>1. Tight(deal, t, found, SearchHigh) /\ found \in Nat \cup {None} /\ SearchHigh \in Nat
  BY DealFacts DEF SearchInv, AllTight, OfferTypeOK
<1>2. found # None => Sought(t) /\ Met(deal, t, found)
  BY <1>1 DEF Tight, Sought
<1>3. Sought(t) => Missed(deal, t, next) \/ next = SearchHigh
  BY <1>1 DEF Tight, Sought
<1>4. next \in Nat
  BY <1>1
<1> HIDE DEF next
<1>5. ASSUME Sought(t), NEW p \in next .. SearchHigh - 1, Meets(deal, t, p)
      PROVE  p # next /\ ~Conclusive(deal, t, next)
  <2>1. Missed(deal, t, next) /\ p \in Nat /\ p >= next
    BY <1>1, <1>3, <1>4, <1>5
  <2> QED
    BY <1>5, <2>1 DEF Missed
<1> QED
  BY <1>2, <1>5 DEF Met, next

-----------------------------------------------------------------------------
(* The committee.                                                          *)

\* The thresholds found are prices, and the least of them binds.
LEMMA BindingFacts ==
  ASSUME SearchInv, underwriting = "done", Available # {}
  PROVE  /\ BindingMaximum = Min(Available) /\ BindingMaximum # None
         /\ Min(Available) \in Available /\ Min(Available) \in Nat
         /\ \A p \in Available : p \in Nat /\ Min(Available) <= p
<1>1. Available \subseteq Nat
  BY DEF SearchInv, OfferTypeOK, Available
<1>2. Min(Available) \in Available /\ \A p \in Available : Min(Available) <= p
  BY <1>1, MinIsLeast
<1>3. Min(Available) \in Nat /\ \A p \in Available : p \in Nat
  BY <1>1, <1>2
<1>4. BindingMaximum = Min(Available)
  BY DEF BindingMaximum
<1>5. BindingMaximum # None
  BY <1>3, <1>4, NoneIsNoPrice
<1> QED
  BY <1>2, <1>3, <1>4, <1>5

\* A price not above a threshold is backed by its target.
LEMMA ThresholdBacks ==
  ASSUME SearchInv, underwriting = "done", NEW t \in Targets, thresholds[t] # None,
         NEW p \in Nat, p <= thresholds[t], p # 0 \/ p = thresholds[t]
  PROVE  Backed(t, p)
<1>1. deal \in Deal /\ thresholds[t] \in Nat
  BY DealFacts DEF SearchInv, OfferTypeOK
<1>2. deal.target[t] # None /\ Meets(deal, t, thresholds[t])
  <2>1. Tight(deal, t, thresholds[t], SearchHigh)
    BY DEF SearchInv, AllTight
  <2> QED
    BY <2>1 DEF Tight, Met
<1>3. ASSUME p # 0, Conclusive(deal, t, p) PROVE Meets(deal, t, p)
  BY <1>1, <1>2, <1>3, ConclusiveMeets
<1> QED
  BY <1>2, <1>3 DEF Backed

LEMMA DecisiveSought ==
  ASSUME deal \in Deals, NEW t \in Decisive
  PROVE  t \in Targets /\ deal.target[t] # None
<1>1. deal \in Deal
  BY DealFacts
<1>2. deal.target["break_even"] = 0 /\ "break_even" \in Targets /\ 0 # None
  BY <1>1, OrderFacts, NoneIsNoPrice DEF Deal
<1>3. t \in ClientTargets \/ t = "break_even"
  BY DEF Decisive
<1> QED
  BY <1>2, <1>3 DEF ClientTargets

LEMMA BuysSupported ==
  ASSUME SearchInv, underwriting = "done", AskingSupported, TargetsMet, NEW t \in Decisive
  PROVE  /\ Meets(deal, t, deal.purchase)
         /\ Backed(t, deal.asking) \/ (thresholds[t] = None /\ ~Conclusive(deal, t, 2))
<1>1. deal \in Deals
  BY DEF SearchInv, OfferTypeOK
<1>2. t \in Targets /\ deal.target[t] # None
  BY <1>1, DecisiveSought
<1>3. /\ deal.purchase \in Nat /\ deal.purchase >= 2
      /\ deal.asking \in Nat /\ deal.asking >= 2
  BY <1>1, DealFacts DEF AskingSupported
<1>4. Meets(deal, t, deal.purchase)
  BY DEF TargetsMet
<1>5. CASE thresholds[t] = None
  <2>1. Missed(deal, t, 2)
    BY <1>2, <1>5 DEF SearchInv, AllTight, Tight
  <2>2. ~Conclusive(deal, t, 2)
    BY <1>3, <1>4, <2>1 DEF Missed
  <2> QED
    BY <1>4, <1>5, <2>2
<1>6. CASE thresholds[t] # None
  <2>1. thresholds[t] \in Available
    BY <1>2, <1>6 DEF Available
  <2>2. BindingMaximum \in Nat /\ thresholds[t] \in Nat /\ BindingMaximum <= thresholds[t]
    BY <2>1, BindingFacts
  <2>3. deal.asking <= BindingMaximum
    BY DEF AskingSupported
  <2>4. deal.asking <= thresholds[t] /\ deal.asking # 0
    BY <1>3, <2>2, <2>3
  <2> QED
    BY <1>2, <1>3, <1>4, <1>6, <2>4, ThresholdBacks
<1> QED
  BY <1>5, <1>6

LEMMA RangeMeets ==
  ASSUME SearchInv, underwriting = "done", NEW p \in OfferRange.allowed
  PROVE  \E t \in Targets : Backed(t, p)
<1>1. Available # {} /\ deal.asking # None
  BY DEF OfferRange, NoRange
<1>2. deal.asking \in Nat /\ deal.asking # 0
  BY <1>1, DealFacts DEF SearchInv, OfferTypeOK
<1>3. CASE p \in Available
  <2>1. PICK t \in Targets : thresholds[t] = p /\ thresholds[t] # None
    BY <1>3 DEF Available
  <2>2. p \in Nat
    BY <2>1 DEF SearchInv, OfferTypeOK
  <2> QED
    BY <2>1, <2>2, ThresholdBacks
<1>4. CASE p \notin Available
  <2>1. p = deal.asking /\ deal.asking <= Min(Available)
    BY <1>1, <1>4 DEF OfferRange
  <2>2. PICK t \in Targets : thresholds[t] = Min(Available) /\ thresholds[t] # None
    BY <1>1, BindingFacts DEF Available
  <2>3. deal.asking <= thresholds[t]
    BY <2>1, <2>2
  <2> QED
    BY <1>2, <2>1, <2>2, <2>3, ThresholdBacks
<1> QED
  BY <1>3, <1>4

\* The outputs, and where they come from.
OutputInv ==
  /\ committee.pc # "waiting" => underwriting = "done"
  /\ output # None => committee.pc = "returned"
  /\ BuyIsSupported
  /\ OffersMeetATarget

\* A draft that is returned keeps to what underwriting found.
LEMMA RespondKeeps ==
  ASSUME TypeOK, SearchInv, OutputInv, Respond
  PROVE  OutputInv'
<1>1. /\ deal' = deal /\ thresholds' = thresholds /\ underwriting' = underwriting /\ dossier' = dossier
      /\ committee.pc = "running" /\ underwriting = "done"
  BY DEF Respond, OutputInv, offerVars
<1>2. output = None
  BY <1>1 DEF OutputInv
<1>3. CASE output' = output
  BY <1>1, <1>2, <1>3 DEF OutputInv, BuyIsSupported, OffersMeetATarget
<1>4. CASE output' # output
  <2>1. PICK draft \in Drafts :
          /\ Accepted(draft, dossier)
          /\ committee' = [committee EXCEPT !.pc = "returned"]
          /\ output' = [label |-> Enforced(draft.label, dossier), confidence |-> draft.confidence,
                        low |-> draft.low, high |-> draft.high, retry_count |-> committee.attempt]
    BY <1>4 DEF Respond
  <2>2. /\ output'.label = Enforced(draft.label, dossier)
        /\ output'.low = draft.low /\ output'.high = draft.high
    BY <2>1
  <2>3. output'.label \in Allowed(dossier)
    BY <2>2 DEF Enforced, Allowed, Labels
  <2>4. BuyIsSupported'
    <3>1. /\ Decisive' = Decisive
          /\ \A t \in Decisive : Backed(t, deal.asking)' = Backed(t, deal.asking)
      BY <1>1 DEF Decisive, ClientTargets, Backed
    <3>2. output'.label \in Buys => AskingSupported /\ TargetsMet
      BY <2>3 DEF Allowed, Buys, NoBuy, NoStrongBuy
    <3> QED
      BY <1>1, <3>1, <3>2, BuysSupported DEF BuyIsSupported
  <2>5. WellFormed(draft) /\ OfferAllowed(draft)
    BY <2>1 DEF Drafts, Accepted
  <2>6. ASSUME NEW p \in {output'.low, output'.high} \ {None}
        PROVE  \E t \in Targets : thresholds[t] # None /\ p <= thresholds[t]
                                   /\ (Conclusive(deal, t, p) => Meets(deal, t, p))
    <3>1. p \in OfferRange.allowed
      BY <2>2, <2>5, <2>6 DEF WellFormed, OfferAllowed
    <3> QED
      BY <1>1, <3>1, RangeMeets DEF Backed
  <2>7. ASSUME output'.label = "buy_only_below"
        PROVE  /\ output'.high # None
               /\ \E t \in Targets : thresholds[t] # None /\ thresholds[t] < deal.asking
    <3>1. draft.label = "buy_only_below"
      BY <2>2, <2>7 DEF Enforced
    <3>2. Available # {} /\ deal.asking # None /\ ~AskingSupported
      BY <2>3, <2>7 DEF Allowed, NoBuyOnlyBelow, OfferRange
    <3>3. Min(Available) \in Available /\ Min(Available) \in Nat /\ ~(deal.asking <= Min(Available))
      BY <1>1, <3>2, BindingFacts DEF AskingSupported
    <3>4. deal.asking \in Nat
      BY <3>2, DealFacts DEF SearchInv, OfferTypeOK
    <3>5. PICK t \in Targets : thresholds[t] = Min(Available) /\ thresholds[t] # None
      BY <3>3 DEF Available
    <3> QED
      BY <2>2, <2>5, <3>1, <3>3, <3>4, <3>5 DEF WellFormed
  <2>8. OffersMeetATarget'
    BY <1>1, <2>6, <2>7 DEF OffersMeetATarget, Backed
  <2>9. committee'.pc = "returned"
    BY <2>1 DEF TypeOK
  <2> QED
    BY <1>1, <2>4, <2>8, <2>9 DEF OutputInv
<1> QED
  BY <1>3, <1>4

LEMMA OutputStep ==
  ASSUME TypeOK, SearchInv, OutputInv, [Next]_vars
  PROVE  OutputInv'
<1>1. CASE Respond
  BY <1>1, RespondKeeps
<1>2. CASE Underwrite
  <2>1. /\ dossier' = dossier /\ committee' = committee /\ output' = output
        /\ underwriting # "done"
    BY <1>2 DEF Underwrite, OfferNext, Validate, Bisect, Bisecting, NextTarget, PricesDone
  <2>2. output = None /\ committee.pc = "waiting"
    BY <2>1 DEF OutputInv
  <2> QED
    BY <2>1, <2>2 DEF OutputInv, BuyIsSupported, OffersMeetATarget
<1>3. CASE Convene \/ Garble \/ TimeOut \/ ModelFails \/ UNCHANGED vars
  <2>1. /\ deal' = deal /\ thresholds' = thresholds /\ underwriting' = underwriting /\ output' = output
    BY <1>3 DEF Convene, Garble, TimeOut, ModelFails, vars, offerVars
  <2>2. \/ committee.pc = "waiting" /\ underwriting = "done"
        \/ committee.pc = "running"
        \/ committee' = committee
    BY <1>3 DEF Convene, Garble, TimeOut, ModelFails, vars
  <2>3. BuyIsSupported' /\ OffersMeetATarget'
    BY <2>1 DEF OutputInv, BuyIsSupported, OffersMeetATarget, Decisive, ClientTargets, Backed
  <2> QED
    BY <2>1, <2>2, <2>3 DEF OutputInv
<1> QED
  BY <1>1, <1>2, <1>3 DEF Next

-----------------------------------------------------------------------------
(* Types.                                                                  *)

LEMMA FailureTyped ==
  ASSUME TypeOK, committee.pc = "running", NEW kind \in {"timeout", "error"},
         committee' = AfterFailure(committee, kind)
  PROVE  committee' \in [pc : {"waiting", "running", "returned", "failed"}, attempt : 0 .. RetryAttempts,
                         failures : Seq({"timeout", "error"}), error : Errors \cup {None}]
<1>1. Append(committee.failures, kind) \in Seq({"timeout", "error"})
  BY DEF TypeOK
<1>2. ErrorOf[kind] \in Errors
  BY DEF ErrorOf, Errors
<1>3. committee.attempt < RetryAttempts => committee.attempt + 1 \in 0 .. RetryAttempts
  BY RetriesAreBounded DEF TypeOK
<1> QED
  BY <1>1, <1>2, <1>3 DEF TypeOK, AfterFailure

LEMMA TypeStep ==
  ASSUME TypeOK, SearchInv', [Next]_vars
  PROVE  TypeOK'
<1>1. OfferTypeOK'
  BY DEF SearchInv
<1>2. CASE Underwrite \/ UNCHANGED vars
  BY <1>1, <1>2 DEF Underwrite, vars, TypeOK
<1>3. CASE Convene
  BY <1>1, <1>3 DEF Convene, TypeOK
<1>4. CASE Respond
  <2>1. CASE output' = output
    BY <1>1, <1>4, <2>1 DEF Respond, TypeOK, Rejected, Errors
  <2>2. CASE output' # output
    <3>1. PICK draft \in Drafts :
            /\ committee' = [committee EXCEPT !.pc = "returned"]
            /\ output' = [label |-> Enforced(draft.label, dossier), confidence |-> draft.confidence,
                          low |-> draft.low, high |-> draft.high, retry_count |-> committee.attempt]
      BY <1>4, <2>2 DEF Respond
    <3>2. /\ draft.label \in Labels /\ draft.confidence \in Confidences
          /\ draft.low \in Available \cup Prices \cup {None}
          /\ draft.high \in Available \cup Prices \cup {None}
      BY DEF Drafts
    <3>3. Available \cup Prices \subseteq Nat
      BY PricesArePrices DEF Available, TypeOK, OfferTypeOK
    <3>4. Enforced(draft.label, dossier) \in Labels /\ draft.confidence \in 0 .. 100
      BY <3>2, DossiersAreDossiers DEF Enforced, Labels
    <3>5. output' \in Output
      BY <3>1, <3>2, <3>3, <3>4 DEF Output, TypeOK
    <3> QED
      BY <1>1, <1>4, <3>1, <3>5 DEF Respond, TypeOK
  <2> QED
    BY <2>1, <2>2
<1>5. CASE Garble
  BY <1>1, <1>5 DEF Garble, TypeOK, Rejected, Errors
<1>6. CASE TimeOut
  BY <1>1, <1>6, FailureTyped DEF TimeOut, TypeOK
<1>7. CASE ModelFails
  BY <1>1, <1>7, FailureTyped DEF ModelFails, TypeOK
<1> QED
  BY <1>2, <1>3, <1>4, <1>5, <1>6, <1>7 DEF Next

-----------------------------------------------------------------------------
(* The invariant.                                                          *)

DecisionInv == TypeOK /\ SearchInv /\ OutputInv

LEMMA InitDecision == Init => DecisionInv
<1> SUFFICES ASSUME Init PROVE DecisionInv
  OBVIOUS
<1>1. SearchInv
  BY InitSearch
<1>2. TypeOK
  BY <1>1, RetriesAreBounded DEF SearchInv, Init, TypeOK
<1>3. OutputInv
  BY DEF Init, OutputInv, BuyIsSupported, OffersMeetATarget
<1> QED
  BY <1>1, <1>2, <1>3 DEF DecisionInv

LEMMA DecisionStep == DecisionInv /\ [Next]_vars => DecisionInv'
BY SearchStep, OutputStep, TypeStep DEF DecisionInv

LEMMA DecisionInvHolds == Spec => []DecisionInv
BY InitDecision, DecisionStep, PTL DEF Spec

\* A decision keeps to its types: attempts within the configured retries, prices that
\* are whole, labels of the list.
THEOREM DecisionsAreTyped == Spec => []TypeOK
<1>1. DecisionInv => TypeOK
  BY DEF DecisionInv
<1> QED
  BY <1>1, DecisionInvHolds, PTL

\* For every deal and every target of it: a threshold meets its target and the next dollar does
\* not; neither does any higher price where that dollar is conclusive: financed, with the metric,
\* and of a target that is neither a negative ratio nor the cash-on-cash return of a down payment
\* that a fixed loan leaves. (binary_search_price, _maximum_offer)
THEOREM MaximumOffersAreTight == Spec => []ThresholdsAreTight
<1>1. DecisionInv => ThresholdsAreTight
  BY TightIsTight DEF DecisionInv
<1> QED
  BY <1>1, DecisionInvHolds, PTL

\* Whatever the model answers, the committee returns a buy or a strong buy only where the purchase
\* price meets every target that counts, and so does the asking price where it is conclusive; a
\* target without a threshold escapes only where the search's lower end is not conclusive.
\* (build_recommendation_policy, enforce_recommendation_policy)
THEOREM BuysAreSupported == Spec => []BuyIsSupported
<1>1. DecisionInv => BuyIsSupported
  BY DEF DecisionInv, OutputInv
<1> QED
  BY <1>1, DecisionInvHolds, PTL

\* Whatever the model answers, a price the committee offers meets a target, and a
\* buy_only_below comes with a price and a threshold below the asking price.
THEOREM OffersAreBacked == Spec => []OffersMeetATarget
<1>1. DecisionInv => OffersMeetATarget
  BY DEF DecisionInv, OutputInv
<1> QED
  BY <1>1, DecisionInvHolds, PTL

-----------------------------------------------------------------------------
(* What came before an output: doubts and attempts.                        *)

TellingInv ==
  /\ committee.pc # "waiting" => dossier \in Dossiers
  /\ committee.pc \in {"waiting", "running"} => committee.error = None
  /\ StrongBuyIsRare
  /\ AttemptsAreTold

LEMMA MaxReached ==
  ASSUME NEW n \in Int, Max({20, n}) >= 85
  PROVE  n >= 85
<1>1. \E x \in {20, n} : \A y \in {20, n} : x >= y
  OBVIOUS
<1>2. Max({20, n}) \in {20, n}
  BY <1>1 DEF Max
<1> QED
  BY <1>2

\* A confidence of 85 leaves ten points of the 95 there are at most for penalties.
LEMMA StrongBuyDoubts ==
  ASSUME NEW d \in Dossier, ~NoStrongBuy(d)
  PROVE  /\ d.critical + d.high + d.failed = 0
         /\ ~d.partial /\ d.conservative
         /\ d.confidence >= 85
         /\ 5 * d.important + 8 * d.medium + 4 * d.low <= 10
<1>1. /\ d.critical \in Nat /\ d.high \in Nat /\ d.failed \in Nat /\ d.important \in Nat
      /\ d.medium \in Nat /\ d.low \in Nat /\ d.confidence \in Nat
      /\ d.partial \in BOOLEAN /\ d.conservative \in BOOLEAN
  BY DEF Dossier
<1>2. /\ ~(d.critical > 0) /\ ~(d.high > 0) /\ ~(d.failed > 0)
      /\ AskingSupported /\ ~(MaximumConfidence(d) < 85)
  BY DEF NoStrongBuy, NoBuy
<1>3. ~d.partial /\ d.conservative
  BY DEF NoStrongBuy
<1>4. d.critical = 0 /\ d.high = 0 /\ d.failed = 0
  BY <1>1, <1>2
<1>5. BindingMaximum # None
  BY <1>2 DEF AskingSupported
<1>6. Min({15, 3 * d.failed}) \in Nat
  <2>1. {15, 3 * d.failed} \subseteq Nat /\ {15, 3 * d.failed} # {}
    BY <1>1
  <2> QED
    BY <2>1, MinIsLeast
<1>7. Min({95, d.confidence}) \in Nat /\ Min({95, d.confidence}) <= 95 /\ Min({95, d.confidence}) <= d.confidence
  <2>1. {95, d.confidence} \subseteq Nat /\ {95, d.confidence} # {}
    BY <1>1
  <2> QED
    BY <2>1, MinIsLeast
<1> DEFINE best == Min({95, d.confidence})
           tests == Min({15, 3 * d.failed})
           small == 5 * d.important + 8 * d.medium + 4 * d.low
<1>8. Penalty(d) = 12 * d.critical + 5 * d.important + 15 * d.high + 8 * d.medium + 4 * d.low + tests
  <2>1. /\ (IF d.partial THEN 10 ELSE 0) = 0
        /\ (IF BindingMaximum = None THEN 6 ELSE 0) = 0
    BY <1>3, <1>5
  <2> HIDE DEF tests
  <2>2. tests \in Nat
    BY <1>6 DEF tests
  <2>3. Penalty(d) = (IF d.partial THEN 10 ELSE 0) + 12 * d.critical + 5 * d.important
                     + 15 * d.high + 8 * d.medium + 4 * d.low
                     + (IF BindingMaximum = None THEN 6 ELSE 0) + tests
    BY DEF Penalty, tests
  <2> HIDE DEF small
  <2> QED
    BY <1>1, <2>1, <2>2, <2>3
<1>9. Penalty(d) = small + tests
  BY <1>1, <1>4, <1>6, <1>8
<1>10. best - Penalty(d) >= 85
  <2>1. best - Penalty(d) \in Int
    BY <1>1, <1>6, <1>7, <1>9
  <2>2. Max({20, best - Penalty(d)}) \in Int
    <3> DEFINE n == best - Penalty(d)
    <3>1. n \in Int
      BY <2>1
    <3> HIDE DEF n
    <3>2. \E x \in {20, n} : \A y \in {20, n} : x >= y
      BY <3>1
    <3>3. Max({20, n}) \in {20, n}
      BY <3>2 DEF Max
    <3> QED
      BY <3>1, <3>3 DEF n
  <2>3. Max({20, best - Penalty(d)}) >= 85
    BY <1>2, <2>2 DEF MaximumConfidence
  <2> HIDE DEF best
  <2> QED
    BY <2>1, <2>3, MaxReached
<1> HIDE DEF best, tests
<1>11. best \in Nat /\ tests \in Nat /\ best <= 95 /\ best <= d.confidence
  BY <1>6, <1>7 DEF best, tests
<1> QED
  BY <1>1, <1>3, <1>4, <1>9, <1>10, <1>11

\* One failure more, and one attempt more or the error of that failure.
LEMMA FailureTold ==
  ASSUME DecisionInv, TellingInv, committee.pc = "running", output' = output, dossier' = dossier,
         NEW kind \in {"timeout", "error"}, committee' = AfterFailure(committee, kind)
  PROVE  TellingInv'
<1> DEFINE failures == Append(committee.failures, kind)
<1>1. /\ committee.failures \in Seq({"timeout", "error"}) /\ committee.attempt \in 0 .. RetryAttempts
      /\ Len(committee.failures) = committee.attempt /\ output = None /\ committee.error = None
      /\ dossier \in Dossiers /\ committee.attempt \in Nat /\ RetryAttempts \in Nat
  BY RetriesAreBounded DEF DecisionInv, TypeOK, TellingInv, AttemptsAreTold
<1>2. /\ failures \in Seq({"timeout", "error"}) /\ Len(failures) = committee.attempt + 1
      /\ failures[committee.attempt + 1] = kind
  BY <1>1
<1>3. StrongBuyIsRare'
  BY <1>1 DEF StrongBuyIsRare
<1>4. CASE committee.attempt < RetryAttempts
  <2>1. committee' = [committee EXCEPT !.attempt = @ + 1, !.failures = failures]
    BY <1>4 DEF AfterFailure
  <2> HIDE DEF failures
  <2>2. /\ committee'.pc = "running" /\ committee'.failures = failures /\ committee'.error = None
        /\ committee'.attempt = committee.attempt + 1
    BY <1>1, <2>1 DEF DecisionInv, TypeOK
  <2>3. AttemptsAreTold'
    BY <1>1, <1>2, <2>2, NoneIsNoError DEF AttemptsAreTold, Errors
  <2> QED
    BY <1>1, <1>3, <2>2, <2>3 DEF TellingInv
<1>5. CASE ~(committee.attempt < RetryAttempts)
  <2>1. committee' = [committee EXCEPT !.pc = "failed", !.failures = failures, !.error = ErrorOf[kind]]
    BY <1>5 DEF AfterFailure
  <2>2. committee.attempt + 1 = Attempts
    BY <1>1, <1>5 DEF Attempts
  <2> HIDE DEF failures
  <2>3. /\ committee'.pc = "failed" /\ committee'.failures = failures
        /\ committee'.error = ErrorOf[kind]
    BY <2>1 DEF DecisionInv, TypeOK
  <2>4. ErrorOf[kind] # "rejected"
    BY DEF ErrorOf
  <2>5. AttemptsAreTold'
    BY <1>1, <1>2, <2>2, <2>3, <2>4 DEF AttemptsAreTold
  <2> QED
    BY <1>1, <1>3, <2>3, <2>5 DEF TellingInv
<1> QED
  BY <1>4, <1>5

\* A rejected draft ends the run with the attempts there were.
LEMMA RejectionTold ==
  ASSUME DecisionInv, TellingInv, committee.pc = "running", output' = output, dossier' = dossier,
         committee' = Rejected(committee)
  PROVE  TellingInv'
<1>1. /\ Len(committee.failures) = committee.attempt /\ output = None /\ dossier \in Dossiers
  BY DEF TellingInv, AttemptsAreTold
<1>2. /\ committee'.pc = "failed" /\ committee'.error = "rejected"
      /\ committee'.failures = committee.failures /\ committee'.attempt = committee.attempt
  BY DEF DecisionInv, TypeOK, Rejected
<1> QED
  BY <1>1, <1>2 DEF TellingInv, AttemptsAreTold, StrongBuyIsRare

LEMMA ResponseTold ==
  ASSUME DecisionInv, TellingInv, Respond
  PROVE  TellingInv'
<1>1. committee.pc = "running" /\ dossier' = dossier
  BY DEF Respond
<1>2. /\ Len(committee.failures) = committee.attempt /\ output = None /\ committee.error = None
      /\ dossier \in Dossiers
  BY <1>1 DEF TellingInv, AttemptsAreTold
<1>3. PICK draft \in Drafts :
        \/ /\ Accepted(draft, dossier)
           /\ committee' = [committee EXCEPT !.pc = "returned"]
           /\ output' = [label |-> Enforced(draft.label, dossier), confidence |-> draft.confidence,
                         low |-> draft.low, high |-> draft.high, retry_count |-> committee.attempt]
        \/ committee' = Rejected(committee) /\ output' = output
  BY DEF Respond
<1>4. CASE committee' = Rejected(committee) /\ output' = output
  BY <1>1, <1>4, RejectionTold
<1>5. CASE /\ committee' = [committee EXCEPT !.pc = "returned"]
           /\ output' = [label |-> Enforced(draft.label, dossier), confidence |-> draft.confidence,
                         low |-> draft.low, high |-> draft.high, retry_count |-> committee.attempt]
  <2>1. /\ committee'.pc = "returned" /\ committee'.error = None
        /\ committee'.failures = committee.failures
    BY <1>2, <1>5 DEF DecisionInv, TypeOK
  <2>2. output'.retry_count = committee.attempt /\ output'.label = Enforced(draft.label, dossier)
    BY <1>5
  <2>3. output'.label = "strong_buy" => ~NoStrongBuy(dossier)
    BY <2>2 DEF Enforced, Allowed
  <2>4. dossier \in Dossier
    BY <1>2, DossiersAreDossiers
  <2>5. StrongBuyIsRare'
    BY <1>1, <2>3, <2>4, StrongBuyDoubts DEF StrongBuyIsRare
  <2>6. AttemptsAreTold'
    BY <1>2, <2>1, <2>2, NoneIsNoError DEF AttemptsAreTold, Errors
  <2> QED
    BY <1>1, <1>2, <2>1, <2>5, <2>6 DEF TellingInv
<1> QED
  BY <1>3, <1>4, <1>5

LEMMA TellingStep ==
  ASSUME DecisionInv, TellingInv, [Next]_vars
  PROVE  TellingInv'
<1>1. CASE Underwrite \/ UNCHANGED vars
  BY <1>1 DEF Underwrite, vars, TellingInv, StrongBuyIsRare, AttemptsAreTold
<1>2. CASE Convene
  <2>1. /\ committee.pc = "waiting" /\ committee' = [committee EXCEPT !.pc = "running"]
        /\ dossier' \in Dossiers /\ output' = output
    BY <1>2 DEF Convene
  <2>2. /\ committee'.pc = "running" /\ committee'.error = committee.error
        /\ committee'.failures = committee.failures /\ committee'.attempt = committee.attempt
    BY <2>1 DEF DecisionInv, TypeOK
  <2>3. output = None /\ committee.error = None /\ Len(committee.failures) = committee.attempt
    BY <2>1 DEF TellingInv, AttemptsAreTold
  <2> QED
    BY <2>1, <2>2, <2>3, NoneIsNoError DEF TellingInv, StrongBuyIsRare, AttemptsAreTold, Errors
<1>3. CASE Respond
  BY <1>3, ResponseTold
<1>4. CASE Garble
  BY <1>4, RejectionTold DEF Garble
<1>5. CASE TimeOut
  BY <1>5, FailureTold DEF TimeOut
<1>6. CASE ModelFails
  BY <1>6, FailureTold DEF ModelFails
<1> QED
  BY <1>1, <1>2, <1>3, <1>4, <1>5, <1>6 DEF Next

LEMMA TellingInvHolds == Spec => []TellingInv
<1>1. Init => TellingInv
  BY NoneIsNoError DEF Init, TellingInv, StrongBuyIsRare, AttemptsAreTold, Errors
<1> QED
  BY <1>1, TellingStep, DecisionInvHolds, PTL DEF Spec

\* Whatever the model answers, a strong buy has no gap, high conflict or failed stress test behind
\* it, and smaller doubts of ten points at most. (compute_confidence_limit,
\* build_recommendation_policy)
THEOREM StrongBuysAreRare == Spec => []StrongBuyIsRare
<1>1. TellingInv => StrongBuyIsRare
  BY DEF TellingInv
<1> QED
  BY <1>1, TellingInvHolds, PTL

\* What is returned or raised tells the attempts there were, for any number of retries.
\* (analyze_with_details)
THEOREM AttemptsAreToldAlways == Spec => []AttemptsAreTold
<1>1. TellingInv => AttemptsAreTold
  BY DEF TellingInv
<1> QED
  BY <1>1, TellingInvHolds, PTL

===============================================================================

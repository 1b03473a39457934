------------------------- MODULE MCInvestmentDecision -------------------------
(* Deals of a few dollars, and dossiers that differ from a clean one in a doubt or two. *)
EXTENDS DecisionProperties

NoTarget == [t \in Targets |-> IF t = "break_even" THEN 0 ELSE None]

Income(noi, targets) == [noi : {noi}, target : targets]

\* One dollar a year and the targets that ask for it; a dollar lost, and who accepts that.
SomeIncomes ==
  LET cashOnCash == [NoTarget EXCEPT !["cash_on_cash"] = 10]
      losing     == [NoTarget EXCEPT !["monthly_cash_flow"] = -1, !["cap_rate"] = -15, !["cash_on_cash"] = -20]
  IN  Income(1, {NoTarget, cashOnCash, [cashOnCash EXCEPT !["cap_rate"] = 15],
                 [NoTarget EXCEPT !["dscr"] = 110]})
      \cup Income(-1, {NoTarget, cashOnCash, losing})

\* Cash; a fifth down, also beside a fixed loan; five or six dollars down; and what a loan
\* of four dollars leaves.
Financed ==
  LET cash   == [asking |-> None, purchase |-> 5, kind |-> "percent", down |-> 100, loan |-> None,
                 payment |-> 20, insurance |-> 0, points |-> 0, closing |-> 0, costs |-> 0,
                 noi |-> 1, target |-> NoTarget]
      fifth  == [cash EXCEPT !.down = 20]
      amount == [cash EXCEPT !.kind = "amount", !.down = 5]
  IN  {cash, [fifth EXCEPT !.points = 2, !.costs = 1], [fifth EXCEPT !.loan = 4],
       amount, [amount EXCEPT !.down = 6, !.closing = 3],
       [cash EXCEPT !.kind = "rest", !.down = 0, !.loan = 4]}

SomeDeals ==
  {[d EXCEPT !.asking = asking, !.purchase = purchase, !.noi = income.noi, !.target = income.target] :
     d \in Financed, asking \in Prices \cup {None}, purchase \in Prices, income \in SomeIncomes}

Clean == [confidence |-> 95, partial |-> FALSE, critical |-> 0, important |-> 0,
          high |-> 0, medium |-> 0, low |-> 0, failed |-> 0, conservative |-> TRUE]

SomeDossiers ==
  {Clean, [Clean EXCEPT !.confidence = 84], [Clean EXCEPT !.confidence = 30, !.critical = 2],
   [Clean EXCEPT !.partial = TRUE], [Clean EXCEPT !.critical = 1], [Clean EXCEPT !.important = 2],
   [Clean EXCEPT !.important = 1, !.low = 2], [Clean EXCEPT !.high = 1], [Clean EXCEPT !.medium = 1],
   [Clean EXCEPT !.low = 3], [Clean EXCEPT !.failed = 1],
   [Clean EXCEPT !.conservative = FALSE, !.failed = 12]}

===============================================================================

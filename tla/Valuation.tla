-------------------------------- MODULE Valuation --------------------------------
(***************************************************************************)
(* Agent 10: the route of methods of a business, the first of them whose   *)
(* inputs are there and in range, and its bear, base and bull values.      *)
(* The inputs d are a record of sets of at most one integer: rates in half *)
(* per cents (discounts in per cent), amounts in units, values in 1/1000    *)
(* per share.  Division rounds down.                                       *)
(***************************************************************************)
EXTENDS Integers, Sequences

(* The first family whose words the sector and industry hold.              *)
Routes ==
  [bank |-> <<"pb", "residual_income", "pe">>, nbfc |-> <<"pb", "residual_income", "pe">>,
   insurance |-> <<"price_to_embedded_value", "pe">>, conglomerate |-> <<"sotp", "nav", "dcf">>,
   reit_invit |-> <<"nav", "dividend_yield", "dcf">>,
   cyclical_resources |-> <<"ev_ebitda", "dcf", "pe">>,
   loss_making_growth |-> <<"ev_sales", "dcf">>, general_corporate |-> <<"dcf", "pe", "ev_ebitda">>]

FamilyOrder == <<"bank", "nbfc", "insurance", "conglomerate", "reit_invit", "cyclical_resources",
                 "loss_making_growth">>

(* words: the families whose words occur; a non-banking financial company  *)
(* is also a banking one.                                                  *)
Family(words) ==
  LET found == {i \in 1..7 : FamilyOrder[i] \in words}
  IN IF found = {} THEN "general_corporate" ELSE FamilyOrder[CHOOSE i \in found : \A n \in found : i <= n]

Inputs ==
  [dcf |-> {"base_fcf", "growth", "wacc", "terminal_growth", "net_debt", "shares"},
   pe |-> {"eps", "target_pe"}, pb |-> {"book", "target_pb"},
   residual_income |-> {"book", "roe", "cost_of_equity", "terminal_growth"},
   price_to_embedded_value |-> {"embedded_value", "target_pev"},
   ev_ebitda |-> {"ebitda", "target_ev_ebitda", "net_debt", "shares"},
   ev_sales |-> {"sales", "target_ev_sales"}, nav |-> {"nav"}, sotp |-> {"sotp_value"},
   dividend_yield |-> {"distribution", "target_yield"}]

MissingInputs(m, d) == {k \in Inputs[m] : d[k] = {}}
The(s) == CHOOSE x \in s : TRUE
Or0(s) == IF s = {} THEN 0 ELSE The(s)
Above(a, b) == IF a < b THEN b ELSE a

Scenarios(bear, base, bull) == {[bear |-> bear, base |-> base, bull |-> bull]}
Multiple(metric, target) ==
  Scenarios(metric * target * 850, metric * target * 1000, metric * target * 1150)
Around(base, spread) == Scenarios((base * (100 - spread)) \div 100, base, (base * (100 + spread)) \div 100)

(* Two years of cash flow and what follows, discounted.                    *)
Discounted(amount, wacc) == (amount * 200) \div (200 + wacc)
Grown(amount, growth) == (amount * (200 + growth)) \div 200

DiscountedCashFlow(fcf, growth, wacc, terminal, debt, shares) ==
  LET first == Grown(fcf * 1000, growth)
      second == Grown(first, growth)
      after == (Grown(second, terminal) * 200) \div (wacc - terminal)
  IN (Discounted(first + Discounted(second + after, wacc), wacc) - debt * 1000) \div shares

DcfAllowed(fcf, wacc, terminal, shares) == fcf > 0 /\ shares > 0 /\ wacc > terminal

(* Growth two points lower and higher, a discount of one point more and    *)
(* less, terminal growth half a point less and more.                       *)
Dcf(d) ==
  LET fcf == The(d.base_fcf)  g == The(d.growth)  w == The(d.wacc)  t == The(d.terminal_growth)
      debt == The(d.net_debt)  shares == The(d.shares)
      bearTerminal == Above(0, t - 1)
      bullWacc == Above(t + 2, w - 2)
  IN IF /\ DcfAllowed(fcf, w, t, shares) /\ DcfAllowed(fcf, w + 2, bearTerminal, shares)
        /\ DcfAllowed(fcf, bullWacc, t + 1, shares)
     THEN Scenarios(DiscountedCashFlow(fcf, g - 4, w + 2, bearTerminal, debt, shares),
                    DiscountedCashFlow(fcf, g, w, t, debt, shares),
                    DiscountedCashFlow(fcf, g + 4, bullWacc, t + 1, debt, shares))
     ELSE {}

JustifiedBook(book, roe, cost, growth) == (book * 1000 * (roe - growth)) \div (cost - growth)

ResidualIncome(d) ==
  LET book == The(d.book)  roe == The(d.roe)  cost == The(d.cost_of_equity)
      growth == The(d.terminal_growth)
  IN IF cost <= growth THEN {}
     ELSE Scenarios(JustifiedBook(book, roe - 4, cost + 2, growth),
                    JustifiedBook(book, roe, cost, growth),
                    JustifiedBook(book, roe + 4, Above(growth + 2, cost - 2), growth))

EvEbitda(d) ==
  LET value(by) == (The(d.ebitda) * The(d.target_ev_ebitda) * by - The(d.net_debt) * 1000)
                     \div The(d.shares)
  IN IF The(d.shares) <= 0 THEN {} ELSE Scenarios(value(850), value(1000), value(1150))

DiscountedBy(value, discount) == (value * 1000 * (100 - Or0(discount))) \div 100

(* What a method says, or nothing when its inputs are out of range.        *)
Calculate(m, d) ==
  CASE m = "pb" -> Multiple(The(d.book), The(d.target_pb))
    [] m = "pe" -> Multiple(The(d.eps), The(d.target_pe))
    [] m = "price_to_embedded_value" -> Multiple(The(d.embedded_value), The(d.target_pev))
    [] m = "ev_sales" -> Multiple(The(d.sales), The(d.target_ev_sales))
    [] m = "ev_ebitda" -> EvEbitda(d)
    [] m = "sotp" -> Around(DiscountedBy(The(d.sotp_value), d.holding_discount), 15)
    [] m = "nav" -> Around(DiscountedBy(The(d.nav), d.nav_discount), 10)
    [] m = "dividend_yield" ->
         IF The(d.target_yield) <= 0 THEN {}
         ELSE Around((The(d.distribution) * 200000) \div The(d.target_yield), 10)
    [] m = "residual_income" -> ResidualIncome(d)
    [] m = "dcf" -> Dcf(d)

Usable(m, d) == MissingInputs(m, d) = {} /\ Calculate(m, d) # {}

(* The method chosen for a family: none, or the first that is usable.      *)
UsableOf(family, d) == {i \in DOMAIN Routes[family] : Usable(Routes[family][i], d)}
Valued(family, d) == UsableOf(family, d) # {}
Chosen(family, d) ==
  Routes[family][CHOOSE i \in UsableOf(family, d) : \A n \in UsableOf(family, d) : i <= n]
ValuationOf(family, d) == The(Calculate(Chosen(family, d), d))

(* Targets that are not given are the medians of the peers that have a     *)
(* positive multiple: here of a sorted sequence of them.                   *)
PeerTarget(given, positive) ==
  IF given # {} THEN given
  ELSE IF positive = <<>> THEN {}
  ELSE LET n == Len(positive) IN
       {IF n % 2 = 1 THEN positive[(n + 1) \div 2]
        ELSE (positive[n \div 2] + positive[n \div 2 + 1]) \div 2}

UpsidePct(base, price) == {(base \div 10) \div p - 100 : p \in {q \in price : q # 0}}
=============================================================================

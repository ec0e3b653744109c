-------------------------------- MODULE AgentRules --------------------------------
(***************************************************************************)
(* What the specialist agents compute: the plans that select them, the     *)
(* financial metrics and scores, and the signals of risk, macro, market    *)
(* and news.  A fact is a set of at most one integer; a quotient is        *)
(* <<numerator, denominator>> with a positive denominator.                 *)
(***************************************************************************)
EXTENDS Integers, FiniteSets

Magnitude(n) == IF n < 0 THEN -n ELSE n
Quotient(a, b) == IF b < 0 THEN <<-a, -b>> ELSE <<a, b>>
SameQuotient(p, q) == p[1] * q[2] = q[1] * p[2]
Below(p, q) == p[1] * q[2] < q[1] * p[2]
QuotientSum(p, q) == <<p[1] * q[2] + q[1] * p[2], p[2] * q[2]>>
QuotientMinus(p, q) == <<p[1] * q[2] - q[1] * p[2], p[2] * q[2]>>

-----------------------------------------------------------------------------
(* Plans: the agents collected and the agents that analyse, per mode and   *)
(* depth, or per event.                                                    *)
Plan(collect, analyze) == [collect |-> collect, analyze |-> analyze]

StandardPlan ==
  [full_analysis |-> Plan({"market", "financials", "filings", "earnings", "news", "web", "industry", "macro"},
                          {"valuation", "technical", "sentiment", "risk"}),
   why_did_it_move |-> Plan({"market", "news", "web", "industry", "macro"}, {"technical", "sentiment", "risk"}),
   what_changed |-> Plan({"market", "financials", "filings", "earnings", "news", "web"},
                         {"valuation", "sentiment", "risk"}),
   fundamentals |-> Plan({"financials", "filings", "earnings", "industry", "macro"}, {"valuation", "risk"}),
   risk |-> Plan({"financials", "filings", "earnings", "news", "web", "macro"}, {"sentiment", "risk"})]

Modes == DOMAIN StandardPlan
Depths == {"quick", "standard", "deep"}

ResearchPlan(mode, depth) ==
  IF depth # "quick" THEN StandardPlan[mode]
  ELSE IF mode = "full_analysis"
    THEN Plan({"market", "financials", "filings", "earnings", "news"}, {"technical", "risk"})
  ELSE Plan(StandardPlan[mode].collect \ {"web"}, StandardPlan[mode].analyze \ {"sentiment"})

EventPlan ==
  [quarterly_result |-> Plan({"financials", "earnings"}, {"valuation", "risk"}),
   large_price_move |-> Plan({"market", "news", "industry", "macro"}, {"technical", "sentiment"}),
   governance_filing |-> Plan({"filings"}, {"risk"}),
   rbi_policy |-> Plan({"macro", "industry"}, {"risk"}),
   annual_report |-> Plan({"financials", "filings", "earnings", "industry"}, {"valuation", "risk"}),
   no_material_change |-> Plan({"market"}, {"technical"})]

-----------------------------------------------------------------------------
(* Financial metrics of facts f.                                           *)
SafeDivide(a, b) == {Quotient(x, y) : x \in a, y \in b \ {0}}
GrowthRate(current, previous) == {Quotient(c - p, Magnitude(p)) : c \in current, p \in previous \ {0}}
Minus(a, b) == {x - y : x \in a, y \in b}
PerYear(a, b) == SafeDivide({x * 365 : x \in a}, b)

ReceivableDays(f) == PerYear(f.receivables, f.revenue)
InventoryDays(f) == PerYear(f.inventory, f.cogs)
PayableDays(f) == PerYear(f.payables, f.cogs)
CashConversionCycle(f) ==
  {QuotientMinus(QuotientSum(r, i), p) :
     r \in ReceivableDays(f), i \in InventoryDays(f), p \in PayableDays(f)}

FinancialMetrics(f) ==
  [revenue_growth |-> GrowthRate(f.revenue, f.previous_revenue),
   ebitda_margin |-> SafeDivide(f.ebitda, f.revenue),
   net_margin |-> SafeDivide(f.pat, f.revenue),
   cfo_to_pat |-> SafeDivide(f.cfo, f.pat),
   net_debt_to_ebitda |-> SafeDivide(Minus(f.total_debt, f.cash), f.ebitda),
   interest_coverage |-> SafeDivide(f.ebit, f.interest_expense),
   roce |-> SafeDivide(f.ebit, Minus(f.total_assets, f.current_liabilities)),
   receivable_days |-> ReceivableDays(f), inventory_days |-> InventoryDays(f),
   payable_days |-> PayableDays(f), cash_conversion_cycle |-> CashConversionCycle(f)]

(* The calculation a claim carries to be recomputed from.                  *)
Ratio(a, b, scale) == [operation |-> "ratio", left |-> a, right |-> b, third |-> scale]
Payload(name, f) ==
  CASE name = "revenue_growth" ->
         [operation |-> "growth", left |-> f.revenue, right |-> f.previous_revenue, third |-> {}]
    [] name = "ebitda_margin" -> Ratio(f.ebitda, f.revenue, {})
    [] name = "net_margin" -> Ratio(f.pat, f.revenue, {})
    [] name = "cfo_to_pat" -> Ratio(f.cfo, f.pat, {})
    [] name = "interest_coverage" -> Ratio(f.ebit, f.interest_expense, {})
    [] name = "net_debt_to_ebitda" ->
         [operation |-> name, left |-> f.total_debt, right |-> f.cash, third |-> f.ebitda]
    [] name = "roce" ->
         [operation |-> name, left |-> f.ebit, right |-> f.total_assets, third |-> f.current_liabilities]
    [] name = "receivable_days" -> Ratio(f.receivables, f.revenue, {365})
    [] name = "inventory_days" -> Ratio(f.inventory, f.cogs, {365})
    [] name = "payable_days" -> Ratio(f.payables, f.cogs, {365})
    [] name = "cash_conversion_cycle" ->
         [operation |-> name, left |-> ReceivableDays(f), right |-> InventoryDays(f), third |-> PayableDays(f)]

(* What the validator makes of a calculation, in its own arithmetic.       *)
Recompute(p) ==
  CASE p.operation = "ratio" ->
         {Quotient(x * s, y) : x \in p.left, y \in p.right \ {0}, s \in IF p.third = {} THEN {1} ELSE p.third}
    [] p.operation = "growth" ->
         {Quotient(x - y, Magnitude(y)) : x \in p.left, y \in p.right \ {0}}
    [] p.operation = "difference" -> {<<x - y, 1>> : x \in p.left, y \in p.right}
    [] p.operation = "net_debt_to_ebitda" ->
         {Quotient(x - y, z) : x \in p.left, y \in p.right, z \in p.third \ {0}}
    [] p.operation = "roce" ->
         {Quotient(x, y - z) : x \in p.left, y \in p.right, z \in {n \in p.third : n \notin p.right}}
    [] p.operation = "cash_conversion_cycle" ->
         {QuotientMinus(QuotientSum(r, i), z) : r \in p.left, i \in p.right, z \in p.third}

-----------------------------------------------------------------------------
(* The forensic scores exist only for a business that is not financial,    *)
(* and only when every one of their inputs does.                           *)
NineSignals(now, before) ==
  {s \in {"profit", "cash", "roa", "accruals", "leverage", "liquidity", "shares", "margin", "turnover"} :
    CASE s = "profit" -> now.pat > 0
      [] s = "cash" -> now.cfo > 0
      [] s = "accruals" -> now.cfo > now.pat
      [] s = "shares" -> now.shares <= before.shares
      [] s = "roa" -> Below(Quotient(before.pat, before.assets), Quotient(now.pat, now.assets))
      [] s = "leverage" -> Below(Quotient(now.debt, now.assets), Quotient(before.debt, before.assets))
      [] s = "liquidity" -> Below(Quotient(before.current_assets, before.current_liabilities),
                                  Quotient(now.current_assets, now.current_liabilities))
      [] s = "margin" -> Below(Quotient(before.revenue - before.cogs, before.revenue),
                               Quotient(now.revenue - now.cogs, now.revenue))
      [] s = "turnover" -> Below(Quotient(before.revenue, before.assets), Quotient(now.revenue, now.assets))}

(* The denominators of the ten ratios of a year.                           *)
YearRatios(y) == y.assets # 0 /\ y.current_liabilities # 0 /\ y.revenue # 0

PiotroskiScore(now, before) ==
  IF YearRatios(now) /\ YearRatios(before) THEN {Cardinality(NineSignals(now, before))} ELSE {}

(* Ten times the score of Altman, without the assets it divides by.        *)
AltmanScore(y) ==
  IF y.assets = 0 \/ y.liabilities = 0 THEN {}
  ELSE {QuotientSum(Quotient(12 * (y.current_assets - y.current_liabilities) + 14 * y.retained
                               + 33 * y.ebit + 10 * y.revenue, y.assets),
                    Quotient(6 * y.market_cap, y.liabilities))}

(* Beneish: the eight indices exist when none of their quotients is by 0.  *)
BeneishDefined(now, before) ==
  /\ \A y \in {now, before} : /\ y.revenue # 0 /\ y.assets # 0 /\ y.depreciation + y.ppe # 0
  /\ before.receivables # 0 /\ before.sga # 0 /\ before.debt # 0
  /\ now.revenue # now.cogs
  /\ before.current_assets + before.ppe # before.assets
  /\ now.depreciation # 0

(* The scores of a business that is not financial.                         *)
ForensicScores(financial, now, before) ==
  IF financial THEN [piotroski |-> {}, altman |-> {}, beneish |-> FALSE]
  ELSE [piotroski |-> PiotroskiScore(now, before), altman |-> AltmanScore(now),
        beneish |-> BeneishDefined(now, before)]

-----------------------------------------------------------------------------
(* Signals of risk with their severity, from the metrics m, governance g   *)
(* and filings (pairs of section and what the text says).                  *)
Signal(title, severity) == [title |-> title, severity |-> severity]

(* Above 20 days more in the cycle than before; no agent of this repository*)
(* computes what it was before, so that `previous` comes from a caller.    *)
FinancialRisks(m, previous) ==
  {Signal("weak_cash_conversion", "medium") : q \in {x \in m.cfo_to_pat : Below(x, <<7, 10>>)}}
  \cup {Signal("elevated_leverage", IF Below(<<4, 1>>, q) THEN "high" ELSE "medium") :
          q \in {x \in m.net_debt_to_ebitda : Below(<<3, 1>>, x)}}
  \cup {Signal("thin_coverage", IF Below(q, <<3, 2>>) THEN "high" ELSE "medium") :
          q \in {x \in m.interest_coverage : Below(x, <<5, 2>>)}}
  \cup {Signal("working_capital", "medium") :
          q \in {x \in m.cash_conversion_cycle : \E p \in previous : Below(<<20, 1>>, QuotientMinus(x, p))}}

GovernanceRisks(g) ==
  {Signal("promoter_pledge", IF p >= 25 THEN "high" ELSE "medium") : p \in {x \in g.pledge : x > 0}}
  \cup {Signal("auditor_resignation", "high") : b \in {x \in {g.auditor} : x}}
  \cup {Signal("downgrade", "high") : b \in {x \in {g.downgrade} : x}}

(* A filing: its source, its section and the words in its text.  The first *)
(* rule that fits; what is not a filing says nothing.                      *)
FilingSources == {"exchange_filing", "company_filing", "regulator"}

FilingRisks(filing) ==
  LET section == filing.section  words == filing.words IN
  IF filing.source \notin FilingSources THEN {}
  ELSE IF section = "auditor_resignation" \/ {"auditor", "resign"} \subseteq words
    THEN {Signal("auditor_filing", "high")}
  ELSE IF section \in {"cfo_change", "ceo_change", "director_change"}
    THEN {Signal("departure", "medium") : w \in {x \in {words} : x \cap {"resign", "cessation"} # {}}}
  ELSE IF section = "regulatory_action" THEN {Signal("regulatory_action", "high")}
  ELSE IF section = "litigation" THEN {Signal("litigation", "medium")}
  ELSE IF section = "credit_rating" THEN {Signal("downgrade_filing", "high") : w \in words \cap {"downgrade"}}
  ELSE IF section = "promoter_pledge" THEN {Signal("pledge_filing", "medium")}
  ELSE IF section = "related_party" THEN {Signal("related_party", "low")}
  ELSE {}

(* The moves of the economy that are material, with what they mean.        *)
MacroFlags(m) ==
  {[factor |-> "usd_inr", risk |-> x > 0] : x \in {y \in m.usd_inr : Magnitude(y) >= 1}}
  \cup {[factor |-> "brent", risk |-> x > 0] : x \in {y \in m.brent : Magnitude(y) >= 3}}
  \cup {[factor |-> "fii_cash_flow", risk |-> ~(x > 0)] : x \in {y \in m.fii : Magnitude(y) >= 1000}}

(* A delayed price claims nothing about now.                               *)
PriceConfidence(delayed) == IF delayed THEN 90 ELSE 99
RequiresCurrentData(delayed) == ~delayed

(* News: the impact of a title by its words and the priority of a source.  *)
Impact(words) ==
  IF "high" \in words THEN "high" ELSE IF "medium" \in words THEN "medium" ELSE "low"
NewsPriority(type, official) ==
  IF type \in {"exchange_filing", "regulator", "official"} \/ official THEN 1
  ELSE IF type \in {"company_ir", "company_filing", "earnings_release"} THEN 2
  ELSE IF type \in {"social", "community", "forum"} THEN 5 ELSE 3
WebPriority(type, official) ==
  IF type \in {"exchange_filing", "regulator", "official_macro", "official_flow"} \/ official THEN 1
  ELSE IF type \in {"company_ir", "company_filing", "earnings_release"} THEN 2
  ELSE IF type \in {"social", "community", "forum"} THEN 5
  ELSE IF type \in {"blog", "general_web"} THEN 4 ELSE 3

Sentiment(positive, negative) ==
  LET total == positive + negative IN
  IF total = 0 THEN "neutral"
  ELSE IF 5 * (positive - negative) >= total THEN "positive"
  ELSE IF 5 * (negative - positive) >= total THEN "negative" ELSE "neutral"

-----------------------------------------------------------------------------
(* Why did it move: the drivers of a move with their direction, from the   *)
(* moves in hundredths of a per cent.                                      *)
Direction(n) == IF n > 0 THEN "positive" ELSE "negative"
SameDirection(a, b) == (a > 0 /\ b > 0) \/ (a < 0 /\ b < 0)
FirstOf(a, b) == IF a # {} THEN a ELSE b
Driver(type, n) == [type |-> type, direction |-> Direction(n)]

(* m: stock, benchmark and sector moves, and the moves relative to them.   *)
MoveDrivers(m) ==
  {Driver("absolute_stock_move", n) : n \in {x \in m.stock : Magnitude(x) >= 100}}
  \cup {Driver("stock_specific_relative_move", n) :
          n \in {x \in FirstOf(m.relative_sector, m.relative_benchmark) : Magnitude(x) >= 75}}
  \cup {Driver("broad_market_factor", n) :
          n \in {x \in m.benchmark : Magnitude(x) >= 75 /\ \E s \in m.stock : SameDirection(s, x)}}
  \cup {Driver("sector_factor", n) :
          n \in {x \in m.sector : /\ Magnitude(x) >= 75
                                  /\ \E s \in m.stock : SameDirection(s, x)
                                  /\ \A r \in m.relative_sector :
                                       \/ Magnitude(r) < 100
                                       \/ Magnitude(r) < Magnitude(x)}}

(* What changed: an item is known by its event, its metric, its title, or  *)
(* only by its words.  Without a snapshot everything is new.               *)
ClaimKey(c) ==
  IF c.event # "" THEN <<"event", c.agent, c.type, c.event, c.uri>>
  ELSE IF c.metric # "" THEN <<"metric", c.agent, c.type, c.metric>>
  ELSE IF c.title # "" THEN <<"title", c.agent, c.type, c.title>>
  ELSE <<"statement", c.agent, c.type, c.statement>>

NewItems(candidates, baseline) ==
  {c \in candidates : ClaimKey(c) \notin {ClaimKey(b) : b \in baseline}}

WhatChanged(snapshots, current) ==
  [new |-> IF snapshots = {} THEN current ELSE UNION {NewItems(current, s) : s \in snapshots},
   resolved |-> UNION {NewItems(s, current) : s \in snapshots}]
=============================================================================

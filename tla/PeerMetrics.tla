------------------------------ MODULE PeerMetrics ------------------------------
(***************************************************************************)
(* The metrics a security is compared by, derived from its filed facts and *)
(* its newest close.  A fact has a name, the kind and the last day of its  *)
(* period, a value, a unit, the filing it is from, its context there (with *)
(* the first day of the period), and whether it was filed under the very   *)
(* element that its name stands for; `row` says which of the facts of one  *)
(* day is read first.  What may be missing is a set of at most one member; *)
(* a quotient is that of AgentRules.                                       *)
(***************************************************************************)
EXTENDS AgentRules

Measured(value, day, inputs) == [value |-> value, day |-> day, inputs |-> inputs]

\* rows of one name and kind that are loaded
Loaded == 8

Alias ==
  [assets |-> "total_assets", profit_loss_for_the_period |-> "pat",
   basic_eps_after_extraordinary_items |-> "eps_basic",
   diluted_eps_after_extraordinary_items |-> "eps_diluted"]
FiledAlias ==
  [depreciation_expense |-> "depreciation_amortization", basic_and_diluted_eps |-> "eps_diluted",
   gross_premium_income |-> "reported_gross_premium_income", shareholders_funds |-> "total_equity"]

NameOf(f) ==
  IF f.name \in DOMAIN Alias THEN Alias[f.name]
  ELSE IF /\ f.name \in DOMAIN FiledAlias /\ f.exact
          /\ f.name = "shareholders_funds" => f.kind = "point_in_time" /\ f.unit = "INR"
       THEN FiledAlias[f.name]
       ELSE f.name

(* Facts are read from the newest on.                                       *)
Newer(f, g) == f.day > g.day \/ (f.day = g.day /\ f.row > g.row)
NewestOf(rows) == {f \in rows : \A g \in rows \ {f} : Newer(f, g)}
OldestOf(rows) == {f \in rows : \A g \in rows \ {f} : Newer(g, f)}   \* mutant: the rows are not sorted
Latest(rows) == NewestOf(rows)
LastRead(rows) == OldestOf(rows)

LoadedFacts(table) ==
  {f \in table : Cardinality({g \in table : g.name = f.name /\ g.kind = f.kind /\ Newer(g, f)}) < Loaded}

Rows(facts, name) == {f \in facts : NameOf(f) = name}
NewestFacts(facts, name) == Latest(Rows(facts, name))

-----------------------------------------------------------------------------
(* What may be combined.                                                   *)
OneUnit(facts) == Cardinality({f.unit : f \in facts} \ {""}) <= 1

UnitScale == [INR |-> "", shares |-> "", inr_crore |-> "crore", crore_shares |-> "crore", lakh_shares |-> "lakh"]
OneScale(f, shares) ==
  \/ "" \in {f.unit, shares.unit}
  \/ UnitScale[f.unit] = "" \/ UnitScale[shares.unit] = "" \/ UnitScale[f.unit] = UnitScale[shares.unit]

Matching(facts, name, ref) ==
  Latest({f \in Rows(facts, name) : /\ f.day = ref.day /\ f.kind = ref.kind
                                    /\ f.source = ref.source /\ f.context = ref.context})

AtOrBefore(rows, day) == Latest({f \in rows : f.day <= day})

YearApart == 270..460
Previous(rows, f) ==
  Latest({g \in rows :
    /\ g.kind = f.kind /\ g.day < f.day
    /\ f.kind \in {"quarterly", "half_year", "nine_month"} => f.day - g.day \in YearApart})

Yearly(rows) == {f \in rows : f.kind \in {"annual", "ttm"}}
AnnualProfit(facts) == {f \in Rows(facts, "pbt") : f.kind = "annual" /\ f.exact}

-----------------------------------------------------------------------------
(* Growth: of the first basis, and of its newest row, for which there is a *)
(* comparable period.                                                      *)
Grows(rows, fromZero, f) ==
  /\ f.value # 0 \/ fromZero
  /\ \E p \in Previous(rows, f) : p.value # 0 /\ OneUnit({f, p})

GrowthOf(rows, fromZero) ==
  UNION {{Measured(Quotient(f.value - p.value, p.value), f.day, {f, p}) : p \in Previous(rows, f)} :
           f \in Latest({f \in rows : Grows(rows, fromZero, f)})}

(* What a bank earned less what it paid, and the two facts behind it.      *)
NetInterest(facts, f) ==
  {[value |-> f.value - c.value, inputs |-> {f, c}] :
     c \in {c \in Matching(facts, "interest_expense", f) :
              c.exact /\ c.value >= 0 /\ f.unit = "INR" /\ c.unit = "INR" /\ f.value > c.value}}

InterestIncome(facts) == {f \in Rows(facts, "interest_income") : f.exact}
BankGrown(facts, f) ==
  UNION {{Measured(Quotient(n.value - p.value, p.value), f.day, n.inputs \cup p.inputs) :
            n \in NetInterest(facts, f), p \in NetInterest(facts, g)} :
           g \in {g \in Previous(InterestIncome(facts), f) : f.day - g.day \in YearApart}}
BankGrowth(facts) ==
  UNION {BankGrown(facts, f) : f \in Latest({f \in InterestIncome(facts) : BankGrown(facts, f) # {}})}

GrowthBases == <<"revenue", "net_interest_income", "gross_written_premium", "aum",
                 "reported_gross_premium_income">>
RevenueGrowth(facts) ==
  LET grown(i) == GrowthOf(Rows(facts, GrowthBases[i]), FALSE)
      found == {i \in 1..5 : grown(i) # {}}
  IN IF found = {} THEN BankGrowth(facts)
     ELSE UNION {grown(i) : i \in {i \in found : \A n \in found : i <= n}}

AumGrowth(facts) == GrowthOf(Rows(facts, "aum"), TRUE)

(* Margin: of the first EBITDA whose period has a revenue, the last one    *)
(* read; only without such a pair of the first annual profit that can be   *)
(* built up from the same context.                                         *)
RevenueOf(facts, f) == {r \in Rows(facts, "revenue") : r.day = f.day /\ r.kind = f.kind}
BuiltMargin(facts, p) ==
  UNION {UNION {{Measured(Quotient(p.value + i.value + d.value, r.value), p.day, {p, i, d, r}) :
                   r \in {r \in Matching(facts, "revenue", p) : r.value > 0 /\ OneUnit({p, i, d, r})}} :
                  d \in {d \in Matching(facts, "depreciation_amortization", p) : d.value >= 0}} :
           i \in {i \in Matching(facts, "interest_expense", p) : i.value >= 0}}

EbitdaMargin(facts) ==
  LET paired == {f \in Rows(facts, "ebitda") : RevenueOf(facts, f) # {}} IN
  IF paired # {}
  THEN UNION {{Measured(Quotient(f.value, r.value), r.day, {f, r}) :
                 r \in {r \in LastRead(RevenueOf(facts, f)) : r.value # 0 /\ OneUnit({f, r})}} :
                f \in Latest(paired)}
  ELSE UNION {BuiltMargin(facts, p) : p \in Latest({p \in AnnualProfit(facts) : BuiltMargin(facts, p) # {}})}

(* Capital employed: of the newest yearly EBIT, or of an annual profit and *)
(* its interest; assets and liabilities of its period and filing.          *)
FinanceCosts(facts, p) ==
  {i \in Matching(facts, "interest_expense", p) : i.value >= 0 /\ OneUnit({p, i})}

Earned(facts) ==
  LET ebit == Latest(Yearly(Rows(facts, "ebit"))) IN
  IF ebit # {} THEN {[value |-> f.value, of |-> f, inputs |-> {f}] : f \in ebit}
  ELSE UNION {{[value |-> p.value + i.value, of |-> p, inputs |-> {p, i}] : i \in FinanceCosts(facts, p)} :
                p \in Latest({p \in AnnualProfit(facts) : FinanceCosts(facts, p) # {}})}

Employed(facts, e, name) ==
  {b \in AtOrBefore(Rows(facts, name), e.of.day) : b.day = e.of.day /\ b.source = e.of.source}

Roce(facts) ==
  UNION {UNION {{Measured(Quotient(e.value, a.value - l.value), e.of.day, e.inputs \cup {a, l}) :
                   l \in {l \in Employed(facts, e, "current_liabilities") :
                            OneUnit({e.of, a, l}) /\ a.value > l.value}} :
                  a \in Employed(facts, e, "total_assets")} :
           e \in Earned(facts)}

ToRatio(f) ==
  IF f.unit = "%" \/ Magnitude(f.value) > 2 THEN Quotient(f.value, 100) ELSE Quotient(f.value, 1)

Return(facts, reported, denominator) ==
  LET profit == Latest(Yearly(Rows(facts, "pat")))
  IN IF NewestFacts(facts, reported) # {}
     THEN {Measured(ToRatio(f), f.day, {f}) : f \in NewestFacts(facts, reported)}
     ELSE UNION {{Measured(Quotient(p.value, d.value), p.day, {p, d}) :
                    d \in {d \in AtOrBefore(Rows(facts, denominator), p.day) : d.value > 0 /\ OneUnit({p, d})}} :
                   p \in profit}

-----------------------------------------------------------------------------
(* Against the close, whose day they are of.                               *)
PriceEarnings(facts, close) ==
  LET positive(name) == {f \in Yearly(Rows(facts, name)) : f.value > 0}
      eps == Latest(IF positive("eps_diluted") # {} THEN positive("eps_diluted") ELSE positive("eps_basic"))
      profit == Latest(Yearly(Rows(facts, "pat")))
  IN IF eps # {} THEN {Measured(Quotient(close.price, f.value), close.day, {f}) : f \in eps}
     ELSE {Measured(Quotient(close.price * t[2].value, t[1].value), close.day, {t[1], t[2]}) :
             t \in {t \in profit \X NewestFacts(facts, "shares_outstanding") :
                      t[1].value > 0 /\ t[2].value > 0 /\ OneScale(t[1], t[2])}}

PaidUp(facts, c) ==
  Latest({s \in Rows(facts, "shares_outstanding") :
            s.day = c.day /\ s.source = c.source /\ s.unit = "shares" /\ s.value > 0 /\ s.exact})

BankBooks(facts, close, c) ==
  UNION {{Measured(Quotient(close.price * s.value, c.value + r.value), close.day, {c, r, s}) :
            s \in PaidUp(facts, c)} :
           r \in {r \in Matching(facts, "reserves_and_surplus", c) :
                    r.unit = "INR" /\ r.exact /\ c.value + r.value > 0}}

BankBook(facts, close) ==
  LET filed == {c \in Rows(facts, "capital") :
                  c.kind = "point_in_time" /\ c.unit = "INR" /\ c.exact /\ c.value > 0}
  IN UNION {BankBooks(facts, close, c) : c \in Latest({c \in filed : BankBooks(facts, close, c) # {}})}

PriceBook(facts, close) ==
  LET bvps == {f \in NewestFacts(facts, "book_value_per_share") : f.value > 0}
      equity == IF NewestFacts(facts, "total_equity") # {} THEN NewestFacts(facts, "total_equity")
                ELSE NewestFacts(facts, "net_worth")
      both == UNION {{<<e, s>> : s \in AtOrBefore(Rows(facts, "shares_outstanding"), e.day)} : e \in equity}
      positive == {t \in both : t[1].value > 0 /\ t[2].value > 0}
  IN IF bvps # {} THEN {Measured(Quotient(close.price, f.value), close.day, {f}) : f \in bvps}
     ELSE IF positive = {} THEN BankBook(facts, close)
     ELSE {Measured(Quotient(close.price * t[2].value, t[1].value), close.day, {t[1], t[2]}) :
             t \in {t \in positive : t[1].day = t[2].day /\ OneScale(t[1], t[2])}}

MarketCap(facts, close) ==
  {Measured(Quotient(close.price * s.value, 1), close.day, {s}) :
     s \in {s \in NewestFacts(facts, "shares_outstanding") : s.value > 0}}

-----------------------------------------------------------------------------
PassedOn == {"gross_npa_pct", "net_npa_pct", "nim_pct", "casa_ratio_pct", "capital_adequacy_pct",
             "vnb_margin_pct", "solvency_ratio_pct", "combined_ratio_pct",
             "constant_currency_growth_pct", "attrition_pct", "market_share_pct",
             "capacity_utilization_pct"}
OfFacts == {"revenue_growth", "ebitda_margin", "roce", "roe", "roa", "aum_growth"}
OfPrices == {"pe", "pb", "market_cap"}

(* `close` is a set of at most one close.                                  *)
PeerMetric(name, facts, close) ==
  CASE name = "revenue_growth" -> RevenueGrowth(facts)
    [] name = "ebitda_margin"  -> EbitdaMargin(facts)
    [] name = "roce"           -> Roce(facts)
    [] name = "roe"            -> Return(facts, "roe_pct", "total_equity")
    [] name = "roa"            -> Return(facts, "roa_pct", "total_assets")
    [] name = "aum_growth"     -> AumGrowth(facts)
    [] name = "pe"             -> UNION {PriceEarnings(facts, c) : c \in close}
    [] name = "pb"             -> UNION {PriceBook(facts, c) : c \in close}
    [] name = "market_cap"     -> UNION {MarketCap(facts, c) : c \in close}
    [] OTHER -> {Measured(Quotient(f.value, 1), f.day, {f}) : f \in NewestFacts(facts, name)}

DerivePeerMetrics(table, close) ==
  LET facts == LoadedFacts(table)
  IN [name \in OfFacts \cup OfPrices \cup PassedOn |-> PeerMetric(name, facts, close)]
=============================================================================

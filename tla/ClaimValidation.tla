----------------------------- MODULE ClaimValidation -----------------------------
(***************************************************************************)
(* Agent 15 and agent 16: every claim of a run is graded by the evidence   *)
(* it is linked to, calculations are recomputed, claims of one metric and  *)
(* period are reconciled, and a report is composed of those admitted.      *)
(* A claim: agent, type, evidence (ids), confidence and materiality in per *)
(* cent, status, metric, period, unit, the value as a set of at most one   *)
(* number, current (it requires current data), recomputed (a set of at     *)
(* most one number).  An evidence: type, uri, priority, freshness.         *)
(***************************************************************************)
EXTENDS Integers, FiniteSets

Unspecified == "none"
Least(a, b) == IF a < b THEN a ELSE b
Greatest(a, b) == IF a < b THEN b ELSE a

Opinion == {"inference", "scenario"}
Alert == {"risk", "catalyst"}
Admissible == {"verified", "supported", "inferred"}
PrimaryTypes == {"exchange_filing", "company_filing", "regulator", "official_macro",
                 "official_flow", "market_data"}

Linked(c, ev) == {i \in c.evidence : i \in DOMAIN ev}
HasPrimary(c, ev) == \E i \in Linked(c, ev) : ev[i].type \in PrimaryTypes
OnlyAi(c, ev) == \A i \in Linked(c, ev) : ev[i].type = "ai_extraction"
DistinctSources(c, ev) ==
  {<<ev[i].type, ev[i].uri>> : i \in {n \in Linked(c, ev) : ev[n].type # "ai_extraction"}}
HighImpact(c) == c.materiality >= 80 \/ (c.type \in Alert /\ c.confidence >= 85)

Graded(c, status, confidence) == [c EXCEPT !.status = status, !.confidence = confidence]
Capped(c, status, cap) == Graded(c, status, Least(c.confidence, cap))

(* The grade of one claim: the first of these that applies.                *)
ValidateClaim(c, ev) ==
  IF Linked(c, ev) = {} THEN
    IF c.type = "scenario" THEN Capped(c, "inferred", 60) ELSE Capped(c, "unsupported", 35)
  ELSE IF c.current /\ \A i \in Linked(c, ev) : ev[i].freshness \notin {"live", "near_live"}
    THEN Capped(c, "stale", 50)
  ELSE IF c.type = "calculation" /\ \E r \in c.recomputed : c.value # {} /\ r \notin c.value
    THEN Capped(c, "contested", 45)
  ELSE IF OnlyAi(c, ev)
    THEN IF c.type \in Opinion THEN Capped(c, "inferred", 65) ELSE Capped(c, "supported", 60)
  ELSE IF HighImpact(c) /\ ~HasPrimary(c, ev) /\ Cardinality(DistinctSources(c, ev)) < 2
    THEN [Capped(c, IF c.type \in Opinion THEN "inferred" ELSE "supported", 55)
            EXCEPT !.uncorroborated = TRUE]
  ELSE Graded(c, IF c.type \in Opinion THEN "inferred"
                 ELSE IF c.type \in Alert \/ ~HasPrimary(c, ev) THEN "supported"
                 ELSE "verified",
              Greatest(c.confidence, IF HasPrimary(c, ev) THEN 80 ELSE 60))

-----------------------------------------------------------------------------
(* Values are compared in one scale per family: ratios in basis points,    *)
(* money in lakh.  A unit that is not known compares with nothing.         *)
Scale ==
  [percent |-> [family |-> "ratio", by |-> 100, currency |-> Unspecified],
   bps |-> [family |-> "ratio", by |-> 1, currency |-> Unspecified],
   ratio |-> [family |-> "ratio", by |-> 10000, currency |-> Unspecified],
   multiple |-> [family |-> "multiple", by |-> 1, currency |-> Unspecified],
   days |-> [family |-> "days", by |-> 1, currency |-> Unspecified],
   lakh |-> [family |-> "currency_amount", by |-> 1, currency |-> "INR"],
   crore |-> [family |-> "currency_amount", by |-> 100, currency |-> "INR"],
   usd_lakh |-> [family |-> "currency_amount", by |-> 1, currency |-> "USD"]]

ComparableValue(c) ==
  IF c.unit \notin DOMAIN Scale THEN {}
  ELSE {[value |-> v * Scale[c.unit].by, family |-> Scale[c.unit].family,
         currency |-> Scale[c.unit].currency] : v \in c.value}

SourcePriority(c, ev) ==
  IF Linked(c, ev) = {} THEN 99
  ELSE CHOOSE p \in 1..5 : /\ \E i \in Linked(c, ev) : ev[i].priority = p
                           /\ \A i \in Linked(c, ev) : ev[i].priority >= p

(* The claims that lose: all of a group that cannot be compared, all of    *)
(* one without a single best source, all but the best otherwise.           *)
Agree(vs) == Cardinality({v.value : v \in vs}) <= 1

LosingToBest(cs, ids, ev) ==
  LET best == {i \in ids : \A n \in ids : SourcePriority(cs[i], ev) <= SourcePriority(cs[n], ev)}
  IN IF Agree(UNION {ComparableValue(cs[i]) : i \in ids}) THEN {} ELSE ids \ best

Losing(cs, ids, ev) ==
  LET comparable == {i \in ids : ComparableValue(cs[i]) # {}}
      valid == UNION {ComparableValue(cs[i]) : i \in comparable}
      best == {i \in ids : \A n \in ids : SourcePriority(cs[i], ev) <= SourcePriority(cs[n], ev)}
  IN IF Cardinality(ids) < 2 THEN {}
     ELSE IF \/ Cardinality(comparable) < 2
             \/ Cardinality({v.family : v \in valid}) # 1
             \/ Cardinality({v.currency : v \in valid} \ {Unspecified}) > 1 THEN ids
     ELSE IF Agree(valid) THEN {}
     ELSE IF Cardinality(best) = 1 THEN ids \ best
     ELSE ids

Reconciles(c) == c.metric # Unspecified /\ c.value # {} /\ c.status \notin {"unsupported", "stale"}

ReconcileConflicts(cs, ev) ==
  LET rivals(i) == {n \in DOMAIN cs : /\ Reconciles(cs[i]) /\ Reconciles(cs[n])
                                      /\ cs[n].metric = cs[i].metric /\ cs[n].period = cs[i].period}
  IN [i \in DOMAIN cs |-> IF i \in Losing(cs, rivals(i), ev) THEN Capped(cs[i], "contested", 50)
                          ELSE cs[i]]

Validate(cs, ev) == ReconcileConflicts([i \in DOMAIN cs |-> ValidateClaim(cs[i], ev)], ev)

(* What the validator reports: its verdict, what to repair, and the share  *)
(* of claims that name evidence, linked or not.                            *)
ValidatorOk(cs) == \A i \in DOMAIN cs : cs[i].status \notin {"unsupported", "contested"}

RepairTasks(cs) ==
  {i \in DOMAIN cs : cs[i].status \in {"unsupported", "contested", "stale"} \/ cs[i].uncorroborated}
Retryable(c) == c.status = "contested" /\ c.agent \notin {"validator", "synthesis"}

EvidenceCoverage(cs) ==
  IF DOMAIN cs = {} THEN 100
  ELSE (100 * Cardinality({i \in DOMAIN cs : cs[i].evidence # {} \/ cs[i].type = "scenario"}))
         \div Cardinality(DOMAIN cs)

PrimaryCoverage(cs, ev) ==
  IF DOMAIN cs = {} THEN 100
  ELSE (100 * Cardinality({i \in DOMAIN cs : \E n \in Linked(cs[i], ev) : ev[n].priority = 1}))
         \div Cardinality(DOMAIN cs)

-----------------------------------------------------------------------------
(* The report: the lists it is made of, before they are cut to length, and *)
(* the confidence of a claim in per cent.                                  *)
Admitted(cs) == {i \in DOMAIN cs : cs[i].status \in Admissible}
ThesisAgents == {"financials", "earnings", "industry", "valuation"}

Thesis(cs) ==
  {i \in Admitted(cs) : /\ cs[i].agent \in ThesisAgents /\ cs[i].type \notin Alert
                        /\ ~cs[i].uncorroborated}
Catalysts(cs) == {i \in Admitted(cs) : cs[i].type = "catalyst" /\ ~cs[i].uncorroborated}
AntiThesis(cs) == {i \in Admitted(cs) : cs[i].type = "risk"}
WatchItems(cs) ==
  {i \in Admitted(cs) : \/ cs[i].uncorroborated \/ cs[i].status = "inferred"
                        \/ cs[i].agent \in {"filings", "earnings", "news"} /\ cs[i].type \notin Alert}

(* The tier of a claim is that of its best source, when it is linked.      *)
StatusWeight == [verified |-> 100, supported |-> 86, inferred |-> 62]
SourceTierWeight == [A |-> 100, B |-> 92, C |-> 78, D |-> 58, E |-> 38, none |-> 62]
SourceTier(c, ev) ==
  IF Linked(c, ev) = {} THEN Unspecified ELSE <<"A", "B", "C", "D", "E">>[SourcePriority(c, ev)]
ClaimQuality(c, ev) ==
  (c.confidence * StatusWeight[c.status] * SourceTierWeight[SourceTier(c, ev)]
     * (IF c.uncorroborated THEN 72 ELSE 100)) \div 1000000

(* The mean quality by materiality, where 60 is assumed and 25 the least.  *)
Materiality(c) == IF c.materiality < 0 THEN 60 ELSE Greatest(25, c.materiality)

Summed(f, S) ==
  LET sum[T \in SUBSET S] == IF T = {} THEN 0 ELSE LET i == CHOOSE i \in T : TRUE IN f[i] + sum[T \ {i}]
  IN sum[S]

WeightedConfidence(cs, ids, ev) ==
  IF ids = {} THEN 0
  ELSE Summed([i \in ids |-> ClaimQuality(cs[i], ev) * Materiality(cs[i])], ids)
         \div Summed([i \in ids |-> Materiality(cs[i])], ids)

DataConfidence(cs, ev) ==
  WeightedConfidence(cs, {i \in Admitted(cs) : cs[i].status \in {"verified", "supported"}}, ev)
ThesisConfidence(cs, ev) ==
  WeightedConfidence(cs, {i \in Admitted(cs) :
    cs[i].agent \in {"financials", "earnings", "industry", "risk", "sentiment"}}, ev)
=============================================================================

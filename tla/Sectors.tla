-------------------------------- MODULE Sectors --------------------------------
(***************************************************************************)
(* One metric over a declared roster of issuers, its concentration and its  *)
(* histogram (sectors.py).                                                  *)
(*                                                                          *)
(* A snapshot is an issuer's evaluated evidence: its context, the metrics   *)
(* that apply, the amounts by field, and its company metrics (value,        *)
(* usable, and whether their operands are these amounts).  A roster has the *)
(* issuers, whether they are the whole sector, the context and the two      *)
(* dates.  Fractions are pairs; coverage policies are in percent.           *)
(***************************************************************************)
EXTENDS CompanyEvidence, HistoryBand

CONSTANTS SectorCases,       \* kind "sector": roster, snapshots, metric, method, policy
          ConcentrationCases,\* kind "concentration": roster, snapshots, policy
          HistogramCases     \* kind "histogram": observed (issuer -> value), bins

Pairs == [pe |-> <<"market_cap", "common_income">>, ps |-> <<"market_cap", "revenue">>,
          pfcf |-> <<"market_cap", "fcf">>, operating_margin |-> <<"operating_income", "revenue">>,
          fcf_margin |-> <<"fcf", "revenue">>, revenue_yoy |-> <<"revenue", "prior_revenue">>,
          growth_breadth |-> <<"revenue", "prior_revenue">>]
IsRatio(metric) == metric \in DOMAIN Pairs
IsGrowth(metric) == metric \in {"revenue_yoy", "growth_breadth"}
IsBreadth(metric) == metric \in {"profit_breadth", "cash_breadth", "growth_breadth"}
FieldsOf(metric) ==
    IF IsRatio(metric) THEN Pairs[metric] ELSE <<IF metric = "profit_breadth" THEN "common_income" ELSE "fcf">>
Basis(field) ==
    CASE field = "market_cap" -> "common_equity" [] field = "common_income" -> "income_available_common"
      [] field = "fcf" -> "cash_ppe_fcf" [] OTHER -> "consolidated_flow"

(* _companies: the one snapshot of an issuer, if there is one. *)
Snapshot(roster, cs, i) ==
    LET own == {c \in cs : c.issuer = i} IN
    IF Cardinality(own) = 1 /\ \A c \in own : c.context = roster.context THEN CHOOSE c \in own : TRUE ELSE none

Cap(roster, c, prior) ==
    LET e == IF prior THEN c.prior_cap ELSE c.amount["market_cap"]
        day == IF prior THEN roster.prior_date ELSE roster.date
    IN  IF day = none THEN none
        ELSE IF evidence_issues(e, "common_equity", day, TRUE, FALSE) # {} THEN none
        ELSE IF e.value > 0 THEN e.value ELSE none

InputIssues(c, roster, metric) ==
    LET fields == Range(FieldsOf(metric))
        flows == fields \ {"market_cap", "prior_revenue"}
        divisor == IF IsRatio(metric) THEN Pairs[metric][2] ELSE none
    IN  When(metric \notin c.applicable, "unsupported_profile")
        \cup UNION {evidence_issues(c.amount[f], Basis(f), roster.date, f = "market_cap", f = divisor) : f \in fields}
        \cup When("market_cap" \in fields /\ c.amount["market_cap"].value # none
                    /\ c.amount["market_cap"].value <= 0, "market_cap_nonpositive")
        \cup When(Cardinality({<<c.amount[f].from, c.amount[f].to>> : f \in flows}) > 1, "incompatible_periods")

(* _company_metric, after the denominator is found positive beyond its error. *)
ObservedMetric(c, metric) ==
    LET id == IF metric = "growth_breadth" THEN "revenue_yoy" ELSE metric
        found == {m \in c.metrics : m.id = id}
        m == CHOOSE x \in found : TRUE
    IN  IF ~IsRatio(metric) THEN none
        ELSE IF Denominator(c.amount[Pairs[metric][2]]) # {} \/ Cardinality(found) # 1 THEN none
        ELSE IF m.matches /\ m.usable /\ (id \in {"pe", "ps", "pfcf"} => m.value > 0) THEN m.value ELSE none

SumOf(chosen, S, field) == Total([i \in S |-> chosen[i].amount[field].value])
TotalAnyCohort(chosen, contributions, pair) ==
    <<SumOf(chosen, DOMAIN chosen, pair[1]), SumOf(chosen, contributions, pair[2])>>
(* Numerator and denominator are summed over the same issuers. *)
CohortTotals(chosen, contributions, pair) ==
    <<SumOf(chosen, contributions, pair[1]), SumOf(chosen, contributions, pair[2])>>

KnownCapsOnly(caps) == DOMAIN caps # {}
(* Capitalisation coverage needs every issuer's capitalisation. *)
FullCapKnown(caps) == DOMAIN caps # {} /\ none \notin Range(caps)

(* The issuers whose inputs, and those whose metric, can be used. *)
CompleteOf(roster, company, metric) ==
    {i \in roster.issuers : company[i] # none /\ InputIssues(company[i], roster, metric) = {}}
DistributionOf(observed) == {i \in DOMAIN observed : observed[i] # none}
ContributionsOf(observed, metric, method) ==
    IF IsGrowth(metric) \/ (IsRatio(metric) /\ method # "total") THEN DistributionOf(observed) ELSE DOMAIN observed
SortedValues(observed) ==
    LET order == InOrder(DistributionOf(observed), LAMBDA i, j : \/ observed[i] < observed[j]
                                                                 \/ observed[i] = observed[j] /\ i < j)
    IN  [n \in DOMAIN order |-> observed[order[n]]]
PositiveOf(company, observed, metric) ==
    LET amount(i, field) == company[i].amount[field].value
        signed(i) == CASE IsGrowth(metric) -> observed[i]
                       [] metric \in {"operating_margin", "fcf_margin"} -> amount(i, Pairs[metric][1])
                       [] OTHER -> amount(i, Last(FieldsOf(metric)))
    IN  Cardinality({i \in IF IsGrowth(metric) THEN DistributionOf(observed) ELSE DOMAIN observed : signed(i) > 0})
TotalRatio(totals, error, metric) ==
    IF totals[2] <= 0 \/ totals[2] <= error THEN none
    ELSE <<IF metric = "revenue_yoy" THEN totals[1] - totals[2] ELSE totals[1], totals[2]>>

SectorValue(company, observed, values, contributions, metric, method) ==
    LET v == Cardinality(contributions)
        chosen == [i \in DOMAIN observed |-> company[i]]
    IN  IF v = 0 THEN none
        ELSE IF IsBreadth(metric) THEN <<PositiveOf(company, observed, metric), v>>
        ELSE IF method = "median" THEN <<Quantile(values, 2), 4>>
        ELSE IF method = "mean" THEN <<Total(values), v>>
        ELSE TotalRatio(CohortTotals(chosen, contributions, Pairs[metric]),
                        Total([i \in contributions |-> company[i].amount[Pairs[metric][2]].error]), metric)

SectorGate(roster, caps, complete, contributions, policy) ==
    LET capOf(S) == Total([i \in {j \in S : caps[j] # none} |-> caps[i]]) IN
    /\ roster.complete /\ Cardinality(contributions) >= policy.contributors
    /\ 100 * Cardinality(complete) >= policy.issuers * Cardinality(roster.issuers)
    /\ FullCapKnown(caps)
    /\ 100 * capOf(contributions) >= policy.cap * capOf(roster.issuers)

SectorResult(value, gate, observed, values, contributions) ==
    [value |-> value, complete |-> DOMAIN observed, contributions |-> contributions,
     distribution |-> values, gate |-> value # none /\ gate]
SectorFrom(roster, company, caps, observed, values, contributions, metric, method, policy) ==
    SectorResult(SectorValue(company, observed, values, contributions, metric, method),
                 SectorGate(roster, caps, DOMAIN observed, contributions, policy),
                 observed, values, contributions)
ObservedSector(roster, company, observed, metric, method, policy) ==
    SectorFrom(roster, company,
               [i \in roster.issuers |-> IF company[i] = none THEN none ELSE Cap(roster, company[i], FALSE)],
               observed, SortedValues(observed), ContributionsOf(observed, metric, method), metric, method, policy)
CompleteSector(roster, company, complete, metric, method, policy) ==
    ObservedSector(roster, company, [i \in complete |-> ObservedMetric(company[i], metric)], metric, method, policy)
SectorOf(roster, company, metric, method, policy) ==
    CompleteSector(roster, company, CompleteOf(roster, company, metric), metric, method, policy)
calculate_sector(roster, cs, metric, method, policy) ==
    SectorOf(roster, [i \in roster.issuers |-> Snapshot(roster, cs, i)], metric, method, policy)

(* The largest five by capitalisation, ties by issuer, if all are known. *)
Top == 5
Leaders(roster, cs, prior) ==
    LET cap(i) == Cap(roster, Snapshot(roster, cs, i), prior)
        ahead(i) == {j \in roster.issuers : cap(j) > cap(i) \/ (cap(j) = cap(i) /\ j < i)}
    IN  IF \E i \in roster.issuers : cap(i) = none THEN none
        ELSE {i \in roster.issuers : Cardinality(ahead(i)) < Top}

RemainingNow(roster, cs) == roster.issuers \ Leaders(roster, cs, FALSE)
(* Growth without the leaders of the earlier date. *)
Remaining(roster, cs) == roster.issuers \ Leaders(roster, cs, TRUE)

calculate_concentration(roster, cs, policy) ==
    LET known == roster.complete /\ roster.issuers # {} /\ \A i \in roster.issuers : Snapshot(roster, cs, i) # none
        now == Leaders(roster, cs, FALSE)
        before == Leaders(roster, cs, TRUE)
        caps(S) == Total([i \in S |-> Cap(roster, Snapshot(roster, cs, i), FALSE)])
    IN  [share |-> IF ~known THEN none ELSE IF now = none THEN none ELSE <<caps(now), caps(roster.issuers)>>,
         growth |-> IF ~known THEN none ELSE IF before = none THEN none
                    ELSE calculate_sector([roster EXCEPT !.issuers = Remaining(roster, cs)], cs,
                                          "revenue_yoy", "total", policy)]

(* Bounds are kept times the number of bins. *)
BinUncapped(bounds, value, bins) == Cardinality({i \in DOMAIN bounds : bounds[i] <= value})
BinOf(bounds, value, bins) ==
    LET right == Cardinality({i \in DOMAIN bounds : bounds[i] <= value}) IN IF right < bins THEN right ELSE bins

histogram(observed, bins) ==
    LET least == CHOOSE x \in Range(observed) : \A y \in Range(observed) : x <= y
        most == CHOOSE x \in Range(observed) : \A y \in Range(observed) : y <= x
        bounds == [i \in 1..(bins + 1) |-> least * bins + (most - least) * (i - 1)]
    IN  IF observed = <<>> THEN <<>>
        ELSE IF least = most THEN <<[lower |-> least * bins, upper |-> most * bins, issuers |-> DOMAIN observed]>>
        ELSE [b \in 1..bins |-> [lower |-> bounds[b], upper |-> bounds[b + 1],
                  issuers |-> {i \in DOMAIN observed : BinOf(bounds, observed[i] * bins, bins) = b}]]

CalculateSector == Take(SectorCases)
CalculateConcentration == Take(ConcentrationCases)
DrawHistogram == Take(HistogramCases)

-----------------------------------------------------------------------------
(* A sector's ratio lies between the least and the greatest of the ratios of   *)
(* the companies it is made of, whenever their denominators are positive:      *)
(* the totals are of one and the same cohort.                                  *)
WithinCompanies(r) ==
    LET c(i) == CHOOSE x \in case.snapshots : x.issuer = i
        den(i) == c(i).amount[Pairs[case.metric][2]].value
        num(i) == c(i).amount[Pairs[case.metric][1]].value - IF case.metric = "revenue_yoy" THEN den(i) ELSE 0
    IN  /\ r.value # none /\ IsRatio(case.metric) /\ ~IsBreadth(case.metric) /\ case.method = "total"
        /\ \A i \in r.contributions : den(i) > 0
        => /\ \E i \in r.contributions : num(i) * r.value[2] <= r.value[1] * den(i)
           /\ \E i \in r.contributions : num(i) * r.value[2] >= r.value[1] * den(i)
SectorWithinCompanies ==
    case.kind = "sector" =>
        WithinCompanies(calculate_sector(case.roster, case.snapshots, case.metric, case.method, case.policy))

(* Silence never helps: without the evidence of any one issuer of the roster   *)
(* no sector comparison is allowed, however well the others are covered.       *)
GateNeedsEveryone ==
    case.kind = "sector" =>
    \A i \in case.roster.issuers :
        ~calculate_sector(case.roster, {c \in case.snapshots : c.issuer # i}, case.metric, case.method,
                          case.policy).gate

(* The growth without the leaders is of issuers none of which was larger at    *)
(* the earlier date than an issuer left out: today's leaders are not removed   *)
(* by hindsight.  Five leaders hold at least their equal share.                *)
NoHindsightIn(r) ==
    LET n == Cardinality(case.roster.issuers)
        prior(i) == (CHOOSE c \in case.snapshots : c.issuer = i).prior_cap.value
    IN  /\ r.growth # none =>
              /\ Cardinality(r.growth.contributions) <= IF n > Top THEN n - Top ELSE 0
              /\ \A i \in r.growth.contributions :
                    Cardinality({j \in case.roster.issuers : prior(j) >= prior(i)}) > Top
        /\ r.share # none => /\ n * r.share[1] >= (IF n > Top THEN Top ELSE n) * r.share[2]
                             /\ r.share[1] <= r.share[2]
LeadersFrozen ==
    case.kind = "concentration" =>
        NoHindsightIn(calculate_concentration(case.roster, case.snapshots, case.policy))

(* Each observation is in exactly one bin, between its bounds: the greatest    *)
(* is not lost at the upper edge, and one on an inner edge is counted once.    *)
HistogramCounts ==
    case.kind = "histogram" =>
    LET h == histogram(case.observed, case.bins) IN
    \A i \in DOMAIN case.observed :
        LET holding == {b \in DOMAIN h : i \in h[b].issuers}
            v == case.observed[i] * case.bins
        IN  /\ Cardinality(holding) = 1
            /\ \A b \in holding : h[b].lower <= v /\ (v < h[b].upper \/ (b = Len(h) /\ v = h[b].upper))
=============================================================================

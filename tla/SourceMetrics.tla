----------------------------- MODULE SourceMetrics -----------------------------
(***************************************************************************)
(* Margins, cash flow, balance ratios and growth over selected inputs or    *)
(* assembled amounts (metrics.py), and the trend of three growth rates      *)
(* (trends.py).  A ratio is kept as numerator and denominator; both are     *)
(* whole numbers here, so the decimal contexts' range errors do not arise.  *)
(***************************************************************************)
EXTENDS PeriodAmounts

CONSTANTS MetricCases,   \* kind "metric": metric, operands
          GrowthCases,   \* kind "growth": current, prior, calendar, proof
          TrendCases     \* kind "trend": metrics (rate, usable, context, current,
                         \*   prior, calendar), tolerance, proof

(* A selected input as an operand. *)
Selected(s) == [value |-> ValueOf(s), error |-> s.error, from |-> s.from, to |-> s.to, leaves |-> <<s>>,
                coefficients |-> <<1>>, formula |-> "selected", calendar |-> none, proof |-> none, flags |-> s.flags]
Leaves(ops) == FlattenSeq([i \in DOMAIN ops |-> ops[i].leaves])

(* A denominator must be positive beyond its own precision. *)
Denominator(op) ==
    IF op.value = none THEN {"source_input_unavailable"}
    ELSE IF op.value <= 0 THEN {"denominator_nonpositive"}
    ELSE IF op.error = none THEN {"denominator_precision_unknown"}
    ELSE When(op.value <= op.error, "denominator_indistinguishable_from_zero")

AssemblyKey(op) == <<op.formula, CalendarKey(op.calendar), [i \in DOMAIN op.leaves |->
                        <<op.leaves[i].from, op.leaves[i].to, op.leaves[i].edition>>], op.coefficients>>

Issues(ops, concepts, same) ==
    LET ss == Leaves(ops)
        each == FlattenSeq([i \in DOMAIN ops |-> [k \in DOMAIN ops[i].leaves |-> concepts[i]]])
    IN  IF \A o \in Range(ops) : o.formula = "selected" THEN SourceIssues(ss, concepts, same, FALSE)
        ELSE SourceIssues(ss, each, FALSE, FALSE)
             \cup UNION {Blocking(o.flags) : o \in Range(ops)}
             \cup When(\E o \in Range(ops) : o.value = none, "source_input_unavailable")
             \cup When(same /\ Cardinality({<<o.from, o.to>> : o \in Range(ops)}) # 1, "incompatible_periods")
             \cup When(same /\ Cardinality({AssemblyKey(o) : o \in Range(ops)}) # 1,
                       "incompatible_period_assemblies")

Calculate(ops, problems, num, den) ==
    [ratio |-> IF problems = {} THEN <<num, den>> ELSE none,
     flags |-> problems \cup UNION {o.flags : o \in Range(ops)}]
Known(op) == IF op.value = none THEN 0 ELSE op.value

Margin(c) == [c EXCEPT !.flags = @ \cup When(c.ratio # none /\ ~(c.ratio[1] \in -c.ratio[2]..c.ratio[2]),
                                              "extreme_margin")]
ReportedMargin(concept, ops) ==
    Margin(Calculate(ops, Issues(ops, <<concept, "revenue">>, TRUE) \cup Denominator(ops[2]),
                     Known(ops[1]), Known(ops[2])))
derived_gross_margin(ops) ==
    LET c == Margin(Calculate(ops, Issues(ops, <<"revenue", "cost">>, TRUE) \cup Denominator(ops[1]),
                              Known(ops[1]) - Known(ops[2]), Known(ops[1])))
    IN  [c EXCEPT !.flags = @ \cup {"gross_profit_derived"}]
CashIssues(ops) ==
    Issues(SubSeq(ops, 1, 2), <<"cash_from_operations", "capex">>, TRUE)
    \cup When(Known(ops[2]) < 0, "negative_cash_ppe_capex")
free_cash_flow(ops) == Calculate(ops, CashIssues(ops), Known(ops[1]) - Known(ops[2]), 1)
free_cash_flow_margin(ops) ==
    Margin(Calculate(ops, CashIssues(ops) \cup Denominator(ops[3])
                          \cup Issues(ops, <<"cash_from_operations", "capex", "revenue">>, TRUE),
                     Known(ops[1]) - Known(ops[2]), Known(ops[3])))
CurrentIssues(ops) ==
    SourceIssues(Leaves(ops), <<"current_assets", "current_liabilities">>, TRUE, TRUE)
    \cup When(\E o \in Range(ops) : Known(o) < 0, "negative_current_balance")
current_ratio(ops) == Calculate(ops, CurrentIssues(ops) \cup Denominator(ops[2]), Known(ops[1]), Known(ops[2]))
net_working_capital(ops) == Calculate(ops, CurrentIssues(ops), Known(ops[1]) - Known(ops[2]), 1)

(* Income of a year over the average of the assets that open and close it. *)
return_on_assets(ops) ==
    LET ss == Leaves(ops)
        assets == <<"total_assets", "total_assets">>
        problems == SelectionIssues(ss, <<"net_income">> \o assets)
                    \cup Blocking(annual_amount(ss[1], none).flags)
                    \cup SourceIssues(Tail(ss), assets, FALSE, TRUE)
                    \cup Denominator(ops[2]) \cup Denominator(ops[3])
                    \cup When(Cardinality({s.edition : s \in Range(ss)}) # 1, "incompatible_filing_editions")
                    \cup When(ss[2].to # ss[1].from - 1 \/ ss[3].to # ss[1].to, "incompatible_balance_dates")
    IN  Calculate(ops, problems, 2 * Known(ops[1]), Known(ops[2]) + Known(ops[3]))

Metric(metric, ops) ==
    CASE metric = "operating_margin" -> ReportedMargin("operating_income", ops)
      [] metric = "gross_margin_derived" -> derived_gross_margin(ops)
      [] metric = "free_cash_flow_ppe" -> free_cash_flow(ops)
      [] metric = "free_cash_flow_margin_ppe" -> free_cash_flow_margin(ops)
      [] metric = "current_ratio" -> current_ratio(ops)
      [] metric = "net_working_capital" -> net_working_capital(ops)
      [] metric = "return_on_assets" -> return_on_assets(ops)

-----------------------------------------------------------------------------
(* _comparison_period: the same months of the year before. *)
ComparisonPeriod(current, prior) ==
    LET months == current.to - current.from + 1 IN
    /\ \A s \in Range(current.leaves) \cup Range(prior.leaves) : s.aligned
    /\ months \in {Quarter, 4 * Quarter}
    /\ months = Quarter => current.from % Quarter = 0
    /\ prior.from = current.from - 12 /\ prior.to = current.to - 12

ComparableAnyLength(c, current, prior) ==
    \E cumulative \in BOOLEAN :
        LET m == Match(c, current, cumulative)  p == Match(c, prior, cumulative) IN
        /\ m # none /\ p # none /\ m[1] = p[1] + 1 /\ m[2] = p[2]
        /\ cumulative => m[2] = 4
(* FiscalCalendarEvidence.comparable: adjacent reviewed years, the same        *)
(* quarter or the whole year, and in weeks the same length.                    *)
Comparable(c, current, prior) ==
    \E cumulative \in BOOLEAN :
        LET m == Match(c, current, cumulative)  p == Match(c, prior, cumulative) IN
        /\ m # none /\ p # none /\ m[1] = p[1] + 1 /\ m[2] = p[2]
        /\ cumulative => m[2] = 4
        /\ c.years[p[1]].ends[4] + 1 = c.years[m[1]].start
        /\ c.years[p[1]].kind = c.years[m[1]].kind
        /\ c.years[m[1]].kind = "weeks" => current.to - current.from = prior.to - prior.from

revenue_growth(current, prior, calendar, proof) ==
    LET ops == <<current, prior>>
        leaves == Leaves(ops)
        selected == \A o \in Range(ops) : o.formula = "selected"
        comparable == IF calendar = none THEN ComparisonPeriod(current, prior)
                      ELSE selected /\ Comparable(calendar, leaves[1], leaves[2])
        problems == Issues(ops, <<"revenue", "revenue">>, FALSE) \cup Denominator(prior)
                    \cup RevisionProblems(leaves, proof)
                    \cup When(current.formula # prior.formula, "incompatible_comparison_basis")
                    \cup (IF calendar = none THEN {} ELSE CalendarProblems(calendar, leaves))
                    \cup When(~comparable, "unsupported_comparison_periods")
    IN  Calculate(ops, problems, Known(current) - Known(prior), Known(prior))

(* trends.py: three consecutive standalone quarters, each rate against the    *)
(* one before. *)
TrendByEnds(rates, tolerance) ==
    LET change == rates[3] - rates[1] IN
    CASE change > tolerance -> "rising" [] change < -tolerance -> "falling" [] OTHER -> "broadly_stable"
TrendRelation(rates, tolerance) ==
    LET changes == {rates[2] - rates[1], rates[3] - rates[2]} IN
    CASE \A c \in changes : c > tolerance -> "rising"
      [] \A c \in changes : c < -tolerance -> "falling"
      [] \A c \in changes : c <= tolerance /\ -c <= tolerance -> "broadly_stable"
      [] OTHER -> "mixed"
growth_trend(ms, tolerance, proof) ==
    LET currents == [i \in DOMAIN ms |-> ms[i].current]
        leaves == currents \o [i \in DOMAIN ms |-> ms[i].prior]
        quarter(m) == IF m.calendar # none THEN Match(m.calendar, m.current, FALSE) # none
                      ELSE MonthSpan(m.current) = Quarter /\ m.current.from % Quarter = 0
        problems == When(Len(ms) # 3, "three_quarterly_rates_required")
                    \cup When(~All(ms, quarter), "unsupported_trend_periods")
                    \cup When(Cardinality({CalendarKey(m.calendar) : m \in Range(ms)}) > 1, "incompatible_trend_calendar")
                    \cup When(Cardinality({m.context : m \in Range(ms)}) > 1, "incompatible_trend_context")
                    \cup When(\E m \in Range(ms) : ~m.usable, "trend_input_unavailable")
                    \cup SelectionIssues(leaves, [i \in DOMAIN leaves |-> "revenue"])
                    \cup RevisionProblems(leaves, proof)
    IN  IF problems # {} \/ ~Contiguous(currents) THEN none
        ELSE TrendRelation([i \in DOMAIN ms |-> ms[i].rate], tolerance)

ComputeMetric == Take(MetricCases)
CompareGrowth == Take(GrowthCases)
CompareTrend == Take(TrendCases)

-----------------------------------------------------------------------------
(* A ratio is given only when its denominator is positive whatever the true   *)
(* amounts are within their reported precision, also when the denominator is  *)
(* itself assembled by adding and subtracting amounts (_denominator over the  *)
(* error that _assemble adds up).                                             *)
DenominatorCertain ==
    case.kind \in {"metric", "growth"} =>
    LET r == IF case.kind = "metric" THEN Metric(case.metric, case.operands)
             ELSE revenue_growth(case.operands[1], case.operands[2], case.calendar, case.proof)
        below == CASE case.kind = "growth" -> {2}
                   [] case.metric \in {"operating_margin", "current_ratio"} -> {2}
                   [] case.metric = "gross_margin_derived" -> {1}
                   [] case.metric = "free_cash_flow_margin_ppe" -> {3}
                   [] case.metric = "return_on_assets" -> {2, 3}
                   [] OTHER -> {}
        least(op) == Total([i \in DOMAIN op.leaves |->
                        op.coefficients[i] * op.leaves[i].value - op.leaves[i].error])
    IN  r.ratio # none => \A k \in below : least(case.operands[k]) > 0

(* Growth compares like with like: a standalone quarter, or a whole year,     *)
(* with the one a year before, of the same length; no date is in both, and    *)
(* between two quarters lie the three others.                                 *)
GrowthIsLikeForLike ==
    case.kind = "growth" =>
    LET c == case.operands[1]  p == case.operands[2]
        length == c.to - c.from + 1
    IN  revenue_growth(c, p, case.calendar, case.proof).ratio # none =>
            /\ p.to - p.from + 1 = length
            /\ length \in {Quarter, Quarter + 1, 4 * Quarter, 4 * Quarter + 1}
            /\ c.from - p.to - 1 \in IF length <= Quarter + 1 THEN {3 * Quarter, 3 * Quarter + 1} ELSE {0}

(* A trend claims no more than its steps show: a rise or fall holds for each  *)
(* pair of consecutive quarters, and a stable one stays within the tolerance  *)
(* at every step; read backwards, a rise is a fall.                           *)
TrendHoldsStepwise ==
    case.kind = "trend" =>
    LET t == growth_trend(case.metrics, case.tolerance, case.proof)
        rate(i) == case.metrics[i].rate
        step(i) == rate(i + 1) - rate(i)
        back == TrendRelation(<<rate(3), rate(2), rate(1)>>, case.tolerance)
    IN  t # none => /\ (t = "rising") <=> \A i \in 1..2 : step(i) > case.tolerance
                    /\ t = "broadly_stable" => \A i \in 1..2 : step(i) \in -case.tolerance..case.tolerance
                    /\ (t = "rising") <=> (back = "falling")
                    /\ \A i \in 1..2 : case.metrics[i].current.to + 1 = case.metrics[i + 1].current.from
=============================================================================

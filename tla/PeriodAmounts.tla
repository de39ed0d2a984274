----------------------------- MODULE PeriodAmounts -----------------------------
(***************************************************************************)
(* Annual, quarterly and trailing amounts assembled from reported flows     *)
(* (periods.py), by calendar months or by a reviewed fiscal calendar        *)
(* (fiscal.py).                                                             *)
(*                                                                          *)
(* Dates are whole numbers.  Their unit is the calendar month, and in a     *)
(* fiscal calendar a third of a 13-week quarter: a quarter is Quarter long, *)
(* or one longer in a 53-week year.  An input is a selected fact with its   *)
(* period (from, to, kind, and whether it starts and ends a month), value,  *)
(* precision (error), flags, selection hash, filing edition, query cutoff,  *)
(* observation, statement family, and context: query policy, reporting      *)
(* basis, unit and scope.                                                   *)
(***************************************************************************)
EXTENDS Cases, FiniteSets, SequencesExt

CONSTANT AmountCases     \* kind "amount": op, sources, calendar, proof

Quarter == 3
Total(f) == FoldFunction(LAMBDA a, b : a + b, 0, f)
All(seq, P(_)) == \A i \in DOMAIN seq : P(seq[i])
When(condition, flag) == IF condition THEN {flag} ELSE {}
Flows == {"revenue", "cost", "operating_income", "net_income", "cash_from_operations", "capex"}
Informational == {"revised_view", "earliest_available"}
Blocking(flags) == flags \ Informational
ValueOf(s) == IF Blocking(s.flags) = {} THEN s.value ELSE none

-----------------------------------------------------------------------------
(* fiscal.py *)
QuarterStart(y, k) == IF k = 1 THEN y.start ELSE y.ends[k - 1] + 1
QuarterLength(y, k) == y.ends[k] - QuarterStart(y, k) + 1
Supported(y) ==
    \/ /\ y.kind = "weeks"
       /\ \A k \in 1..4 : QuarterLength(y, k) \in {Quarter, Quarter + 1}
       /\ y.ends[4] - y.start + 1 \in {4 * Quarter, 4 * Quarter + 1}
    \/ y.kind = "months" /\ \A k \in 1..4 : QuarterLength(y, k) = Quarter

CalendarProblems(c, ss) ==
    When(c.hashes # {s.hash : s \in Range(ss)}, "fiscal_calendar_input_mismatch")
    \cup When(\E s \in Range(ss) : c.known > s.cutoff, "fiscal_calendar_not_known_at_cutoff")
    \cup When((\E y \in Range(c.years) : ~Supported(y)) \/ Cardinality({y.kind : y \in Range(c.years)}) # 1,
              "unsupported_fiscal_calendar")

CalendarKey(c) == IF c = none THEN none ELSE <<c.years, c.known>>

(* The reviewed year and quarter a period is, by its exact boundaries. *)
Match(c, s, cumulative) ==
    LET places == {p \in (DOMAIN c.years) \X (1..4) :
                      /\ s.to = c.years[p[1]].ends[p[2]]
                      /\ s.from = IF cumulative THEN c.years[p[1]].start ELSE QuarterStart(c.years[p[1]], p[2])}
    IN  IF s.kind # "duration" \/ places = {} THEN none ELSE CHOOSE p \in places : TRUE

-----------------------------------------------------------------------------
(* metrics.py and periods.py *)
MonthSpan(s) ==
    IF s.kind = "duration" /\ s.aligned /\ s.from <= s.to THEN s.to - s.from + 1 ELSE none

SelectionIssues(ss, concepts) ==
    UNION {Blocking(s.flags) : s \in Range(ss)}
    \cup When(\E s \in Range(ss) : ValueOf(s) = none, "source_input_unavailable")
    \cup When([i \in DOMAIN ss |-> ss[i].concept] # concepts, "unexpected_concept")
    \cup When(Cardinality({s.context : s \in Range(ss)}) # 1, "incompatible_context")

FamilyFor(concept, balance) ==
    IF balance THEN "balance_sheet"
    ELSE IF concept \in {"cash_from_operations", "capex"} THEN "cash_flow" ELSE "income"

SourceIssues(ss, concepts, same, balance) ==
    SelectionIssues(ss, concepts)
    \cup When(\E s \in Range(ss) : s.kind # IF balance THEN "instant" ELSE "duration",
              IF balance THEN "instant_period_required" ELSE "flow_period_required")
    \cup When(same /\ Cardinality({<<s.from, s.to>> : s \in Range(ss)}) # 1, "incompatible_periods")
    \cup When(same /\ Cardinality({s.edition : s \in Range(ss)}) # 1, "incompatible_filing_editions")
    \cup When(\E s \in Range(ss) : s.family # FamilyFor(s.concept, balance), "incompatible_statement_family")

AmountProblems(ss) ==
    SourceIssues(ss, [i \in DOMAIN ss |-> ss[1].concept], FALSE, FALSE)
    \cup When(\E s \in Range(ss) : s.concept \notin Flows, "unsupported_period_concept")
    \cup When(\E s \in Range(ss) : s.concept = "capex" /\ s.value # none /\ s.value < 0, "negative_cash_ppe_capex")
    \cup When(Cardinality({s.observation : s \in Range(ss)}) # Len(ss), "duplicate_period_observation")

RevisionProblems(ss, proof) ==
    IF proof # none THEN When(proof # {s.hash : s \in Range(ss)}, "revision_compatibility_mismatch")
    ELSE When(Cardinality({s.edition : s \in Range(ss)}) # 1, "revision_compatibility_unproven")

SignedErrors(ss, coefficients) ==
    IF \E s \in Range(ss) : s.error = none THEN none
    ELSE Total([i \in DOMAIN ss |-> coefficients[i] * ss[i].error])
(* Uncertainties add up, whatever the sign of the term. *)
SumErrors(ss, coefficients) ==
    IF \E s \in Range(ss) : s.error = none THEN none ELSE Total([i \in DOMAIN ss |-> ss[i].error])

Assemble(ss, coefficients, from, to, formula, problems, calendar, proof) ==
    LET sum == IF problems = {} THEN Total([i \in DOMAIN ss |-> coefficients[i] * ss[i].value]) ELSE none
        negative == sum # none /\ sum < 0 /\ ss[1].concept = "capex"
    IN  [value |-> IF negative THEN none ELSE sum,
         error |-> IF problems = {} THEN SumErrors(ss, coefficients) ELSE none,
         from |-> from, to |-> to, leaves |-> ss, coefficients |-> coefficients, formula |-> formula,
         calendar |-> calendar, proof |-> proof,
         flags |-> problems \cup UNION {s.flags : s \in Range(ss)} \cup When(negative, "negative_cash_ppe_capex")]

annual_amount(s, calendar) ==
    LET annual == IF calendar = none THEN MonthSpan(s) = 4 * Quarter
                  ELSE Match(calendar, s, TRUE) # none /\ Match(calendar, s, TRUE)[2] = 4
        problems == AmountProblems(<<s>>)
                    \cup (IF calendar = none THEN {} ELSE CalendarProblems(calendar, <<s>>))
                    \cup When(~annual, "unsupported_annual_period")
        amount == Assemble(<<s>>, <<1>>, s.from, s.to, "direct_annual", problems, calendar, none)
    IN  [amount EXCEPT !.error = s.error]

(* Each quarter begins the day after the one before it ends. *)
Contiguous(ss) == \A i \in 1..(Len(ss) - 1) : ss[i].to + 1 = ss[i + 1].from

ttm_from_quarters(ss, calendar, proof) ==
    LET quarters == IF calendar = none
                    THEN All(ss, LAMBDA s : MonthSpan(s) = Quarter /\ s.from % Quarter = 0)
                    ELSE All(ss, LAMBDA s : Match(calendar, s, FALSE) # none)
        given == AmountProblems(ss) \cup RevisionProblems(ss, proof)
                 \cup When(Len(ss) # 4, "four_quarters_required")
                 \cup (IF calendar = none THEN {} ELSE CalendarProblems(calendar, ss))
                 \cup When(~quarters, "unsupported_quarter_period")
        problems == given \cup When(given = {} /\ ~Contiguous(ss), "noncontiguous_quarters")
    IN  Assemble(ss, [i \in DOMAIN ss |-> 1], ss[1].from, Last(ss).to, "sum_four_quarters", problems, calendar, proof)

YtdSameSpan(current, prior, calendar) ==
    LET c == MonthSpan(current)  p == MonthSpan(prior) IN
    c \in {6, 9, 12} /\ p \in {3, 6, 9} /\ c - p = Quarter
(* Two cumulative periods of one year, a quarter apart. *)
YtdPeriods(current, prior, calendar) ==
    IF calendar = none
    THEN LET c == MonthSpan(current)  p == MonthSpan(prior) IN
         c \in {6, 9, 12} /\ p \in {3, 6, 9} /\ c - p = Quarter /\ current.from = prior.from
    ELSE LET c == Match(calendar, current, TRUE)  p == Match(calendar, prior, TRUE) IN
         c # none /\ p # none /\ c[1] = p[1] /\ c[2] = p[2] + 1

quarter_from_ytd(current, prior, calendar) ==
    LET ss == <<current, prior>>
        valid == YtdPeriods(current, prior, calendar)
        problems == AmountProblems(ss)
                    \cup (IF calendar = none THEN {} ELSE CalendarProblems(calendar, ss))
                    \cup When(~valid, "incompatible_ytd_periods")
                    \cup When(current.edition # prior.edition, "incompatible_filing_editions")
    IN  Assemble(ss, <<1, -1>>, IF valid THEN prior.to + 1 ELSE none, current.to, "ytd_difference",
                 problems, calendar, none)

BridgePeriods(annual, current, prior, calendar) ==
    IF calendar = none
    THEN /\ MonthSpan(annual) = 4 * Quarter
         /\ MonthSpan(current) \in {3, 6, 9} /\ MonthSpan(prior) = MonthSpan(current)
         /\ prior.from = annual.from /\ annual.to + 1 = current.from
    ELSE LET a == Match(calendar, annual, TRUE)
             c == Match(calendar, current, TRUE)
             p == Match(calendar, prior, TRUE)
         IN  /\ none \notin {a, c, p}
             /\ a[2] = 4 /\ a[1] = p[1] /\ c[1] = a[1] + 1
             /\ c[2] = p[2] /\ c[2] \in 1..3
             /\ annual.to + 1 = current.from

ttm_from_annual_ytd(annual, current, prior, calendar, proof) ==
    LET ss == <<annual, current, prior>>
        valid == BridgePeriods(annual, current, prior, calendar)
        problems == AmountProblems(ss) \cup RevisionProblems(ss, proof)
                    \cup (IF calendar = none THEN {} ELSE CalendarProblems(calendar, ss))
                    \cup When(~valid, "incompatible_annual_ytd_periods")
    IN  Assemble(ss, <<1, 1, -1>>, IF valid THEN prior.to + 1 ELSE none, current.to, "annual_ytd_bridge",
                 problems, calendar, proof)

Amount(op, ss, calendar, proof) ==
    CASE op = "annual" -> annual_amount(ss[1], calendar)
      [] op = "quarters" -> ttm_from_quarters(ss, calendar, proof)
      [] op = "ytd" -> quarter_from_ytd(ss[1], ss[2], calendar)
      [] op = "bridge" -> ttm_from_annual_ytd(ss[1], ss[2], ss[3], calendar, proof)

AssembleAmount == Take(AmountCases)

-----------------------------------------------------------------------------
(* An assembled amount measures its window: every date in the window is       *)
(* counted once by the signed operands together, and every other date not at  *)
(* all, in calendar months and in 52/53-week years alike; and the window is a *)
(* quarter or a year.                                                         *)
MeasuresWindow(a) ==
    LET within(d, p) == IF p.from <= d /\ d <= p.to THEN 1 ELSE 0
        counted(d) == Total([i \in DOMAIN a.leaves |-> a.coefficients[i] * within(d, a.leaves[i])])
        dates == UNION {s.from..s.to : s \in Range(a.leaves)}
        year == a.formula # "ytd_difference"
    IN  a.value # none =>
            /\ \A d \in dates : counted(d) = within(d, a)
            /\ a.from..a.to \subseteq dates
            /\ a.to - a.from + 1 - (IF year THEN 4 ELSE 1) * Quarter
                  \in IF a.calendar = none THEN {0} ELSE {0, 1}
AmountMeasuresWindow ==
    case.kind = "amount" => MeasuresWindow(Amount(case.op, case.sources, case.calendar, case.proof))
=============================================================================

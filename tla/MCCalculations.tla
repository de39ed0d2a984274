----------------------------- MODULE MCCalculations -----------------------------
(* Small inputs for every calculation, chosen around its boundaries. *)
EXTENDS Calculations

-----------------------------------------------------------------------------
(* Market reads: two batches at most, dates 1..3. *)
Observation(d, precision) ==
    [date |-> d, value |-> 5, precision |-> precision, published_at |-> 2 * d + 1, published_date |-> d,
     realtime_start |-> 0, defined |-> 1]
Batch(id, window, at, late, held, precision) ==
    [id |-> id, start |-> window[1], end |-> window[2],
     inputs |-> {[id |-> id, role |-> "observations", at |-> at], [id |-> 10, role |-> "metadata", at |-> at + late]},
     published |-> at + 2 - late, coverage |-> "complete", severity |-> "none",
     observed |-> {Observation(d, precision) : d \in held \cap (window[1]..window[2])}]
FirstBatches ==
    {Batch(1, w, at, late, held, precision) : w \in {<<1, 2>>, <<1, 3>>}, at \in {3, 5}, late \in {0, 2},
        held \in {{1}, {2}, {1, 3}}, precision \in {"instant", "date", "unknown"}}
SecondBatches ==
    {Batch(2, w, at, 0, held, "date") : w \in {<<1, 1>>, <<1, 2>>, <<2, 3>>}, at \in {4, 5}, held \in {{}, {1, 2, 3}}}
MCMarketCases ==
    {[kind |-> "market", batches |-> bs, query |-> [date |-> d, cutoff |-> c, known |-> k, age |-> a]] :
        bs \in {{b} : b \in FirstBatches} \cup {{p[1], p[2]} : p \in FirstBatches \X SecondBatches},
        d \in {2, 3}, c \in {0, 4, 6}, k \in {0, 4, 7}, a \in {0, 2}}

(* Captures and attempts of one object, instants 1..4. *)
Capture(id, ok, status, sha, fetched, lag) ==
    [id |-> id, ok |-> ok, status |-> status, sha |-> sha, fetched |-> fetched, completed |-> fetched + lag]
CapturesOf(id) ==
    {Capture(id, TRUE, 200, sha, t, lag) : sha \in {1, 2}, t \in 1..3, lag \in {0, 1}}
    \cup {Capture(id, FALSE, status, 0, t, 0) : status \in {304, 500}, t \in 1..3}
Attempts ==
    {[state |-> s, prepared |-> p, finished |-> p + lag, reused |-> 0] :
        s \in {"http_error", "interrupted_unknown"}, p \in 1..2, lag \in 1..2}
    \cup {[state |-> "not_modified", prepared |-> p, finished |-> p + lag, reused |-> r] :
        p \in 1..3, lag \in 0..1, r \in {1, 2}}
    \cup {[state |-> "in_progress", prepared |-> p, finished |-> 0, reused |-> 0] : p \in 1..3}
Coherent(captures, attempts) ==
    \A a \in attempts : a.state = "not_modified" =>
        \E c \in captures : c.ok /\ c.id = a.reused /\ c.completed <= a.prepared
MCManifestCases ==
    LET captures == {{c} : c \in CapturesOf(1)} \cup {{p[1], p[2]} : p \in CapturesOf(1) \X CapturesOf(2)}
        attempts == {{}} \cup {{a} : a \in Attempts}
                    \cup {{a, b} : a \in {x \in Attempts : x.state = "http_error"},
                                   b \in {x \in Attempts : x.state = "not_modified"}}
    IN  {[kind |-> "manifest", captures |-> p[1], attempts |-> p[2], cutoff |-> c] :
            p \in {x \in captures \X attempts : Coherent(x[1], x[2])}, c \in 2..4}

-----------------------------------------------------------------------------
(* Two years by months and three by weeks, the second of 53. *)
Year(first, longLast) ==
    [start |-> first, ends |-> <<first + 2, first + 5, first + 8, first + 11 + longLast>>, kind |-> "weeks"]
Weeks == <<Year(0, 0), Year(12, 1), Year(25, 0)>>
WithGap == <<Year(0, 0), Year(13, 0)>>
Calendar(years, n) == [years |-> years, hashes |-> 1..n, known |-> 0]
QuarterPeriods(years) == {<<QuarterStart(years[y], k), years[y].ends[k]>> : y \in DOMAIN years, k \in 1..4}
YtdPeriodsOf(years) == {<<years[y].start, years[y].ends[k]>> : y \in DOMAIN years, k \in 1..4}
MonthQuarters == {<<3 * k, 3 * k + 2>> : k \in 0..5}
MonthYtd == {<<12 * y, 12 * y + 3 * k - 1>> : y \in 0..1, k \in 1..4} \cup {<<3, 11>>}

Flow(period, i, concept, value, error, edition, flags) ==
    [from |-> period[1], to |-> period[2], kind |-> "duration", aligned |-> TRUE, concept |-> concept,
     value |-> value, error |-> error, flags |-> flags, hash |-> i, edition |-> edition, cutoff |-> 1,
     observation |-> i, context |-> "same", family |-> FamilyFor(concept, FALSE)]
Plain(period, i) == Flow(period, i, "revenue", 10 + i, 1, 1, {})
Sources(periods) == [i \in DOMAIN periods |-> Plain(periods[i], i)]
AmountCase(op, periods, calendar) ==
    [kind |-> "amount", op |-> op, sources |-> Sources(periods), calendar |-> calendar, proof |-> none]
Tuples(S, n) == [1..n -> S]
MCAmountCases ==
    {AmountCase("annual", <<p>>, c) : p \in MonthYtd, c \in {none}}
    \cup {AmountCase("annual", <<p>>, Calendar(Weeks, 1)) : p \in YtdPeriodsOf(Weeks) \cup QuarterPeriods(Weeks)}
    \cup {AmountCase("quarters", ps, none) : ps \in Tuples(MonthQuarters, 4)}
    \cup {AmountCase("quarters", ps, Calendar(Weeks, 4)) :
            ps \in Tuples({p \in QuarterPeriods(Weeks) : p[1] \in 3..24}, 4)}
    \cup {AmountCase("quarters", ps, Calendar(WithGap, 4)) :
            ps \in Tuples({p \in QuarterPeriods(WithGap) : p[1] \in 6..16}, 4)}
    \cup {AmountCase("ytd", ps, none) : ps \in Tuples(MonthYtd, 2)}
    \cup {AmountCase("ytd", ps, Calendar(Weeks, 2)) : ps \in Tuples(YtdPeriodsOf(Weeks), 2)}
    \cup {AmountCase("bridge", ps, none) : ps \in Tuples(MonthYtd, 3)}
    \cup {AmountCase("bridge", ps, Calendar(Weeks, 3)) : ps \in Tuples(YtdPeriodsOf(Weeks), 3)}
    \cup {[AmountCase("quarters", <<<<0, 2>>, <<3, 5>>, <<6, 8>>, <<9, 11>>>>, none)
             EXCEPT !.sources[2] = Flow(<<3, 5>>, 2, concept, value, error, edition, flags), !.proof = proof] :
            concept \in {"revenue", "capex"}, value \in {none, -20, 7}, error \in {none, 1}, edition \in {1, 2},
            flags \in {{}, {"revised_view"}, {"selection_conflict"}}, proof \in {none, 1..4, 1..3}}

-----------------------------------------------------------------------------
(* Metrics of one quarter, with a selected or a derived denominator. *)
Q1 == <<0, 2>>
Half == <<0, 5>>
Q2 == <<3, 5>>
Instant(i, concept, day, value, error) ==
    [Flow(<<none, day>>, i, concept, value, error, 1, {}) EXCEPT !.kind = "instant", !.family = "balance_sheet"]
QuarterOf(i, concept, value, error) ==
    Amount("ytd", <<Flow(Half, i, concept, value + 3, error, 1, {}), Flow(Q1, i + 1, concept, 3, error, 1, {})>>,
           none, none)
SmallErrors == {none, 0, 1, 2}
Operands(concepts, vs, e, derived) ==
    [i \in DOMAIN concepts |-> IF derived THEN QuarterOf(2 * i, concepts[i], vs[i], e)
                               ELSE Selected(Flow(Q2, i, concepts[i], vs[i], e, 1, {}))]
MCMetricCases ==
    {[kind |-> "metric", metric |-> "operating_margin",
      operands |-> Operands(<<"operating_income", "revenue">>, <<a, b>>, e, derived)] :
        a \in {-2, 1}, b \in -1..3, e \in SmallErrors, derived \in BOOLEAN}
    \cup {[kind |-> "metric", metric |-> "gross_margin_derived",
           operands |-> Operands(<<"revenue", "cost">>, <<a, b>>, e, derived)] :
        a \in -1..3, b \in {0, 4}, e \in SmallErrors, derived \in BOOLEAN}
    \cup {[kind |-> "metric", metric |-> m,
           operands |-> Operands(<<"cash_from_operations", "capex", "revenue">>, <<a, b, c>>, e, derived)] :
        m \in {"free_cash_flow_margin_ppe"}, a \in {-1, 3}, b \in {-1, 2}, c \in -1..3, e \in SmallErrors,
        derived \in BOOLEAN}
    \cup {[kind |-> "metric", metric |-> m, operands |->
             <<Selected(Instant(1, "current_assets", 5, a, e)), Selected(Instant(2, "current_liabilities", day, b, e))>>] :
        m \in {"current_ratio", "net_working_capital"}, a \in {-1, 4}, b \in -1..3, e \in SmallErrors, day \in {5, 2}}
    \cup {[kind |-> "metric", metric |-> "return_on_assets", operands |->
             <<Selected(Flow(<<0, 11>>, 1, "net_income", -2, e, 1, {})),
               Selected(Instant(2, "total_assets", opening, a, e)), Selected(Instant(3, "total_assets", 11, b, e))>>] :
        a \in 0..3, b \in 0..3, e \in SmallErrors, opening \in {-1, 0}}
    \cup {[kind |-> "metric", metric |-> "free_cash_flow_ppe",
           operands |-> Operands(<<"cash_from_operations", "capex">>, <<a, b>>, 1, derived)] :
        a \in {-1, 3}, b \in {-1, 2}, derived \in BOOLEAN}

MCGrowthCases ==
    LET cases(periods, calendar) ==
            {[kind |-> "growth", calendar |-> calendar, proof |-> none,
              operands |-> <<Selected(Flow(p, 1, "revenue", 5, 1, 1, {})),
                             Selected(Flow(o, 2, "revenue", v, e, edition, {}))>>] :
                p \in periods, o \in periods, v \in {1, 2}, e \in {0, 1}, edition \in {1, 2}}
    IN  cases(MonthQuarters \cup MonthYtd, none)
        \cup cases(QuarterPeriods(Weeks) \cup YtdPeriodsOf(Weeks), Calendar(Weeks, 2))
        \cup cases(QuarterPeriods(WithGap), Calendar(WithGap, 2))

Rate(i, rate, from, usable) ==
    [rate |-> rate, usable |-> usable, context |-> "same", calendar |-> none,
     current |-> Plain(<<from, from + 2>>, i), prior |-> Plain(<<from - 12, from - 10>>, 3 + i)]
MCTrendCases ==
    {[kind |-> "trend", tolerance |-> t, proof |-> none,
      metrics |-> <<Rate(1, r[1], 12, TRUE), Rate(2, r[2], middle, TRUE), Rate(3, r[3], 18, usable)>>] :
        r \in Tuples(-2..2, 3), t \in 0..1, middle \in {15, 9}, usable \in BOOLEAN}

-----------------------------------------------------------------------------
(* Multiples on date 12 over the year before it. *)
YearFlow(i, concept, value, error) == Selected(Flow(<<0, 11>>, i, concept, value, error, 1, {}))
Bridged(i, concept, value, error) ==
    Amount("bridge", <<Flow(<<-3, 8>>, i, concept, value, error, 1, {}), Flow(<<9, 11>>, i + 1, concept, 2, error, 1, {}),
                       Flow(<<-3, -1>>, i + 2, concept, 2, error, 1, {})>>, none, none)
Equity(value, day) == [value |-> value, error |-> none, from |-> none, to |-> day, usable |-> TRUE,
                       flags |-> {}, basis |-> "common_equity"]
MCMultipleCases ==
    {[kind |-> "multiple", metric |-> "ps", cap |-> Equity(cap, day), as_of |-> 12, operands |-> <<flow>>] :
        cap \in {0, 5}, day \in {11, 12},
        flow \in {YearFlow(1, "revenue", v, e) : v \in 0..4, e \in SmallErrors}
                 \cup {Bridged(1, "revenue", v, e) : v \in 0..7, e \in SmallErrors}
                 \cup {[Bridged(1, "revenue", 5, 1) EXCEPT !.value = 6]}}
    \cup {[kind |-> "multiple", metric |-> "pfcf", cap |-> Equity(5, 12), as_of |-> 12,
           operands |-> IF whole THEN <<YearFlow(1, "cash_from_operations", a, e), YearFlow(2, "capex", b, x)>>
                        ELSE <<Bridged(1, "cash_from_operations", a, e), Bridged(4, "capex", b, x)>>] :
        a \in 0..4, b \in {0, 1}, e \in SmallErrors, x \in SmallErrors, whole \in BOOLEAN}

MCStatusCases ==
    {[kind |-> "status", days |-> 0..7,
      calculation |-> [value |-> v, flags |-> flags, reproduced |-> reproduced, registered |-> TRUE,
                       sources |-> {[to |-> 1, cutoff |-> 2, precise |-> TRUE, present |-> TRUE],
                                    [to |-> end, cutoff |-> 2, precise |-> precise, present |-> v # none]}],
      context |-> [age |-> age, expected_by |-> by, expected_end |-> 3, effective |-> 1, known |-> 3,
                   applicable |-> applicable, consolidated |-> TRUE, issuer_matches |-> TRUE]] :
        v \in {none, 4}, flags \in {{}, {"denominator_nonpositive"}, {"extreme_margin"}, {"incompatible_units"}},
        reproduced \in BOOLEAN, end \in {0, 2}, precise \in BOOLEAN, age \in {2, 4}, by \in {none, 3, 5},
        applicable \in {TRUE, FALSE, none}}

Reviewed == {"revenue_growth_yoy", "free_cash_flow_ppe", "operating_margin", "return_on_assets"}
Usable(sign, extreme) == [usable |-> TRUE, sign |-> sign, extreme |-> extreme]
Outcomes == {Usable(-1, FALSE), Usable(1, TRUE), [usable |-> FALSE, sign |-> 1, extreme |-> FALSE]}
MCReviewCases ==
    {[kind |-> "review", rules |-> rules, status |-> status, results |-> [m \in {} |-> m]] :
        rules \in [{"a", "b", "c"} -> {TRUE, FALSE, none}],
        status \in UNION {[S -> {"valid", "not_meaningful", "stale", "invalid"}] : S \in SUBSET {"a", "b", "c"}}}
    \cup {[kind |-> "review", rules |-> [m \in {"a"} |-> TRUE], status |-> [m \in {} |-> m], results |-> results] :
        results \in UNION {[S -> Outcomes] : S \in SUBSET Reviewed}}

-----------------------------------------------------------------------------
(* Histories of up to five years, each disturbed at two quarters. *)
Sample(d, value) == [end |-> d, value |-> value, series |-> Series, hash |-> d, flags |-> {}]
Past(n, as_of, pattern) == [i \in 1..n |-> Sample(as_of - 3 * (i - 1), (i * pattern) % 5)]
Disturbed(ps, i, how) ==
    CASE how = "none" -> ps
      [] how = "duplicate" -> Append(ps, ps[i])
      [] how = "conflict" -> Append(ps, [ps[i] EXCEPT !.value = 9])
      [] how = "relabelled" -> Append(ps, [ps[i] EXCEPT !.hash = 99])
      [] how = "later" -> Append(ps, [ps[i] EXCEPT !.end = @ + 3 * Len(ps), !.value = 9])
      [] how = "other_series" -> Append(ps, [ps[i] EXCEPT !.series = "other", !.value = 9])
      [] how = "flagged" -> [ps EXCEPT ![i].flags = {"restated"}]
      [] how = "missing" -> [ps EXCEPT ![i].value = none]
      [] how = "off_quarter" -> [ps EXCEPT ![i].end = @ - 1]
MCBandCases ==
    {[kind |-> "band", as_of |-> 36, years |-> 3, minimum |-> minimum,
      points |-> Disturbed(Disturbed(Past(n, 36, pattern), 1, first), n, last)] :
        n \in {1, 2, 4, 6, 12, 13}, pattern \in 1..3, minimum \in {1, 4, 12},
        first \in {"none", "duplicate", "conflict", "later", "missing"},
        last \in {"none", "duplicate", "conflict", "relabelled", "later", "other_series", "flagged", "off_quarter"}}

SectorSample(d) ==
    [end |-> d, value |-> d % 7, series |-> Series, hash |-> d, flags |-> {}, membership |-> "m",
     mode |-> "historical", allowed |-> TRUE]
Redrawn(ps, i, how) ==
    CASE how = "none" -> ps
      [] how = "other_membership" -> Append(ps, [ps[i] EXCEPT !.membership = "o"])
      [] how = "gate_failed" -> [ps EXCEPT ![i].allowed = FALSE]
      [] how = "current" -> [ps EXCEPT ![i].mode = "current_members"]
      [] how = "missing" -> [ps EXCEPT ![i].value = none]
MCSectorHistoryCases ==
    {[kind |-> "sector_history", as_of |-> 60, years |-> years, mode |-> mode,
      points |-> Redrawn(Redrawn([k \in 1..n |-> SectorSample(63 - 3 * k)], i, a), 2, b)] :
        n \in {3, 12, 20}, years \in {1, 3, 5}, mode \in {"historical", "current_members"}, i \in {1, 3},
        a \in {"none", "other_membership", "gate_failed", "current", "missing"}, b \in {"none", "other_membership"}}

Assignments ==
    {a \in [from : 1..3, to : {none, 2, 3, 4}, known : {2, 5, 7}, sector : {"x", "y"}] : a.to = none \/ a.to > a.from}
MCMembershipCases ==
    {[kind |-> "membership", assignments |-> {a, b}, as_of |-> d, known_before |-> k] :
        a \in Assignments, b \in Assignments, d \in 1..3, k \in {4, 9}}

-----------------------------------------------------------------------------
(* Sectors of three issuers, and of seven for their concentration. *)
Evidence(basis, value, error) == [value |-> value, error |-> error, from |-> 0, to |-> 11, usable |-> TRUE,
                                  flags |-> {}, basis |-> basis]
CompanyMetrics(revenue, prior, growthUsable) ==
    {[id |-> "revenue_yoy", value |-> revenue - prior, usable |-> growthUsable, matches |-> TRUE],
     [id |-> "ps", value |-> 1 + revenue, usable |-> TRUE, matches |-> TRUE],
     [id |-> "operating_margin", value |-> 1, usable |-> TRUE, matches |-> TRUE]}
Company(i, cap, prior_cap, revenue, prior, income, error, growthUsable) ==
    [issuer |-> i, context |-> "same",
     applicable |-> {"ps", "revenue_yoy", "growth_breadth", "operating_margin", "cash_breadth"},
     prior_cap |-> Equity(prior_cap, 0),
     amount |-> [market_cap |-> Equity(cap, 12), revenue |-> Evidence("consolidated_flow", revenue, error),
                 operating_income |-> Evidence("consolidated_flow", income, error),
                 fcf |-> Evidence("cash_ppe_fcf", income, error),
                 prior_revenue |-> [Evidence("consolidated_flow", prior, error) EXCEPT !.from = -12, !.to = -1]],
     metrics |-> CompanyMetrics(revenue, prior, growthUsable)]
Variants(i) == {Company(i, cap, cap, revenue, prior, income, 1, growthUsable) :
                   cap \in {0, 4}, revenue \in {1, 5}, prior \in {2}, income \in {-2, 3}, growthUsable \in BOOLEAN}
Roster(issuers, complete) == [issuers |-> issuers, complete |-> complete, context |-> "same", date |-> 12, prior_date |-> 0]
MCSectorCases ==
    {[kind |-> "sector", roster |-> Roster({1, 2, 3}, complete), snapshots |-> {a, b, Company(3, 4, 4, 9, 3, 2, e, TRUE)},
      metric |-> m[1], method |-> m[2], policy |-> [contributors |-> 1, issuers |-> 50, cap |-> percent]] :
        a \in Variants(1), b \in Variants(2), e \in {1, none}, complete \in BOOLEAN, percent \in {30, 80},
        m \in {<<"ps", "total">>, <<"ps", "median">>, <<"revenue_yoy", "total">>, <<"revenue_yoy", "mean">>,
               <<"growth_breadth", "total">>, <<"operating_margin", "total">>, <<"cash_breadth", "total">>}}

Seven == 1..7
CapOrders == {[i \in Seven |-> 8 - i], [i \in Seven |-> i], [i \in Seven |-> 3], [i \in Seven |-> (i * 3) % 7],
              [i \in Seven |-> IF i \in {1, 6} THEN 2 ELSE 4]}
MCConcentrationCases ==
    {[kind |-> "concentration", roster |-> Roster(1..n, complete), policy |-> [contributors |-> 1, issuers |-> 50, cap |-> 30],
      snapshots |-> {Company(i, now[i], before[i], 5 + i, 4, 1, 1, i # lacking) : i \in 1..n}] :
        n \in {3, 5, 6, 7}, complete \in BOOLEAN, now \in CapOrders, before \in CapOrders, lacking \in {0, 2, 6}}

MCHistogramCases ==
    {[kind |-> "histogram", bins |-> bins, observed |-> o] : bins \in 1..4, o \in UNION {[1..n -> -2..3] : n \in 0..3}}

-----------------------------------------------------------------------------
(* Curves over a grid of five points. *)
MCSolveCases ==
    {[kind |-> "solve", phase |-> "partition", curve |-> f, kinks |-> kinks, slack |-> slack, rounding |-> rounding,
      width_tolerance |-> 1, residual_tolerance |-> 3, max_evaluations |-> evaluations,
      max_subdivisions |-> subdivisions, max_iterations |-> 3, pending |-> <<>>, current |-> none, bracket |-> none,
      left |-> 0, rounds |-> 0, proofs |-> <<>>, evaluations |-> 0, subdivisions |-> 0, unresolved |-> FALSE,
      reason |-> none, state |-> none, interval |-> none, open |-> {}] :
        f \in [0..4 -> {-2, 0, 1, 3}], kinks \in {{}, {1}, {1, 3}}, slack \in 0..1, rounding \in 0..1,
        evaluations \in {6, 30}, subdivisions \in {1, 4}}
=============================================================================

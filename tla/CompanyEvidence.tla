---------------------------- MODULE CompanyEvidence ----------------------------
(***************************************************************************)
(* Multiples of equity value over evaluated flows (company.py), and what    *)
(* the engine makes of a computed metric: applicability, freshness,         *)
(* coverage and the items for review (assessment.py).                       *)
(***************************************************************************)
EXTENDS SourceMetrics

CONSTANTS MultipleCases, \* kind "multiple": metric, cap, source or cfo and capex, as_of
          StatusCases,   \* kind "status": calculation, context, later
          ReviewCases    \* kind "review": rules, results

Unblocked == Informational \cup {"extreme_margin", "gross_profit_derived"}

OperationOf == [direct_annual |-> "annual", sum_four_quarters |-> "quarters",
                ytd_difference |-> "ytd", annual_ytd_bridge |-> "bridge"]
(* _operand_problems: an amount is believed only if it can be rebuilt. *)
OperandProblems(op) ==
    Issues(<<op>>, <<op.leaves[1].concept>>, FALSE)
    \cup When(op.leaves[1].concept \notin Flows, "unsupported_evidence_concept")
    \cup When(op.formula # "selected" /\
              op # Amount(OperationOf[op.formula], op.leaves, op.calendar, op.proof),
              "period_projection_mismatch")

OperandEvidence(op, problems) ==
    [value |-> IF problems = {} THEN op.value ELSE none, error |-> op.error, from |-> op.from, to |-> op.to,
     usable |-> problems = {} /\ op.value # none, flags |-> op.flags \cup problems, basis |-> "consolidated_flow"]
evidence_from_operand(op) == OperandEvidence(op, OperandProblems(op))

FcfErrorOfCash(ops) == IF none \in {ops[1].error, ops[2].error} THEN none ELSE ops[1].error
FcfError(ops) == IF none \in {ops[1].error, ops[2].error} THEN none ELSE ops[1].error + ops[2].error

FcfProblems(ops, c) ==
    UNION {OperandProblems(o) : o \in Range(ops)} \cup (c.flags \ Unblocked)
    \cup When(c.ratio = none, "calculation_value_unavailable")
FcfEvidence(ops, c, problems) ==
    [value |-> IF problems = {} THEN c.ratio[1] ELSE none,
     error |-> IF problems = {} THEN FcfError(ops) ELSE none,
     from |-> ops[1].from, to |-> ops[1].to, usable |-> problems = {},
     flags |-> c.flags \cup problems, basis |-> "cash_ppe_fcf"]
evidence_from_fcf(ops) == FcfEvidence(ops, free_cash_flow(ops), FcfProblems(ops, free_cash_flow(ops)))

(* evidence_issues: a year that ended by the evaluation date, or equity on    *)
(* exactly that date. *)
evidence_issues(e, basis, as_of, instant, precise) ==
    (e.flags \ Unblocked)
    \cup When(~e.usable, "evidence_unusable") \cup When(e.value = none, "evidence_value_invalid")
    \cup When(e.basis # basis, "incompatible_evidence_basis")
    \cup When(precise /\ e.error = none, "source_precision_unknown")
    \cup IF instant THEN When(e.from # none \/ e.to # as_of, "incompatible_equity_date")
         ELSE When(e.from = none \/ e.to > as_of \/ e.to - e.from + 1 # 4 * Quarter, "unsupported_flow_period")

equity_multiple(metric, cap, e, as_of) ==
    LET basis == CASE metric = "ps" -> "consolidated_flow" [] metric = "pfcf" -> "cash_ppe_fcf"
                   [] OTHER -> "income_available_common"
        problems == evidence_issues(cap, "common_equity", as_of, TRUE, FALSE)
                    \cup evidence_issues(e, basis, as_of, FALSE, TRUE)
                    \cup When(cap.value # none /\ cap.value <= 0, "nonpositive_equity_value")
                    \cup (IF e.value = none THEN {} ELSE Denominator(e) \ {"denominator_precision_unknown"})
    IN  IF problems = {} THEN <<cap.value, e.value>> ELSE none

-----------------------------------------------------------------------------
(* assessment.py.  A calculation has its value, flags, whether it can be       *)
(* reproduced, and its sources' period ends, cutoffs and precision; a context  *)
(* the date, the profile's dates, disposition of the metric and the freshness  *)
(* policy.                                                                     *)
NM == {"denominator_nonpositive", "denominator_indistinguishable_from_zero"}
Unsupported == {"unsupported_metric_definition", "unsupported_instrument_basis",
                "unsupported_comparison_periods", "unsupported_annual_period",
                "revision_compatibility_unproven", "incompatible_comparison_basis"}
NewestEnd(c) == CHOOSE e \in {s.to : s \in c.sources} : \A s \in c.sources : s.to <= e

StaleOnDeadline(c, x, as_of) ==
    \/ as_of - NewestEnd(c) > x.age
    \/ x.expected_by # none /\ as_of = x.expected_by + 1 /\ NewestEnd(c) < x.expected_end
Stale(c, x, as_of) ==
    \/ as_of - NewestEnd(c) > x.age
    \/ x.expected_by # none /\ as_of > x.expected_by /\ NewestEnd(c) < x.expected_end

EvaluationProblems(c, x, as_of) ==
    When(~c.registered, "unsupported_metric_definition") \cup When(~x.consolidated, "unsupported_instrument_basis")
    \cup When(~x.issuer_matches, "profile_issuer_mismatch") \cup
    When(~c.reproduced, "calculation_projection_mismatch")
    \cup When(x.effective > as_of \/ x.known > as_of, "profile_not_available_at_cutoff")
    \cup When(\E s \in c.sources : s.cutoff > as_of \/ s.to > as_of, "input_after_evaluation_cutoff")

evaluate(c, x, as_of) ==
    LET flags == c.flags \ Unblocked
        precise == \A s \in c.sources : s.precise
        missing == \E s \in c.sources : ~s.present
        problems == EvaluationProblems(c, x, as_of)
        status == IF problems # {}
                  THEN IF problems \subseteq Unsupported THEN "unsupported" ELSE "invalid"
                  ELSE IF x.applicable = none THEN "unsupported"
                  ELSE IF ~x.applicable THEN "inapplicable"
                  ELSE IF c.value # none THEN (IF flags = {} THEN "valid" ELSE "invalid")
                  ELSE IF flags # {} /\ flags \subseteq NM /\ precise THEN "not_meaningful"
                  ELSE IF missing \/ "denominator_precision_unknown" \in flags \/ (flags \subseteq NM /\ ~precise)
                       THEN "missing"
                  ELSE IF flags \cap Unsupported # {}
                       THEN "unsupported" ELSE "invalid"
    IN  IF status \in {"valid", "not_meaningful"} /\ c.sources # {} /\ Stale(c, x, as_of) THEN "stale" ELSE status

ASSUME StatusAssumption ==
    \A c \in StatusCases : LET x == c.context IN
        /\ c.days \subseteq Int /\ IsFiniteSet(c.calculation.sources)
        /\ \A s \in c.calculation.sources : {s.to, s.cutoff} \subseteq Int
        /\ {x.age, x.effective, x.known} \subseteq Int
        /\ x.expected_by # none => {x.expected_by, x.expected_end} \subseteq Int

(* coverage: over the whole roster, whatever results were handed in. *)
CoverageOfResults(rules, results) ==
    LET status(m) == results[m]
        of == {m \in DOMAIN rules : rules[m] = TRUE /\ m \in DOMAIN results}
        covered == {m \in of : status(m) \in {"valid", "not_meaningful"}}
    IN  [covered |-> Cardinality(covered), applicable |-> Cardinality(of),
         fraction |-> IF of = {} THEN none ELSE <<Cardinality(covered), Cardinality(of)>>,
         counts |-> [s \in {"valid", "not_meaningful", "stale", "missing", "invalid", "unsupported", "inapplicable"} |->
                        Cardinality({m \in DOMAIN results : status(m) = s})]]
coverage(rules, results) ==
    LET status(m) == CASE rules[m] = none -> "unsupported"
                       [] rules[m] = FALSE -> "inapplicable"
                       [] OTHER -> IF m \in DOMAIN results THEN results[m] ELSE "missing"
        applicable == {m \in DOMAIN rules : rules[m] = TRUE}
        covered == {m \in applicable : status(m) \in {"valid", "not_meaningful"}}
        settled == none \notin Range(rules)
    IN  [covered |-> Cardinality(covered), applicable |-> Cardinality(applicable),
         fraction |-> IF applicable # {} /\ settled THEN <<Cardinality(covered), Cardinality(applicable)>>
                      ELSE none,
         counts |-> [s \in {"valid", "not_meaningful", "stale", "missing", "invalid", "unsupported", "inapplicable"} |->
                        Cardinality({m \in DOMAIN rules : status(m) = s})]]

(* observations and review_items: results here are usable or not, their        *)
(* value's sign and whether the margin is extreme. *)
Observed(m, r) ==
    IF ~r.usable THEN {}
    ELSE CASE m = "revenue_growth_yoy" /\ r.sign < 0 -> {[rank |-> <<2, 3>>, topic |-> "revenue", metric |-> m]}
           [] m \in {"free_cash_flow_ppe", "free_cash_flow_margin_ppe"} /\ r.sign < 0 ->
                  {[rank |-> <<1, 0>>, topic |-> "cash_generation", metric |-> m]}
           [] m = "operating_margin" /\ r.sign < 0 -> {[rank |-> <<2, 2>>, topic |-> "earnings", metric |-> m]}
           [] m \in {"net_margin_consolidated", "return_on_assets"} /\ r.sign < 0 ->
                  {[rank |-> <<2, 1>>, topic |-> "earnings", metric |-> m]}
           [] OTHER -> {}

Candidates(results) ==
    UNION {Observed(m, results[m]) : m \in DOMAIN results}
    \cup {[rank |-> <<0, 0>>, topic |-> "data_availability", metric |-> m] :
             m \in {x \in DOMAIN results : ~results[x].usable}}
    \cup {[rank |-> <<0, 1>>, topic |-> "extreme_margin", metric |-> m] :
             m \in {x \in DOMAIN results : results[x].usable /\ results[x].extreme}}

Before(a, b) == a[1] < b[1] \/ (a[1] = b[1] /\ a[2] < b[2])
TopicRank(cs, t) == CHOOSE r \in {c.rank : c \in {x \in cs : x.topic = t}} :
                        \A c \in cs : c.topic = t => ~Before(c.rank, r)

ReviewFirstMetrics(results) ==
    LET cs == Candidates(results) IN
    {[topic |-> c.topic, metrics |-> {c.metric}] : c \in
        {x \in cs : Cardinality({y \in cs : Before(y.rank, x.rank)}) < 3}}
(* At most three topics, by priority, each with all of its metrics. *)
review_items(results) ==
    LET cs == Candidates(results)
        topics == {c.topic : c \in cs}
        ahead(t) == {u \in topics : Before(TopicRank(cs, u), TopicRank(cs, t))}
    IN  {[topic |-> t, metrics |-> {c.metric : c \in {x \in cs : x.topic = t}}] :
            t \in {u \in topics : Cardinality(ahead(u)) < 3}}

ComputeMultiple == Take(MultipleCases)
EvaluateStatus == Take(StatusCases)
ReviewCompany == Take(ReviewCases)

-----------------------------------------------------------------------------
(* A multiple of a flow assembled from several amounts is given only if the   *)
(* flow is positive for every true amount within the reported precision.      *)
FlowCertain(flow) ==
    LET least(op, sign) == Total([i \in DOMAIN op.leaves |->
                              sign * op.coefficients[i] * op.leaves[i].value - op.leaves[i].error])
    IN  equity_multiple(case.metric, case.cap, flow, case.as_of) # none =>
            IF case.metric = "ps" THEN least(case.operands[1], 1) > 0
            ELSE least(case.operands[1], 1) + least(case.operands[2], -1) > 0
MultipleCertain ==
    case.kind = "multiple" =>
        FlowCertain(IF case.metric = "ps" THEN evidence_from_operand(case.operands[1])
                    ELSE evidence_from_fcf(case.operands))

(* Time alone never makes a stale metric current again: only a newer filing   *)
(* does.                                                                      *)
StaleStays ==
    case.kind = "status" =>
        \A t \in case.days : evaluate(case.calculation, case.context, t) = "stale" =>
            \A u \in case.days : u >= t => evaluate(case.calculation, case.context, u) = "stale"

(* Coverage counts every metric of the roster once, is not raised by leaving  *)
(* a result out, and is not given while a disposition is unreviewed.          *)
CoverageNotInflated ==
    case.kind = "review" =>
    LET all == coverage(case.rules, case.status) IN
    /\ Total(all.counts) = Cardinality(DOMAIN case.rules)
    /\ all.fraction # none => none \notin Range(case.rules)
    /\ \A m \in DOMAIN case.status :
          LET less == coverage(case.rules, [x \in DOMAIN case.status \ {m} |-> case.status[x]]) IN
          all.fraction # none =>
              less.fraction # none /\ less.fraction[1] * all.fraction[2] <= all.fraction[1] * less.fraction[2]

(* Every metric that cannot be used is named for review, and a cash gap       *)
(* gives way to data questions only, never to another finding.                *)
ReviewNamesTheUnusable ==
    case.kind = "review" =>
    LET items == review_items(case.results)
        named(t) == UNION {i.metrics : i \in {x \in items : x.topic = t}}
    IN  /\ {m \in DOMAIN case.results : ~case.results[m].usable} \subseteq named("data_availability")
        /\ Cardinality(items) <= 3
        /\ \A i, j \in items : i.topic = j.topic => i = j
        /\ \A m \in DOMAIN case.results :
              Observed(m, case.results[m]) # {} /\ m = "free_cash_flow_ppe" => m \in named("cash_generation")
=============================================================================

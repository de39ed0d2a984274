------------------------------ MODULE HistoryBand ------------------------------
(***************************************************************************)
(* A metric against its own history (history.py), the membership of a       *)
(* sector at a date and the sector's history (sector_history.py).           *)
(*                                                                          *)
(* Dates are months; a quarter ends at a multiple of three.  A sample has   *)
(* its quarter's end, value, series, input hash and flags; a sector's       *)
(* sample also its membership hash and mode, and whether its coverage       *)
(* allows a comparison.  Quartiles are kept four times their value, so that *)
(* the interpolation is exact.                                              *)
(***************************************************************************)
EXTENDS Cases, FiniteSets, SequencesExt

CONSTANTS BandCases,         \* kind "band": points, as_of, years, minimum, value
          SectorHistoryCases,\* kind "sector_history": points, as_of, years, mode
          MembershipCases    \* kind "membership": assignments, as_of, known_before

Series == "series"           \* the comparable series asked for
If(condition, reason) == IF condition THEN {reason} ELSE {}
Identity(p) == <<p.series, p.value, p.hash, p.flags>>

(* _quantile: linear interpolation at (n - 1) * k / 4. *)
QuantileByRank(values, k) == 4 * values[1 + ((Len(values) - 1) * k) \div 4]
Quantile(values, k) ==
    LET position == (Len(values) - 1) * k
        lower == 1 + position \div 4
        weight == position % 4
    IN  IF weight = 0 THEN 4 * values[lower]
        ELSE (4 - weight) * values[lower] + weight * values[lower + 1]

Conflicting(ps, start, as_of) ==
    {d \in (start + 1)..as_of :
        Cardinality({Identity(p) : p \in {x \in Range(ps) : x.series = Series /\ x.end = d}}) > 1}

Reasons(p, ps, start, as_of) ==
    p.flags \cup If(p.end <= start, "outside_window") \cup If(p.end > as_of, "after_as_of")
    \cup If(p.end % 3 # 0, "not_quarter_end") \cup If(p.series # Series, "incompatible_series")
    \cup If(p.hash = none, "missing_lineage") \cup If(p.value = none, "missing_value")
    \cup If(p.series = Series /\ p.end \in Conflicting(ps, start, as_of), "conflicting_quarter")

EligibleTwice(ps, start, as_of) == {i \in DOMAIN ps : Reasons(ps[i], ps, start, as_of) = {}}
(* The samples without a reason against them, one a quarter. *)
Eligible(ps, start, as_of) ==
    {i \in DOMAIN ps : /\ Reasons(ps[i], ps, start, as_of) = {}
                       /\ \A j \in 1..(i - 1) : ps[j].end # ps[i].end \/ Reasons(ps[j], ps, start, as_of) # {}}

BandOf(ps, eligible, start, as_of, minimum) ==
    LET expected == {d \in (start + 1)..as_of : d % 3 = 0}
        order == InOrder(eligible, LAMBDA i, j : \/ ps[i].value < ps[j].value
                                                 \/ ps[i].value = ps[j].value /\ i < j)
        values == [n \in DOMAIN order |-> ps[order[n]].value]
        sufficient == Len(values) >= minimum
    IN  [eligible |-> {ps[i] : i \in eligible}, expected |-> expected,
         missing |-> expected \ {ps[i].end : i \in eligible}, values |-> values,
         quartiles |-> IF sufficient THEN [k \in 1..3 |-> Quantile(values, k)] ELSE none]
historical_band(ps, as_of, years, minimum) ==
    LET start == as_of - 12 * years IN BandOf(ps, Eligible(ps, start, as_of), start, as_of, minimum)

(* Where a sample stands, when nothing is said against it and the band has    *)
(* enough samples. *)
compare_to_history(p, band) ==
    IF \/ p.flags # {} \/ p.series # Series \/ p.hash = none \/ p.value = none
       \/ band.quartiles = none
    THEN none
    ELSE IF 4 * p.value < band.quartiles[1] THEN "below"
    ELSE IF 4 * p.value > band.quartiles[3] THEN "above" ELSE "within"

-----------------------------------------------------------------------------
(* sector_history.py *)
projected_by_input(p, mode) ==
    [end |-> p.end, value |-> p.value, series |-> p.series, hash |-> <<p.hash>>,
     flags |-> p.flags \cup If(~p.allowed, "coverage_gate_failed")
                       \cup If(p.mode # mode, "membership_mode_mismatch")]
(* The financial and the membership evidence are both part of the identity. *)
projected(p, mode) ==
    [end |-> p.end, value |-> p.value, series |-> p.series, hash |-> <<p.hash, p.membership>>,
     flags |-> p.flags \cup If(~p.allowed, "coverage_gate_failed")
                       \cup If(p.mode # mode, "membership_mode_mismatch")]

ChartOf(selection, band, as_of, years, mode) ==
    LET shown == {d \in selection.expected : d > as_of - 12 * years}
        at(d) == {p \in selection.eligible : p.end = d}
    IN  [points |-> {[end |-> d, value |-> IF at(d) = {} THEN none ELSE (CHOOSE p \in at(d) : TRUE).value]
                        : d \in shown},
         quartiles |-> IF mode = "current_members" THEN none ELSE band.quartiles]
sector_history(ps, as_of, years, mode) ==
    LET samples == [i \in DOMAIN ps |-> projected(ps[i], mode)] IN
    ChartOf(historical_band(samples, as_of, IF years < 3 THEN 3 ELSE years, 1),
            historical_band(samples, as_of, 3, 12), as_of, years, mode)

(* A date ends at its last instant, EndOf.  An assignment, of an issuer to a   *)
(* sector and industry, holds from its first date up to its end date. *)
EndOf(date) == 2 * date + 1
cutoff_as_asked(as_of, known_before) == known_before
Cutoff(as_of, known_before) == IF known_before < EndOf(as_of) THEN known_before ELSE EndOf(as_of)

select_membership(assignments, as_of, known_before) ==
    LET evidence == {a \in assignments : /\ a.from <= as_of /\ (a.to = none \/ as_of < a.to)
                                         /\ a.known <= Cutoff(as_of, known_before)}
        classes == {a.sector : a \in evidence}
    IN  IF Cardinality(classes) = 1 THEN CHOOSE c \in classes : TRUE ELSE none

ASSUME MembershipAssumption ==
    /\ none \notin Int
    /\ \A c \in MembershipCases :
          /\ {c.as_of, c.known_before} \subseteq Nat
          /\ \A a \in c.assignments : /\ {a.from, a.known} \subseteq Nat /\ a.to \in Nat \cup {none}
                                       /\ a.sector # none

PlaceInHistory == Take(BandCases)
DrawSectorHistory == Take(SectorHistoryCases)
ClassifyIssuer == Take(MembershipCases)

-----------------------------------------------------------------------------
(* The middle range is the middle of the sample, up to the value that the     *)
(* interpolation stands between: half of the eligible samples are "within"    *)
(* it, a quarter "below" and a quarter "above" (compare_to_history), and in    *)
(* the mirrored history each sample stands on the other side.                 *)
Mirrored(p) == [p EXCEPT !.value = IF @ = none THEN none ELSE -@]
HalfWithin(band, mirror) ==
    LET placed(side) == Cardinality({p \in band.eligible : compare_to_history(p, band) = side})
        opposite == [below |-> "above", within |-> "within", above |-> "below"]
        n == Len(band.values)
    IN  band.quartiles # none =>
            /\ 2 * placed("within") >= n - 2 /\ 4 * placed("below") <= n + 2 /\ 4 * placed("above") <= n + 2
            /\ \A p \in band.eligible :
                  compare_to_history(Mirrored(p), mirror) = opposite[compare_to_history(p, band)]
MiddleHalf ==
    case.kind = "band" =>
    LET band(ps) == historical_band(ps, case.as_of, case.years, case.minimum) IN
    HalfWithin(band(case.points), band([i \in DOMAIN case.points |-> Mirrored(case.points[i])]))

(* A band depends on the set of samples of its own past only: neither their   *)
(* order, nor a repeated delivery, nor a sample of a later quarter or of      *)
(* another series changes it, and of a contradicted quarter none is taken.    *)
BandOfOwnPast ==
    case.kind = "band" =>
    LET ps == case.points
        band(x) == historical_band(x, case.as_of, case.years, case.minimum)
        own == SelectSeq(ps, LAMBDA p : p.end <= case.as_of /\ p.series = Series)
        twice(p) == \E o \in Range(ps) : o.series = Series /\ o.end = p.end /\ Identity(o) # Identity(p)
        unmoved(b) == /\ \A x \in {Reverse(ps), ps \o ps, own} : band(x) = b
                      /\ \A p \in b.eligible : ~twice(p)
    IN  unmoved(band(ps))

(* A sector's chart shows each quarter of its window once, as a value or as a *)
(* gap, whatever the number of years drawn: a year's chart is the end of the  *)
(* five years' chart; a quarter for which two memberships were evaluated is a *)
(* gap.                                                                       *)
ShowsGaps(chart, longest) ==
    LET memberships(d) == {p.membership : p \in {x \in Range(case.points) : x.end = d /\ x.series = Series}} IN
    /\ Cardinality(chart.points) = 4 * case.years
    /\ chart.points \subseteq longest.points
    /\ \A p \in chart.points : p.value # none => Cardinality(memberships(p.end)) = 1
    /\ chart.quartiles = longest.quartiles
ChartShowsGaps ==
    case.kind = "sector_history" =>
    LET chart(years) == sector_history(case.points, case.as_of, years, case.mode) IN
    ShowsGaps(chart(case.years), chart(5))

(* A past classification does not change with what became known after its     *)
(* date, even when the reader knows more; and a handover leaves no date with   *)
(* two sectors.                                                               *)
NoHindsight ==
    case.kind = "membership" =>
    LET at(as, day) == select_membership(as, day, case.known_before)
        later == {a \in case.assignments : a.known > EndOf(case.as_of)}
    IN  /\ at(case.assignments, case.as_of) = at(case.assignments \ later, case.as_of)
        /\ \A a, b \in case.assignments :
              a.to = b.from /\ {a.known, b.known} \subseteq 0..Cutoff(case.as_of, case.known_before) =>
                  at({a, b}, case.as_of) \in {none, a.sector, b.sector}
                  /\ (a.from <= case.as_of /\ (b.to = none \/ case.as_of < b.to)
                        => at({a, b}, case.as_of) # none)
=============================================================================

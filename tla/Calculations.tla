------------------------------ MODULE Calculations ------------------------------
(***************************************************************************)
(* The engine's calculations together.  Each is a function of its inputs,   *)
(* and is checked against a definition of its result written another way;   *)
(* the solver runs step by step.                                            *)
(***************************************************************************)
EXTENDS MarketSelection, CaptureManifest, Sectors, ReverseSolver

(* Each calculation takes inputs of its own kind. *)
CasesOf ==
    [market |-> MarketCases, manifest |-> ManifestCases, amount |-> AmountCases, metric |-> MetricCases,
     growth |-> GrowthCases, trend |-> TrendCases, multiple |-> MultipleCases, status |-> StatusCases,
     review |-> ReviewCases, band |-> BandCases, sector_history |-> SectorHistoryCases,
     membership |-> MembershipCases, sector |-> SectorCases, concentration |-> ConcentrationCases,
     histogram |-> HistogramCases, solve |-> SolveCases]
ASSUME KindsAssumption == \A k \in DOMAIN CasesOf : \A c \in CasesOf[k] : c.kind = k

ReadEvidence == ReadMarket \/ PrepareManifest
CalculateCompany == AssembleAmount \/ ComputeMetric \/ CompareGrowth \/ CompareTrend \/ ComputeMultiple
                    \/ EvaluateStatus \/ ReviewCompany \/ PlaceInHistory
CompareCompanies == ClassifyIssuer \/ CalculateSector \/ CalculateConcentration \/ DrawHistogram
                    \/ DrawSectorHistory

Done == case.kind = "solve" => case.phase = "done"
Next == ReadEvidence \/ CalculateCompany \/ CompareCompanies \/ StartSolve \/ SolveStep \/ (Done /\ Finish)

Spec == Init /\ [][Next]_case

-----------------------------------------------------------------------------
\* A read as of an instant sees what was known then, and all of it: later
\* publications and answers change nothing, and an older or empty
\* answer is not taken for a newer one (market_selection.py, vintage.py).
ReadsInTime ==
    /\ NoLookahead /\ NewerEmptyBlocks /\ BackfillIgnored /\ KnownAtInstant
    /\ UnflaggedIsFresh /\ CutoffIsFinal

\* An amount measures the period it is named for, growth compares periods of
\* one kind and length, and a trend holds at every step
\* (periods.py, fiscal.py, metrics.py, trends.py).
PeriodsMeasure == AmountMeasuresWindow /\ GrowthIsLikeForLike /\ TrendHoldsStepwise

\* No quotient is formed over a denominator whose sign the evidence leaves open
\* (metrics.py, company.py).
QuotientsCertain == DenominatorCertain /\ MultipleCertain

\* The statuses shown for a company do not flatter it: what is stale stays so,
\* the share of usable metrics counts all that apply, and the review names
\* what is not usable (assessment.py).
StatusesHonest == StaleStays /\ CoverageNotInflated /\ ReviewNamesTheUnusable

\* A band is the middle half of the company's own past, and a sector's chart
\* uses no hindsight and hides no gap (history.py, sector_history.py).
HistoryHonest == MiddleHalf /\ BandOfOwnPast /\ ChartShowsGaps /\ NoHindsight

\* A sector figure is about all companies of its roster and one cohort of them
\* (sectors.py).
SectorsHonest == SectorWithinCompanies /\ GateNeedsEveryone /\ LeadersFrozen /\ HistogramCounts

\* What the solver certifies is true and what it did not examine it reports,
\* whenever its budget runs out (valuation.py).
SolverSound == CertificateTrue /\ NoRegionLost
=============================================================================

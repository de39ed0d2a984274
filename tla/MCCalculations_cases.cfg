SPECIFICATION Spec
CONSTANTS
  none = none
  MarketCases <- MCMarketCases
  ManifestCases <- MCManifestCases
  AmountCases <- MCAmountCases
  MetricCases <- MCMetricCases
  GrowthCases <- MCGrowthCases
  TrendCases <- MCTrendCases
  MultipleCases <- MCMultipleCases
  StatusCases <- MCStatusCases
  ReviewCases <- MCReviewCases
  BandCases <- MCBandCases
  SectorHistoryCases <- MCSectorHistoryCases
  MembershipCases <- MCMembershipCases
  SectorCases <- MCSectorCases
  ConcentrationCases <- MCConcentrationCases
  HistogramCases <- MCHistogramCases
  SolveCases <- MCSolveCases
INVARIANTS
    ReadsInTime
    PeriodsMeasure
    QuotientsCertain
    StatusesHonest
    HistoryHonest
    SectorsHonest
    SolverSound

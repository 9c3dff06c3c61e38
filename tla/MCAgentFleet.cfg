SPECIFICATION FairSpec
CONSTANTS
  Systems = {"a", "b", "c", "d"}
  Subject = "a"
  Catalogs <- MCCatalogs
INVARIANTS
  ScreenedFirst
  AnalysisIsComplete
  ImpactIsExact
PROPERTIES
  AnalysisEnds
CHECK_DEADLOCK FALSE

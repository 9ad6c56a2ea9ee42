SPECIFICATION Spec
CONSTANTS
  NONE = NONE
  TORN = TORN
  Document <- Sequential
  MaxOutput = 1
  Throws = TRUE
INVARIANTS ReportTruthful
PROPERTIES ErrorStopsFlow

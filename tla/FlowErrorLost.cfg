SPECIFICATION FairSpec
CONSTANTS
  NONE = NONE
  TORN = TORN
  Document <- Deployment
  MaxOutput = 0
  Throws = FALSE
PROPERTIES ErrorStopsFlow

SPECIFICATION FairSpec
CONSTANTS
  NONE = NONE
  TORN = TORN
  Document <- TwoThreads
  MaxOutput = 2
  Throws = TRUE
INVARIANTS FlowInv OutputComplete ContextOutlivesThreads StatusSettled
PROPERTIES RunEnds

SPECIFICATION FairSpec
CONSTANTS
  Chars = {"a", "b"}
  DEL = DEL
  JUNK = JUNK
  IB_MAX = 2
  BUF = 2
  InitialLens <- MCInitialLens
  SOCKBUF = 1
  MaxKeys = 4
  MaxWaiting = 2
  MaxText = 1
INVARIANTS TypeOK StoresWithin LinesAsTyped
PROPERTIES LossNoticed TypedRead

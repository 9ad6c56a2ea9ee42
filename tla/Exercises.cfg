SPECIFICATION ExercisesSpec
CONSTANTS
  Values <- MCValues
  MaxLen = 5
  INT_MAX = 5
  SIZE_MAX = 63
  Overflow <- MCOverflow
  NONE = NONE
  Scalars <- MCScalars
  zero = 0
  one = 1
  add <- MCAdd
  mul <- MCMul
  neg <- MCNeg
  P_wrist2rh_tracker <- MCOffset
  CameraLists <- MCCameraLists
  GloveData <- MCGloveData
  TrackerData <- MCTrackerData
  Motions <- MCMotions
  FIELDS = 3
  WORD = WORD
  JUNK = JUNK
  MaxTokens = 7
  MaxPoses = 4
INVARIANTS MergeCorrect RemovalsCorrect MajorityFound RotatedRight ProfitsBest JumpsCorrect HIndexCorrect ProductsCorrect
INVARIANTS BonesLookedUp FrameIndependent CameraRequested TrajectoryFaithful

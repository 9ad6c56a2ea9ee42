SPECIFICATION CalibrationSpec
CONSTANTS
  Scalars <- MCScalars
  zero = 0
  one = 1
  add <- MCAdd
  mul <- MCMul
  neg <- MCNeg
  P_wrist2rh_tracker <- MCOffset
  CameraLists <- MCCameraLists
  GloveData <- MCGloveData
  TrackerData <- MCTrackerData
  Motions <- MCMotions
INVARIANTS ProjectsCameraFrame

CONSTANTS
  Soc <- MCSocOne
  Functions <- T234Functions
  Params = {"PULL", "FUNCTION", "LOCK"}
  Args = {1, 4}
  MaxBatch = 2
  GpioPins <- MCGpioPinsOne
  InitRegVals <- MCInitRegVals
  SleepStates <- MCSleepStates
SPECIFICATION Spec
INVARIANT TypeOK
PROPERTY RefinesLogical
VIEW StateView

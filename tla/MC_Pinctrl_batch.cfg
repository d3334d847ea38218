CONSTANTS
  Soc <- MCSocOne
  Functions <- T234Functions
  Params = {"LOCK", "PULL"}
  Args = {1}
  MaxBatch = 2
  GpioPins <- MCGpioPinsOne
  InitRegVals <- MCInitRegVals
  SleepStates <- MCSleepStates
SPECIFICATION Spec
PROPERTY BestEffortBatch
VIEW StateView

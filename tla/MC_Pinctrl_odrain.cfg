CONSTANTS
  Soc <- MCSocOne
  Functions <- T234Functions
  Params = {"OPEN_DRAIN"}
  Args = {1}
  MaxBatch = 1
  GpioPins <- MCGpioPinsOne
  InitRegVals <- MCInitRegVals
  SleepStates <- MCSleepStates
SPECIFICATION Spec
PROPERTY ConfigKeepsFunction
VIEW StateView

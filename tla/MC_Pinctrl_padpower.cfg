CONSTANTS
  Soc <- MCSocTwo
  Functions <- T234Functions
  Params = {"PAD_POWER"}
  Args = {0}
  MaxBatch = 1
  GpioPins <- MCGpioPinsTwo
  InitRegVals <- MCInitRegVals
  SleepStates <- MCSleepStates
SPECIFICATION Spec
PROPERTY OtherGroupsKept
VIEW StateView

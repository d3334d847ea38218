CONSTANTS
  Soc <- MCSocComp
  Functions <- T234Functions
  Params = {"PULL"}
  Args = {1}
  MaxBatch = 1
  GpioPins <- MCGpioPinsOne
  InitRegVals <- MCInitRegVals
  SleepStates <- MCSleepStates
SPECIFICATION Spec
PROPERTY MuxWriteConfined
VIEW StateView

CONSTANTS
  Soc <- MCSocBanks
  Functions <- MCFunctionsBanks
  Params = {"DRIVE_DOWN_STRENGTH"}
  Args = {1}
  MaxBatch = 1
  GpioPins <- MCGpioPinsBanks
  InitRegVals <- MCInitRegVals
  SleepStates <- MCSleepStates
SPECIFICATION Spec
PROPERTY OtherGroupsKept
VIEW StateView

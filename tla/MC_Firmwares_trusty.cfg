CONSTANTS
  TRUSTY = TRUE
  BufSizes = {4096}
  TrustyLens = {8, 4100}
SPECIFICATION Spec
INVARIANT ReadReturnWithinBuffer

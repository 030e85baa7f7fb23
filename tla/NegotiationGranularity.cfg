SPECIFICATION Spec
CONSTANTS
  Kernels <- MCKernels
  Requested <- MCRequested
  Values <- MCValues
  MaxCalls = 2
INVARIANT GranularityNearest

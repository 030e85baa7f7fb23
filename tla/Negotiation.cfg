SPECIFICATION Spec
CONSTANTS
  Kernels <- MCKernels
  Requested <- MCRequested
  Values <- MCValues
  MaxCalls = 2
INVARIANTS Agreement IdmapHonoured OnlyProvided LimitsFit SuggestionsNearest

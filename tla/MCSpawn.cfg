\* One request.
SPECIFICATION Spec
CONSTANTS
  NPages = 5
  GpWords = 34
  FpWords = 66
  Requests <- MCRequests
  Layouts <- MCLayouts
INVARIANTS
  SuccessNeedsPc
  OneAnswer
PROPERTIES
  RequestAnswered
CHECK_DEADLOCK FALSE

\* Matching programs of up to two calls; the kernels buffer one part.
CONSTANTS
  MaxCalls = 2
  MsgSizes = {1}
  WireCap = 1
  Plans <- MatchingPlans
SPECIFICATION FairSpec
INVARIANTS NoFailure
PROPERTIES BothClose
CHECK_DEADLOCK FALSE

\* One call at each end, with messages of two lengths.
CONSTANTS
  MaxCalls = 1
  MsgSizes = {1, 2}
  WireCap = 2
  Plans <- AnyPlans
SPECIFICATION Spec
INVARIANT MismatchThrows
CHECK_DEADLOCK FALSE

\* Arbitrary programs of up to two calls with matching lengths.
CONSTANTS
  MaxCalls = 2
  MsgSizes = {1}
  WireCap = 2
  Plans <- AnyPlans
SPECIFICATION Spec
INVARIANTS TypeOK QueueDriven FifoDelivery CleanClose StackPromiseAlive OutstandingExact
PROPERTIES SendFlushes ImplementsPipe
CHECK_DEADLOCK FALSE
